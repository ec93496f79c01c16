------------------------ MODULE InstanceConfigProofs ------------------------
(***************************************************************************)
(* Proofs about InstanceConfig, for any number of requests.                *)
(*                                                                         *)
(* PublishedInOrder and NoLostUpdate rest on the same facts: a number is   *)
(* picked above all that are known, so that a gap never appears; and as    *)
(* long as no save has brought a purged instance back, versions only grow, *)
(* so what was over when a handler began has a lower number and no higher  *)
(* version than what the handler works with.                               *)
(***************************************************************************)
EXTENDS InstanceConfig, TLAPS

Started(q) == req[q] # None /\ req[q].stage # "new"

Working(q) ==
  req[q] # None /\ req[q].stage \in {"target", "save", "latest", "add"}

\* Requests that were over when another began or that recorded a revision,
\* rows with revisions, and changes in progress, which work with a visible row
\* of the seen version.
Facts ==
  /\ \A p \in Content, q \in Request :
       <<p, q>> \in before => Started(q) /\ (p # Seed => Over(p))
  /\ \A r \in revisions : r.by # Seed => Over(r.by)
  /\ revisions # {} => row # None
  /\ \A q \in Request : At(q, "target") \/ At(q, "save") =>
       req[q].was.version = req[q].seen.version /\ ~req[q].was.deleted

\* No gap below a revision or below a number that was picked.
Gapless ==
  /\ \A r \in revisions : \A n \in 1..r.no : \E s \in revisions : s.no = n
  /\ \A r, s \in revisions : r.no = s.no => r = s
  /\ \A q \in Request : At(q, "add") =>
       /\ req[q].no > 0
       /\ \A n \in 1..(req[q].no - 1) : \E s \in revisions : s.no = n

\* The row has the highest version anybody has seen or recorded.
Versions ==
  ~revived /\ row # None =>
    /\ \A r \in revisions : r.version =< row.version
    /\ \A q \in Request : req[q] # None =>
         /\ req[q].seen.version =< row.version
         /\ req[q].was.version =< row.version
         /\ req[q].seen.version = row.version => req[q].seen.content = row.content

\* What was recorded before a handler began is older than what it records.
Order ==
  ~revived =>
    /\ \A r \in revisions, q \in Request : <<r.by, q>> \in before =>
         /\ Working(q) => r.version =< req[q].was.version
         /\ At(q, "add") => r.no < req[q].no
    /\ \A r, s \in revisions :
         r.no < s.no /\ r.version > s.version => Overlapped(r.by, s.by)

IInv == TypeOK /\ Facts /\ Gapless /\ Versions /\ Order

LEMMA InitIInv == Init => IInv
<1>. SUFFICES ASSUME Init PROVE IInv
  OBVIOUS
<1>. USE ConfigAssumption DEF Init
<1>1. TypeOK
  <2>1. row \in Row
    BY DEF Row, Content
  <2>2. revisions \subseteq Revision
    BY DEF Revision, Content
  <2>. QED  BY <2>1, <2>2 DEF TypeOK
<1>2. Facts
  <2>1. row \in Row
    BY DEF Row, Content
  <2>2. before = {} /\ \A q \in Request : req[q] = None
    OBVIOUS
  <2>3. \A r \in revisions : r.by = Seed
    OBVIOUS
  <2>. QED  BY <2>1, <2>2, <2>3 DEF Facts, At
<1>3. Gapless
  <2>1. CASE revisions = {}
    BY <2>1 DEF Gapless, At
  <2>2. CASE revisions = {[no |-> 1, content |-> Seed, version |-> 1, by |-> Seed]}
    BY <2>2 DEF Gapless, At
  <2>. QED  BY <2>1, <2>2
<1>4. Versions /\ Order
  BY DEF Versions, Order
<1>. QED  BY <1>1, <1>2, <1>3, <1>4 DEF IInv

Handles(q) ==
  \/ Arrives(q, "publish", "latest") \/ Arrives(q, "purge", "calls")
  \/ Arrives(q, "call", "insert")
  \/ Begin(q) \/ FindTarget(q) \/ Save(q) \/ PickNumber(q) \/ Add(q)
  \/ FindCalls(q) \/ HardDelete(q) \/ RecordCall(q)

\* The step takes the request to a stage where it has started, and no other.
Moves(q) == /\ req' = [req EXCEPT ![q] = req'[q]]
            /\ req'[q] \in Req /\ req'[q].stage # "new"

LEMMA IsReq ==
  ASSUME TypeOK, NEW q \in Request, NEW stage, At(q, stage)
  PROVE  req[q] \in Req /\ req[q].stage = stage
BY DEF TypeOK, At

LEMMA OneRequest ==
  ASSUME TypeOK, NEW q \in Request, Handles(q)
  PROVE  /\ Moves(q)
         /\ ~Over(q)
         /\ (before' = before /\ Started(q)) \/ (Starts(q) /\ ~Started(q))
<1>. USE ConfigAssumption DEF TypeOK
<1>1. ASSUME NEW kind \in {"edit", "rollback", "publish", "purge", "call"},
             NEW stage \in {"latest", "calls", "insert"}, Arrives(q, kind, stage)
      PROVE  Moves(q) /\ ~Over(q) /\ Starts(q) /\ ~Started(q)
  <2>1. New(q, kind, stage) \in Req /\ New(q, kind, stage).stage = stage
    BY <1>1 DEF Arrives, New, Visible, Content, Req
  <2>. QED  BY <1>1, <2>1 DEF Arrives, Moves, Over, Started
<1>2. CASE Begin(q)
  <2>1. At(q, "new") /\ Starts(q)
    BY <1>2 DEF Begin
  <2>2. req[q] \in Req /\ req[q].stage = "new"
    BY <2>1, IsReq
  <2>3. Moves(q)
    <3>1. CASE Visible /\ req[q].seen.version = row.version
      <4>. DEFINE stage == IF req[q].kind = "edit" THEN "save" ELSE "target"
      <4>1. /\ req' = [req EXCEPT ![q].was = row, ![q].stage = stage]
            /\ row \in Row
        BY <1>2, <3>1 DEF Begin, Visible
      <4>2. stage \in {"save", "target"}
        OBVIOUS
      <4>. HIDE DEF stage
      <4>. QED  BY <2>2, <4>1, <4>2 DEF Moves, Req
    <3>2. CASE ~(Visible /\ req[q].seen.version = row.version)
      BY <1>2, <2>2, <3>2 DEF Moves, Begin, Go, Req
    <3>. QED  BY <3>1, <3>2
  <2>. QED  BY <2>1, <2>2, <2>3 DEF Over, Started, At
<1>3. CASE FindTarget(q)
  <2>1. At(q, "target") /\ before' = before
    BY <1>3 DEF FindTarget
  <2>2. req[q] \in Req /\ req[q].stage = "target"
    BY <2>1, IsReq
  <2>3. CASE Go(q, "refused")
    BY <2>1, <2>2, <2>3 DEF Moves, Go, Req, Over, Started, At
  <2>4. CASE ~Go(q, "refused")
    <3>1. PICK r \in revisions : req' = [req EXCEPT ![q].content = r.content, ![q].stage = "save"]
      BY <1>3, <2>4 DEF FindTarget
    <3>2. r.content \in Content
      BY DEF Revision
    <3>3. Moves(q)
      BY <2>2, <3>1, <3>2 DEF Moves, Req
    <3>. QED  BY <2>1, <2>2, <3>3 DEF Over, Started, At
  <2>. QED  BY <2>3, <2>4
<1>4. CASE Save(q)
  <2>1. At(q, "save") /\ before' = before
    BY <1>4 DEF Save
  <2>2. req[q] \in Req /\ req[q].stage = "save"
    BY <2>1, IsReq
  <2>3. CASE Go(q, "refused")
    BY <2>1, <2>2, <2>3 DEF Moves, Go, Req, Over, Started, At
  <2>4. CASE ~Go(q, "refused")
    <3>. DEFINE new == [version |-> req[q].was.version + 1,
                        content |-> req[q].content, deleted |-> req[q].was.deleted]
                stage == IF req[q].kind = "edit" THEN "ok" ELSE "latest"
    <3>1. req' = [req EXCEPT ![q].was = new, ![q].stage = stage]
      BY <1>4, <2>4 DEF Save
    <3>2. new \in Row
      BY <2>2 DEF Row, Req
    <3>3. stage \in {"ok", "latest"}
      OBVIOUS
    <3>. HIDE DEF new, stage
    <3>4. Moves(q)
      BY <2>2, <3>1, <3>2, <3>3 DEF Moves, Req
    <3>. QED  BY <2>1, <2>2, <3>4 DEF Over, Started, At
  <2>. QED  BY <2>3, <2>4
<1>5. CASE PickNumber(q)
  <2>1. At(q, "latest") /\ before' = before
    BY <1>5 DEF PickNumber
  <2>2. req[q] \in Req /\ req[q].stage = "latest"
    BY <2>1, IsReq
  <2>3. PICK n \in Numbers : req' = [req EXCEPT ![q].no = n, ![q].stage = "add"]
    BY <1>5 DEF PickNumber
  <2>4. n \in Nat
    BY DEF Numbers, Revision
  <2>5. Moves(q)
    BY <2>2, <2>3, <2>4 DEF Moves, Req
  <2>. QED  BY <2>1, <2>2, <2>5 DEF Over, Started, At
<1>6. CASE Add(q) \/ FindCalls(q) \/ HardDelete(q) \/ RecordCall(q)
  <2>1. PICK stage \in {"add", "calls", "remove", "insert"} : At(q, stage) /\ before' = before
    BY <1>6 DEF Add, FindCalls, HardDelete, RecordCall
  <2>2. req[q] \in Req /\ req[q].stage = stage
    BY <2>1, IsReq
  <2>3. \E to \in {"ok", "refused", "failed", "remove"} : req' = [req EXCEPT ![q].stage = to]
    BY <1>6 DEF Add, FindCalls, HardDelete, RecordCall, Go
  <2>4. Moves(q)
    BY <2>2, <2>3 DEF Moves, Req
  <2>. QED  BY <2>1, <2>2, <2>4 DEF Over, Started, At
<1>. QED  BY <1>1, <1>2, <1>3, <1>4, <1>5, <1>6 DEF Handles

\* What each handler's step does to its request, beyond OneRequest.
Same(q) == /\ req'[q].seen = req[q].seen /\ req'[q].was = req[q].was
           /\ req'[q].no = req[q].no

LEMMA ArrivesEffect ==
  ASSUME TypeOK, NEW q \in Request, NEW kind, NEW stage, Arrives(q, kind, stage)
  PROVE  /\ req'[q].seen = row /\ req'[q].was = row /\ req'[q].stage = stage
         /\ row \in Row
         /\ UNCHANGED <<row, revisions, called, revived>>
BY DEF TypeOK, Arrives, New, Visible

LEMMA BeginEffect ==
  ASSUME TypeOK, NEW q \in Request, Begin(q)
  PROVE  /\ req'[q].seen = req[q].seen
         /\ \/ req'[q].stage = "refused"
            \/ /\ req'[q].stage \in {"save", "target"}
               /\ row \in Row /\ ~row.deleted
               /\ req[q].seen.version = row.version /\ req'[q].was = row
         /\ UNCHANGED <<row, revisions, called, revived>>
<1>1. At(q, "new") /\ UNCHANGED <<row, revisions, called, revived>>
  BY DEF Begin
<1>2. req[q] \in Req /\ req[q].stage = "new" /\ req \in [Request -> Req \cup {None}]
  BY <1>1, IsReq DEF TypeOK
<1>3. CASE Visible /\ req[q].seen.version = row.version
  <2>. DEFINE stage == IF req[q].kind = "edit" THEN "save" ELSE "target"
  <2>1. req' = [req EXCEPT ![q].was = row, ![q].stage = stage]
    BY <1>3 DEF Begin
  <2>2. stage \in {"save", "target"}
    OBVIOUS
  <2>. HIDE DEF stage
  <2>3. req'[q].seen = req[q].seen /\ req'[q].stage = stage /\ req'[q].was = row
    BY <1>2, <2>1 DEF Req
  <2>. QED  BY <1>1, <1>3, <2>2, <2>3 DEF Visible, TypeOK
<1>4. CASE ~(Visible /\ req[q].seen.version = row.version)
  BY <1>1, <1>2, <1>4 DEF Begin, Go, Req
<1>. QED  BY <1>3, <1>4

LEMMA FindTargetEffect ==
  ASSUME TypeOK, NEW q \in Request, FindTarget(q)
  PROVE  /\ At(q, "target")
         /\ Same(q) /\ req'[q].stage \in {"refused", "save"}
         /\ UNCHANGED <<row, revisions, called, before, revived>>
<1>1. At(q, "target") /\ UNCHANGED <<row, revisions, called, before, revived>>
  BY DEF FindTarget
<1>2. req[q] \in Req /\ req \in [Request -> Req \cup {None}]
  BY <1>1, IsReq DEF TypeOK
<1>3. CASE Go(q, "refused")
  BY <1>1, <1>2, <1>3 DEF Go, Req, Same
<1>4. CASE ~Go(q, "refused")
  <2>1. PICK r \in revisions : req' = [req EXCEPT ![q].content = r.content, ![q].stage = "save"]
    BY <1>4 DEF FindTarget
  <2>. QED  BY <1>1, <1>2, <2>1 DEF Req, Same
<1>. QED  BY <1>3, <1>4

Saved(q) ==
  /\ row = None \/ SavesOver(q)
  /\ row' = [version |-> req[q].was.version + 1, content |-> req[q].content,
             deleted |-> req[q].was.deleted]
  /\ revived' = (revived \/ row = None)
  /\ req'[q].was = row'
  /\ req'[q].stage \in {"ok", "latest"}

LEMMA SaveEffect ==
  ASSUME TypeOK, NEW q \in Request, Save(q)
  PROVE  /\ At(q, "save") /\ req[q] \in Req
         /\ req'[q].seen = req[q].seen /\ req'[q].no = req[q].no
         /\ \/ /\ Same(q) /\ req'[q].stage = "refused"
               /\ UNCHANGED <<row, revived>>
            \/ Saved(q)
         /\ UNCHANGED <<revisions, called, before>>
<1>1. At(q, "save") /\ UNCHANGED <<revisions, called, before>>
  BY DEF Save
<1>2. req[q] \in Req /\ req \in [Request -> Req \cup {None}]
  BY <1>1, IsReq DEF TypeOK
<1>3. CASE row # None /\ ~SavesOver(q)
  BY <1>1, <1>2, <1>3 DEF Save, Go, Req, Same
<1>4. CASE ~(row # None /\ ~SavesOver(q))
  <2>. DEFINE new == [version |-> req[q].was.version + 1,
                      content |-> req[q].content, deleted |-> req[q].was.deleted]
              stage == IF req[q].kind = "edit" THEN "ok" ELSE "latest"
  <2>1. /\ row' = new /\ revived' = (revived \/ row = None)
        /\ req' = [req EXCEPT ![q].was = new, ![q].stage = stage]
    BY <1>4 DEF Save
  <2>2. stage \in {"ok", "latest"}
    OBVIOUS
  <2>3. row' = new => Saved(q) <=>
          /\ row = None \/ SavesOver(q)
          /\ revived' = (revived \/ row = None)
          /\ req'[q].was = new /\ req'[q].stage \in {"ok", "latest"}
    BY DEF Saved
  <2>. HIDE DEF new, stage
  <2>4. /\ req'[q].seen = req[q].seen /\ req'[q].no = req[q].no
        /\ req'[q].was = new /\ req'[q].stage = stage
    BY <1>2, <2>1 DEF Req
  <2>. QED  BY <1>1, <1>2, <1>4, <2>1, <2>2, <2>3, <2>4
<1>. QED  BY <1>3, <1>4

LEMMA PickNumberEffect ==
  ASSUME TypeOK, NEW q \in Request, PickNumber(q)
  PROVE  /\ At(q, "latest")
         /\ req'[q].seen = req[q].seen /\ req'[q].was = req[q].was
         /\ req'[q].stage = "add" /\ req'[q].no \in Numbers
         /\ \A m \in Numbers : m =< req'[q].no
         /\ UNCHANGED <<row, revisions, called, before, revived>>
<1>1. At(q, "latest") /\ UNCHANGED <<row, revisions, called, before, revived>>
  BY DEF PickNumber
<1>2. req[q] \in Req /\ req \in [Request -> Req \cup {None}]
  BY <1>1, IsReq DEF TypeOK
<1>3. PICK n \in Numbers : /\ \A m \in Numbers : m =< n
                           /\ req' = [req EXCEPT ![q].no = n, ![q].stage = "add"]
  BY DEF PickNumber
<1>. QED  BY <1>1, <1>2, <1>3 DEF Req

\* The handlers that only read or try to write one table.
LEMMA OthersEffect ==
  ASSUME TypeOK, NEW q \in Request,
         Add(q) \/ FindCalls(q) \/ HardDelete(q) \/ RecordCall(q)
  PROVE  /\ Same(q) /\ req'[q].stage \in {"ok", "refused", "failed", "remove"}
         /\ UNCHANGED <<before, revived>>
<1>1. PICK stage \in {"add", "calls", "remove", "insert"} : At(q, stage) /\ UNCHANGED <<before, revived>>
  BY DEF Add, FindCalls, HardDelete, RecordCall
<1>2. req[q] \in Req /\ req \in [Request -> Req \cup {None}]
  BY <1>1, IsReq DEF TypeOK
<1>3. \E to \in {"ok", "refused", "failed", "remove"} : req' = [req EXCEPT ![q].stage = to]
  BY DEF Add, FindCalls, HardDelete, RecordCall, Go
<1>. QED  BY <1>1, <1>2, <1>3 DEF Req, Same

LEMMA Steps ==
  ASSUME [Next]_vars
  PROVE  \/ \E q \in Request : Handles(q)
         \/ \E q \in Request, kind \in {"edit", "rollback"} : Opens(q, kind)
         \/ \E deleted \in BOOLEAN : SetDeleted(deleted)
         \/ UNCHANGED vars
BY DEF Next, Handles

LEMMA OpensEffect ==
  ASSUME TypeOK, NEW q \in Request, NEW kind \in {"edit", "rollback"}, Opens(q, kind)
  PROVE  /\ ~Started(q) /\ ~Over(q)
         /\ req' = [req EXCEPT ![q] = req'[q]] /\ req'[q] \in Req
         /\ req'[q].seen = row /\ req'[q].was = row /\ req'[q].stage = "new"
         /\ row \in Row /\ UNCHANGED <<row, revisions, called, before, revived>>
<1>1. row \in Row /\ q \in Content
  BY DEF TypeOK, Opens, Visible, Content
<1>2. New(q, kind, "new") \in Req
  BY <1>1 DEF New, Req
<1>3. /\ req[q] = None /\ req' = [req EXCEPT ![q] = New(q, kind, "new")]
      /\ UNCHANGED <<row, revisions, called, before, revived>>
  BY DEF Opens
<1>. QED  BY <1>1, <1>2, <1>3 DEF TypeOK, New, Started, Over

\* A step of Next that is not a handler's changes no request that has started.
LEMMA NextTypeOK == IInv /\ [Next]_vars => TypeOK'
<1>. SUFFICES ASSUME IInv, [Next]_vars PROVE TypeOK'
  OBVIOUS
<1>. USE DEF IInv
<1>1. ASSUME NEW q \in Request, Handles(q) PROVE TypeOK'
  <2>1. req' \in [Request -> Req \cup {None}] /\ before' \subseteq Content \X Request
    <3>1. Moves(q) /\ (before' = before \/ Starts(q))
      BY <1>1, OneRequest
    <3>. QED  BY <3>1 DEF TypeOK, Moves, Starts, Content
  <2>2. CASE \/ Arrives(q, "publish", "latest") \/ Arrives(q, "purge", "calls")
             \/ Arrives(q, "call", "insert")
    BY <2>1, <2>2, ArrivesEffect DEF TypeOK
  <2>3. CASE Begin(q) \/ FindTarget(q) \/ PickNumber(q)
    BY <2>1, <2>3, BeginEffect, FindTargetEffect, PickNumberEffect DEF TypeOK
  <2>4. CASE Save(q)
    <3>1. CASE Saved(q)
      <4>1. row' \in Row
        BY <2>4, <3>1, SaveEffect DEF Saved, Row, Req
      <4>2. revived' \in BOOLEAN
        BY <3>1 DEF Saved, TypeOK
      <4>. QED  BY <2>1, <2>4, <4>1, <4>2, SaveEffect DEF TypeOK
    <3>2. CASE ~Saved(q)
      BY <2>1, <2>4, <3>2, SaveEffect DEF TypeOK
    <3>. QED  BY <3>1, <3>2
  <2>5. CASE Add(q)
    <3>1. /\ row' = row /\ called' = called /\ revived' = revived
          /\ At(q, "add")
          /\ revisions' \subseteq revisions \cup
               {[no |-> req[q].no, content |-> req[q].was.content,
                 version |-> req[q].was.version, by |-> q]}
      BY <2>5 DEF Add
    <3>2. req[q].no \in Nat \ {0} /\ req[q].was \in Row
      BY <3>1, IsReq DEF Gapless, Req
    <3>3. [no |-> req[q].no, content |-> req[q].was.content,
           version |-> req[q].was.version, by |-> q] \in Revision
      BY <3>2 DEF Revision, Row, Content
    <3>. QED  BY <2>1, <3>1, <3>3 DEF TypeOK
  <2>6. CASE FindCalls(q) \/ HardDelete(q) \/ RecordCall(q)
    BY <2>1, <2>6 DEF FindCalls, HardDelete, RecordCall, TypeOK
  <2>. QED  BY <1>1, <2>2, <2>3, <2>4, <2>5, <2>6 DEF Handles
<1>2. ASSUME NEW q \in Request, NEW kind \in {"edit", "rollback"}, Opens(q, kind) PROVE TypeOK'
  BY <1>2, OpensEffect DEF TypeOK
<1>3. ASSUME NEW deleted \in BOOLEAN, SetDeleted(deleted) PROVE TypeOK'
  BY <1>3 DEF SetDeleted, TypeOK, Row
<1>4. CASE UNCHANGED vars
  BY <1>4 DEF vars, TypeOK
<1>. QED  BY <1>1, <1>2, <1>3, <1>4, Steps

LEMMA NextFacts == IInv /\ [Next]_vars => Facts'
<1>. SUFFICES ASSUME IInv, [Next]_vars PROVE Facts'
  OBVIOUS
<1>. USE ConfigAssumption DEF IInv
<1>1. ASSUME NEW q \in Request, Handles(q) PROVE Facts'
  <2>1. /\ Moves(q) /\ ~Over(q)
        /\ (before' = before /\ Started(q)) \/ (Starts(q) /\ ~Started(q))
    BY <1>1, OneRequest
  <2>2. /\ \A x \in Request \ {q} : req'[x] = req[x]
        /\ req'[q] # None /\ req'[q].stage # "new"
    BY <2>1 DEF Moves, TypeOK, Req
  <2>3. ASSUME NEW p \in Content, NEW x \in Request, <<p, x>> \in before'
        PROVE  Started(x)' /\ (p # Seed => Over(p)')
    <3>1. Started(x)'
      BY <2>1, <2>2, <2>3 DEF Facts, Starts, Started
    <3>2. ASSUME p # Seed PROVE Over(p)'
      <4>1. p \in Request /\ Over(p)
        BY <2>1, <2>3, <3>2 DEF Facts, Starts, Content
      <4>. QED  BY <2>1, <2>2, <4>1 DEF Over
    <3>. QED  BY <3>1, <3>2
  <2>4. revisions' # {} => row' # None
    <3>1. CASE Save(q)
      <4>1. ASSUME Saved(q) PROVE row' # None
        <5>1. row' \in Row
          BY <3>1, <4>1, SaveEffect DEF Saved, Row, Req
        <5>. QED  BY <5>1
      <4>. QED  BY <3>1, <4>1, SaveEffect DEF Facts
    <3>2. CASE Add(q) \/ HardDelete(q)
      BY <3>2 DEF Add, HardDelete, Facts
    <3>3. CASE \/ Arrives(q, "publish", "latest") \/ Arrives(q, "purge", "calls")
               \/ Arrives(q, "call", "insert")
               \/ Begin(q) \/ FindTarget(q) \/ PickNumber(q)
               \/ FindCalls(q) \/ RecordCall(q)
      BY <3>3 DEF Arrives, Begin, FindTarget, PickNumber, FindCalls, RecordCall, Facts
    <3>. QED  BY <1>1, <3>1, <3>2, <3>3 DEF Handles
  <2>5. ASSUME NEW x \in Request, At(x, "target")' \/ At(x, "save")'
        PROVE  req'[x].was.version = req'[x].seen.version /\ ~req'[x].was.deleted
    <3>1. CASE x # q
      BY <2>2, <2>5, <3>1 DEF Facts, At
    <3>2. CASE x = q
      <4>1. CASE Begin(q)
        BY <2>5, <3>2, <4>1, BeginEffect DEF At
      <4>2. CASE FindTarget(q)
        BY <2>5, <3>2, <4>2, FindTargetEffect DEF At, Same, Facts
      <4>3. CASE Save(q)
        BY <2>5, <3>2, <4>3, SaveEffect DEF At, Saved
      <4>4. CASE ~Begin(q) /\ ~FindTarget(q) /\ ~Save(q)
        BY <1>1, <2>5, <3>2, <4>4, ArrivesEffect, PickNumberEffect, OthersEffect DEF At, Handles
      <4>. QED  BY <4>1, <4>2, <4>3, <4>4
    <3>. QED  BY <3>1, <3>2
  <2>6. \A r \in revisions' : r.by # Seed => Over(r.by)'
    <3>1. \A r \in revisions : r.by # Seed => Over(r.by)'
      BY <2>1, <2>2 DEF Facts, Over, TypeOK, Revision, Content
    <3>2. CASE Add(q)
      <4>1. CASE revisions' = revisions
        BY <3>1, <4>1
      <4>2. CASE revisions' # revisions
        <5>1. /\ Go(q, "ok") /\ At(q, "add")
              /\ revisions' = revisions \cup
                   {[no |-> req[q].no, content |-> req[q].was.content,
                     version |-> req[q].was.version, by |-> q]}
          BY <3>2, <4>2 DEF Add
        <5>2. Over(q)'
          BY <5>1, <2>2, IsReq DEF Go, Over, Req, TypeOK
        <5>. QED  BY <3>1, <5>1, <5>2
      <4>. QED  BY <4>1, <4>2
    <3>3. CASE ~Add(q)
      BY <1>1, <3>1, <3>3, ArrivesEffect, BeginEffect, FindTargetEffect, PickNumberEffect, SaveEffect
         DEF Handles, FindCalls, HardDelete, RecordCall
    <3>. QED  BY <3>2, <3>3
  <2>. QED  BY <2>3, <2>4, <2>5, <2>6 DEF Facts
<1>2. ASSUME NEW q \in Request, NEW kind \in {"edit", "rollback"}, Opens(q, kind) PROVE Facts'
  <2>1. /\ \A x \in Request \ {q} : req'[x] = req[x]
        /\ ~Started(q) /\ ~Over(q) /\ req'[q].stage = "new"
        /\ UNCHANGED <<row, revisions, before>>
    BY <1>2, OpensEffect DEF TypeOK
  <2>. QED  BY <2>1 DEF Facts, Started, Over, At, Content, TypeOK, Revision
<1>3. ASSUME NEW deleted \in BOOLEAN, SetDeleted(deleted) PROVE Facts'
  <2>1. row' # None
    BY <1>3 DEF SetDeleted, TypeOK, Row
  <2>. QED  BY <1>3, <2>1 DEF SetDeleted, Facts, Started, Over, At
<1>4. CASE UNCHANGED vars
  BY <1>4 DEF vars, Facts, Started, Over, At
<1>. QED  BY <1>1, <1>2, <1>3, <1>4, Steps

LEMMA NextGapless == IInv /\ [Next]_vars => Gapless'
<1>. SUFFICES ASSUME IInv, [Next]_vars PROVE Gapless'
  OBVIOUS
<1>. USE DEF IInv
<1>1. ASSUME NEW q \in Request, Handles(q) PROVE Gapless'
  <2>1. /\ \A x \in Request \ {q} : req'[x] = req[x]
        /\ req'[q] \in Req
    BY <1>1, OneRequest DEF Moves, TypeOK
  <2>2. CASE Add(q)
    <3>1. /\ At(q, "add") /\ req'[q].stage # "add"
          /\ \/ revisions' = revisions
             \/ /\ ~Taken(q)
                /\ revisions' = revisions \cup
                     {[no |-> req[q].no, content |-> req[q].was.content,
                       version |-> req[q].was.version, by |-> q]}
      BY <2>2, OthersEffect DEF Add
    <3>2. revisions \subseteq revisions'
      BY <3>1
    <3>3. ASSUME NEW x \in Request, At(x, "add")'
          PROVE  /\ req'[x].no > 0
                 /\ \A n \in 1..(req'[x].no - 1) : \E s \in revisions' : s.no = n
      <4>1. req'[x] = req[x] /\ At(x, "add")
        BY <2>1, <3>1, <3>3 DEF At
      <4>. QED  BY <3>2, <4>1 DEF Gapless
    <3>4. CASE revisions' = revisions
      BY <3>3, <3>4 DEF Gapless
    <3>5. CASE /\ ~Taken(q)
               /\ revisions' = revisions \cup
                    {[no |-> req[q].no, content |-> req[q].was.content,
                      version |-> req[q].was.version, by |-> q]}
      <4>. DEFINE new == [no |-> req[q].no, content |-> req[q].was.content,
                          version |-> req[q].was.version, by |-> q]
      <4>1. new.no = req[q].no /\ new \in revisions'
        BY <3>5
      <4>2. \A r \in revisions' : r \in revisions \/ r = new
        BY <3>5
      <4>3. \A r \in revisions : r.no # new.no
        BY <3>5, <4>1 DEF Taken
      <4>4. /\ req[q].no \in Nat \ {0}
            /\ \A n \in 1..(req[q].no - 1) : \E s \in revisions : s.no = n
        BY <3>1, IsReq DEF Gapless, Req
      <4>. HIDE DEF new
      <4>5. \A r, s \in revisions' : r.no = s.no => r = s
        BY <4>2, <4>3 DEF Gapless
      <4>6. ASSUME NEW r \in revisions', NEW n \in 1..r.no
            PROVE  \E s \in revisions' : s.no = n
        <5>1. CASE r \in revisions
          BY <3>2, <5>1 DEF Gapless
        <5>2. CASE r = new /\ n = new.no
          BY <4>1, <5>2
        <5>3. CASE r = new /\ n # new.no
          <6>1. n \in 1..(req[q].no - 1)
            BY <4>1, <4>4, <5>3
          <6>. QED  BY <3>2, <4>4, <6>1
        <5>. QED  BY <4>2, <5>1, <5>2, <5>3
      <4>. QED  BY <3>3, <4>5, <4>6 DEF Gapless
    <3>. QED  BY <3>1, <3>4, <3>5
  <2>3. CASE PickNumber(q)
    <3>1. /\ req'[q].no \in Numbers /\ \A m \in Numbers : m =< req'[q].no
          /\ UNCHANGED revisions
      BY <2>3, PickNumberEffect
    <3>2. req'[q].no > 0
      BY <3>1 DEF Numbers, TypeOK, Revision
    <3>3. ASSUME NEW n \in 1..(req'[q].no - 1) PROVE \E s \in revisions : s.no = n
      <4>1. PICK r \in revisions : req'[q].no = r.no + 1 /\ r.no \in Nat
        BY <3>1, <3>3 DEF Numbers, TypeOK, Revision
      <4>2. n \in 1..r.no
        BY <4>1
      <4>. QED  BY <4>2 DEF Gapless
    <3>4. ASSUME NEW x \in Request, At(x, "add")'
          PROVE  /\ req'[x].no > 0
                 /\ \A n \in 1..(req'[x].no - 1) : \E s \in revisions : s.no = n
      BY <2>1, <3>2, <3>3, <3>4 DEF Gapless, At
    <3>. QED  BY <3>1, <3>4 DEF Gapless
  <2>4. CASE ~Add(q) /\ ~PickNumber(q)
    <3>1. revisions' = revisions /\ req'[q].stage # "add"
      <4>1. CASE FindCalls(q) \/ HardDelete(q) \/ RecordCall(q)
        BY <4>1, OthersEffect DEF FindCalls, HardDelete, RecordCall
      <4>2. CASE Begin(q) \/ FindTarget(q) \/ Save(q)
        BY <4>2, BeginEffect, FindTargetEffect, SaveEffect DEF Saved
      <4>3. CASE \/ Arrives(q, "publish", "latest") \/ Arrives(q, "purge", "calls")
                 \/ Arrives(q, "call", "insert")
        BY <4>3, ArrivesEffect
      <4>. QED  BY <1>1, <2>4, <4>1, <4>2, <4>3 DEF Handles
    <3>2. ASSUME NEW x \in Request, At(x, "add")' PROVE At(x, "add") /\ req'[x] = req[x]
      BY <2>1, <3>1, <3>2 DEF At
    <3>. QED  BY <3>1, <3>2 DEF Gapless
  <2>. QED  BY <2>2, <2>3, <2>4
<1>2. ASSUME NEW q \in Request, NEW kind \in {"edit", "rollback"}, Opens(q, kind) PROVE Gapless'
  <2>1. \A x \in Request : At(x, "add")' => At(x, "add") /\ req'[x] = req[x]
    BY <1>2, OpensEffect DEF At, TypeOK
  <2>. QED  BY <1>2, <2>1, OpensEffect DEF Gapless
<1>3. CASE \E deleted \in BOOLEAN : SetDeleted(deleted)
  BY <1>3 DEF SetDeleted, Gapless, At
<1>4. CASE UNCHANGED vars
  BY <1>4 DEF vars, Gapless, At
<1>. QED  BY <1>1, <1>2, <1>3, <1>4, Steps

LEMMA NextVersions == IInv /\ [Next]_vars => Versions'
<1>. SUFFICES ASSUME IInv, [Next]_vars, ~revived', row' # None PROVE
       /\ \A r \in revisions' : r.version =< row'.version
       /\ \A x \in Request : req'[x] # None =>
            /\ req'[x].seen.version =< row'.version
            /\ req'[x].was.version =< row'.version
            /\ req'[x].seen.version = row'.version => req'[x].seen.content = row'.content
  BY DEF Versions
<1>. USE DEF IInv
<1>1. ASSUME NEW q \in Request, Handles(q)
      PROVE  /\ \A r \in revisions' : r.version =< row'.version
             /\ \A x \in Request : req'[x] # None =>
                  /\ req'[x].seen.version =< row'.version
                  /\ req'[x].was.version =< row'.version
                  /\ req'[x].seen.version = row'.version => req'[x].seen.content = row'.content
  <2>1. \A x \in Request \ {q} : req'[x] = req[x]
    BY <1>1, OneRequest DEF Moves, TypeOK
  <2>2. CASE Save(q) /\ Saved(q)
    <3>1. /\ row # None /\ ~revived /\ row \in Row
          /\ row.version = req[q].was.version
          /\ row'.version = row.version + 1
          /\ req'[q].was = row' /\ req'[q].seen = req[q].seen
          /\ req[q] # None /\ revisions' = revisions
      <4>1. row # None /\ ~revived
        BY <2>2 DEF Saved
      <4>2. row \in Row
        BY <4>1 DEF TypeOK
      <4>3. row.version = req[q].was.version /\ row'.version = req[q].was.version + 1
        BY <2>2, <4>1 DEF Saved, SavesOver
      <4>4. req'[q].was = row'
        BY <2>2 DEF Saved
      <4>. QED  BY <2>2, <4>1, <4>2, <4>3, <4>4, SaveEffect DEF At
    <3>2. \A r \in revisions : r.version \in Nat
      BY DEF TypeOK, Revision
    <3>3. \A x \in Request : req[x] # None =>
            req[x].seen.version \in Nat /\ req[x].was.version \in Nat
      BY DEF TypeOK, Req, Row
    <3>4. row.version \in Nat
      BY <3>1 DEF Row
    <3>. QED  BY <2>1, <3>1, <3>2, <3>3, <3>4 DEF Versions
  <2>3. CASE ~(Save(q) /\ Saved(q))
    <3>1. revived' = revived /\ (row' = row)
      <4>1. CASE Save(q)
        BY <2>3, <4>1, SaveEffect
      <4>2. CASE ~Save(q)
        BY <1>1, <4>2, ArrivesEffect, BeginEffect, FindTargetEffect, PickNumberEffect
           DEF Handles, Add, FindCalls, HardDelete, RecordCall
      <4>. QED  BY <4>1, <4>2
    <3>2. /\ req'[q].seen.version =< row.version
          /\ req'[q].was.version =< row.version
          /\ req'[q].seen.version = row.version => req'[q].seen.content = row.content
      <4>0. row \in Row /\ row.version \in Nat /\ ~revived
        BY <3>1 DEF TypeOK, Row
      <4>1. CASE Begin(q)
        <5>1. At(q, "new")
          BY <4>1 DEF Begin
        <5>2. \/ req'[q].was = row
              \/ req'[q].was = req[q].was
          <6>1. req[q] \in Req /\ req \in [Request -> Req \cup {None}]
            BY <5>1, IsReq DEF TypeOK
          <6>2. CASE Go(q, "refused")
            BY <6>1, <6>2 DEF Go, Req
          <6>3. CASE ~Go(q, "refused")
            BY <4>1, <6>3, BeginEffect, <6>1 DEF Begin, Req
          <6>. QED  BY <6>2, <6>3
        <5>. QED  BY <4>0, <4>1, <5>1, <5>2, <3>1, BeginEffect DEF Versions, At
      <4>2. CASE FindTarget(q)
        BY <3>1, <4>0, <4>2, FindTargetEffect DEF Same, Versions, At
      <4>3. CASE Save(q)
        BY <2>3, <3>1, <4>0, <4>3, SaveEffect DEF Same, Versions, At
      <4>4. CASE PickNumber(q)
        BY <3>1, <4>0, <4>4, PickNumberEffect DEF Versions, At
      <4>5. CASE Add(q) \/ FindCalls(q) \/ HardDelete(q) \/ RecordCall(q)
        <5>1. req[q] # None
          BY <4>5 DEF Add, FindCalls, HardDelete, RecordCall, At
        <5>. QED  BY <3>1, <4>0, <4>5, <5>1, OthersEffect DEF Same, Versions
      <4>6. CASE \/ Arrives(q, "publish", "latest") \/ Arrives(q, "purge", "calls")
                 \/ Arrives(q, "call", "insert")
        BY <4>0, <4>6, ArrivesEffect
      <4>. QED  BY <1>1, <4>1, <4>2, <4>3, <4>4, <4>5, <4>6 DEF Handles
    <3>3. \A r \in revisions' : r.version =< row.version
      <4>1. CASE Add(q)
        <5>1. At(q, "add") /\ revisions' \subseteq revisions \cup
                {[no |-> req[q].no, content |-> req[q].was.content,
                  version |-> req[q].was.version, by |-> q]}
          BY <4>1 DEF Add
        <5>2. \A r \in revisions' : r \in revisions \/ r.version = req[q].was.version
          BY <5>1
        <5>. QED  BY <3>1, <5>1, <5>2 DEF Versions, At
      <4>2. CASE ~Add(q)
        <5>1. revisions' = revisions
          BY <1>1, <4>2, ArrivesEffect, BeginEffect, FindTargetEffect, PickNumberEffect, SaveEffect
             DEF Handles, FindCalls, HardDelete, RecordCall
        <5>. QED  BY <3>1, <5>1 DEF Versions
      <4>. QED  BY <4>1, <4>2
    <3>. QED  BY <2>1, <3>1, <3>2, <3>3 DEF Versions
  <2>. QED  BY <2>2, <2>3
<1>2. ASSUME NEW q \in Request, NEW kind \in {"edit", "rollback"}, Opens(q, kind)
      PROVE  /\ \A r \in revisions' : r.version =< row'.version
             /\ \A x \in Request : req'[x] # None =>
                  /\ req'[x].seen.version =< row'.version
                  /\ req'[x].was.version =< row'.version
                  /\ req'[x].seen.version = row'.version => req'[x].seen.content = row'.content
  <2>1. \A x \in Request \ {q} : req'[x] = req[x]
    BY <1>2, OpensEffect DEF TypeOK
  <2>2. row.version =< row.version
    BY <1>2, OpensEffect DEF Row
  <2>. QED  BY <1>2, <2>1, <2>2, OpensEffect DEF Versions
<1>3. CASE \E deleted \in BOOLEAN : SetDeleted(deleted)
  <2>1. /\ row # None /\ row'.version = row.version /\ row'.content = row.content
        /\ UNCHANGED <<revisions, req, revived>>
    BY <1>3 DEF SetDeleted, TypeOK, Row
  <2>. QED  BY <2>1 DEF Versions
<1>4. CASE UNCHANGED vars
  BY <1>4 DEF vars, Versions
<1>. QED  BY <1>1, <1>2, <1>3, <1>4, Steps

\* A handler of q works with what was there when it began, or later; so no
\* revision from before has a number or a version above its own.
LEMMA NextOrder == IInv /\ [Next]_vars => Order'
<1>. SUFFICES ASSUME IInv, [Next]_vars, ~revived' PROVE
       /\ \A r \in revisions', x \in Request : <<r.by, x>> \in before' =>
            /\ Working(x)' => r.version =< req'[x].was.version
            /\ At(x, "add")' => r.no < req'[x].no
       /\ \A r, s \in revisions' :
            r.no < s.no /\ r.version > s.version => Overlapped(r.by, s.by)'
  BY DEF Order
<1>. USE ConfigAssumption DEF IInv
<1>1. ASSUME NEW q \in Request, Handles(q)
      PROVE  /\ \A r \in revisions', x \in Request : <<r.by, x>> \in before' =>
                  /\ Working(x)' => r.version =< req'[x].was.version
                  /\ At(x, "add")' => r.no < req'[x].no
             /\ \A r, s \in revisions' :
                  r.no < s.no /\ r.version > s.version => Overlapped(r.by, s.by)'
  <2>1. /\ \A x \in Request \ {q} : req'[x] = req[x]
        /\ ~Over(q)
        /\ (before' = before /\ Started(q)) \/ (Starts(q) /\ ~Started(q))
    BY <1>1, OneRequest DEF Moves, TypeOK
  <2>2. \A p, x \in Content : x # q => (<<p, x>> \in before' <=> <<p, x>> \in before)
    BY <2>1 DEF Starts
  <2>3. \A x \in Content : <<q, x>> \notin before /\ <<q, x>> \notin before'
    <3>1. q # Seed /\ q \in Content
      BY DEF Content
    <3>. QED  BY <2>1, <3>1 DEF Facts, Starts, TypeOK
  <2>4. ~revived
    <3>1. CASE Save(q)
      BY <3>1, SaveEffect DEF Saved
    <3>2. CASE ~Save(q)
      BY <1>1, <3>2, ArrivesEffect, BeginEffect, FindTargetEffect, PickNumberEffect, OthersEffect DEF Handles
    <3>. QED  BY <3>1, <3>2
  <2>5. \A r \in revisions : r.by \in Content /\ r.no \in Nat /\ r.version \in Nat
    BY DEF TypeOK, Revision
  <2>6. \A r \in revisions : r.by # q
    BY <2>1 DEF Facts, Content
  <2>7. \A r, s \in revisions :
          r.no < s.no /\ r.version > s.version => Overlapped(r.by, s.by)'
    BY <2>2, <2>4, <2>5, <2>6 DEF Overlapped, Order
  <2>8. ASSUME NEW r \in revisions, <<r.by, q>> \in before'
        PROVE  /\ Working(q)' => r.version =< req'[q].was.version
               /\ At(q, "add")' => r.no < req'[q].no
    <3>1. CASE \/ Begin(q)
               \/ Arrives(q, "publish", "latest") \/ Arrives(q, "purge", "calls")
               \/ Arrives(q, "call", "insert")
      <4>1. req'[q].stage # "add" /\ (Working(q)' => req'[q].was = row /\ row \in Row)
        BY <3>1, BeginEffect, ArrivesEffect DEF Working
      <4>. QED  BY <2>4, <4>1 DEF Versions, At
    <3>2. CASE FindTarget(q)
      <4>1. <<r.by, q>> \in before /\ Working(q)
        BY <2>8, <3>2, FindTargetEffect DEF Working, At
      <4>. QED  BY <2>4, <3>2, <4>1, FindTargetEffect DEF Order, Same, At
    <3>3. CASE Save(q)
      <4>1. <<r.by, q>> \in before /\ Working(q) /\ req[q].was.version \in Nat
        BY <2>8, <3>3, SaveEffect DEF Working, At, Req, Row
      <4>2. \/ req'[q].was = req[q].was /\ req'[q].stage = "refused"
            \/ /\ req'[q].was.version = req[q].was.version + 1
               /\ req'[q].stage \in {"ok", "latest"}
        BY <3>3, SaveEffect DEF Same, Saved
      <4>. QED  BY <2>4, <2>5, <4>1, <4>2 DEF Order, At
    <3>4. CASE PickNumber(q)
      <4>1. <<r.by, q>> \in before /\ Working(q)
        BY <2>8, <3>4, PickNumberEffect DEF Working, At
      <4>2. r.no + 1 =< req'[q].no /\ req'[q].no \in Nat
        BY <2>5, <3>4, PickNumberEffect DEF Numbers
      <4>. QED  BY <2>4, <2>5, <3>4, <4>1, <4>2, PickNumberEffect DEF Order
    <3>5. CASE Add(q) \/ FindCalls(q) \/ HardDelete(q) \/ RecordCall(q)
      BY <3>5, OthersEffect DEF Working, At
    <3>. QED  BY <1>1, <3>1, <3>2, <3>3, <3>4, <3>5 DEF Handles
  <2>9. ASSUME NEW r \in revisions, NEW x \in Request, <<r.by, x>> \in before'
        PROVE  /\ Working(x)' => r.version =< req'[x].was.version
               /\ At(x, "add")' => r.no < req'[x].no
    <3>1. CASE x = q
      BY <2>8, <2>9, <3>1
    <3>2. CASE x # q
      <4>1. <<r.by, x>> \in before /\ req'[x] = req[x]
        BY <2>1, <2>2, <2>5, <2>9, <3>2 DEF Content
      <4>. QED  BY <2>4, <4>1 DEF Order, Working, At
    <3>. QED  BY <3>1, <3>2
  <2>10. CASE revisions' = revisions
    BY <2>7, <2>9, <2>10
  <2>11. CASE revisions' # revisions
    <3>1. Add(q)
      BY <1>1, <2>11, ArrivesEffect, BeginEffect, FindTargetEffect, PickNumberEffect, SaveEffect
         DEF Handles, FindCalls, HardDelete, RecordCall
    <3>. DEFINE new == [no |-> req[q].no, content |-> req[q].was.content,
                        version |-> req[q].was.version, by |-> q]
    <3>2. /\ At(q, "add") /\ revisions' = revisions \cup {new} /\ before' = before
      BY <2>11, <3>1 DEF Add
    <3>3. /\ new.by = q /\ new.no = req[q].no /\ new.version = req[q].was.version
          /\ new.no \in Nat /\ new.version \in Nat
      BY <3>2, IsReq DEF Req, Row
    <3>. HIDE DEF new
    <3>4. \A r \in revisions : <<r.by, q>> \in before =>
            r.version =< new.version /\ r.no < new.no
      BY <2>4, <3>2, <3>3 DEF Order, Working, At
    <3>5. \A r \in revisions : <<q, r.by>> \notin before
      BY <2>3, <2>5
    <3>6. \A r \in revisions :
            /\ r.no < new.no /\ r.version > new.version => Overlapped(r.by, q)'
            /\ new.no < r.no /\ new.version > r.version => Overlapped(q, r.by)'
      BY <2>5, <3>2, <3>3, <3>4, <3>5 DEF Overlapped
    <3>7. \A x \in Request : <<new.by, x>> \notin before'
      BY <2>3, <3>3 DEF Content
    <3>8. \A r \in revisions' : r \in revisions \/ r = new
      BY <3>2
    <3>9. \A r, s \in revisions' :
            r.no < s.no /\ r.version > s.version => Overlapped(r.by, s.by)'
      BY <2>7, <3>3, <3>6, <3>8
    <3>. QED  BY <2>9, <3>7, <3>8, <3>9
  <2>. QED  BY <2>10, <2>11
<1>2. ASSUME NEW q \in Request, NEW kind \in {"edit", "rollback"}, Opens(q, kind)
      PROVE  /\ \A r \in revisions', x \in Request : <<r.by, x>> \in before' =>
                  /\ Working(x)' => r.version =< req'[x].was.version
                  /\ At(x, "add")' => r.no < req'[x].no
             /\ \A r, s \in revisions' :
                  r.no < s.no /\ r.version > s.version => Overlapped(r.by, s.by)'
  <2>1. /\ UNCHANGED <<revisions, before, revived>>
        /\ \A x \in Request \ {q} : req'[x] = req[x]
        /\ req'[q].stage = "new"
    BY <1>2, OpensEffect DEF TypeOK
  <2>2. \A x \in Request : (Working(x)' \/ At(x, "add")') => req'[x] = req[x]
    BY <2>1 DEF Working, At
  <2>3. \A x \in Request : /\ Working(x)' => Working(x)
                           /\ At(x, "add")' => At(x, "add")
    BY <2>2 DEF Working, At
  <2>. QED  BY <2>1, <2>2, <2>3 DEF Order, Overlapped
<1>3. CASE (\E deleted \in BOOLEAN : SetDeleted(deleted)) \/ UNCHANGED vars
  BY <1>3 DEF SetDeleted, vars, Order, Overlapped, Working, At
<1>. QED  BY <1>1, <1>2, <1>3, Steps

THEOREM Invariance == Spec => []IInv
<1>1. IInv /\ [Next]_vars => IInv'
  BY NextTypeOK, NextFacts, NextGapless, NextVersions, NextOrder DEF IInv
<1>. QED  BY <1>1, InitIInv, PTL DEF Spec

-----------------------------------------------------------------------------
(* What the runs check on small instances *)

\* The row, the revisions and the requests keep their types.
THEOREM TypeCorrect == Spec => []TypeOK
BY Invariance, PTL DEF IInv

\* Revisions have no gaps, no number is used twice, and their order is that of
\* the configurations, for any number of people who publish and roll back.
THEOREM PublishedInOrderHolds == Spec => []PublishedInOrder
<1>1. IInv => PublishedInOrder
  BY DEF IInv, Gapless, Order, PublishedInOrder
<1>. QED  BY <1>1, Invariance, PTL

\* No accepted edit or rollback replaces a content its author has not seen, for
\* any number of people who edit at once, until a save brings a purged instance
\* back.
THEOREM NoLostUpdateHolds == Spec => NoLostUpdate
<1>. DEFINE Kept == (row # None /\ row' # None) =>
       \/ row' = [row EXCEPT !.deleted = ~@]
       \/ \E q \in Request : /\ At(q, "save")
                             /\ revived \/ req[q].seen.content = row.content
                             /\ row' = [version |-> row.version + 1,
                                        content |-> req[q].content,
                                        deleted |-> FALSE]
<1>1. IInv /\ [Next]_vars => [Kept]_row
  <2>. SUFFICES ASSUME IInv, [Next]_vars, row' # row, row # None, row' # None PROVE Kept
    OBVIOUS
  <2>. USE DEF IInv
  <2>1. ASSUME NEW q \in Request, Handles(q) PROVE Kept
    <3>1. CASE Save(q)
      <4>1. Saved(q) /\ At(q, "save") /\ req[q] \in Req /\ row \in Row
        BY <3>1, SaveEffect DEF TypeOK
      <4>2. row.version = req[q].was.version /\ req[q].was.version = req[q].seen.version
        BY <4>1 DEF Saved, SavesOver, Facts
      <4>3. req[q].was.deleted = FALSE
        BY <4>1 DEF Facts, Req, Row
      <4>4. row' = [version |-> row.version + 1, content |-> req[q].content, deleted |-> FALSE]
        BY <4>1, <4>2, <4>3 DEF Saved
      <4>5. revived \/ req[q].seen.content = row.content
        BY <4>1, <4>2 DEF Versions, At
      <4>. QED  BY <4>1, <4>4, <4>5
    <3>2. CASE HardDelete(q)
      BY <3>2 DEF HardDelete
    <3>3. CASE ~Save(q) /\ ~HardDelete(q)
      BY <2>1, <3>3, ArrivesEffect, BeginEffect, FindTargetEffect, PickNumberEffect
         DEF Handles, Add, FindCalls, RecordCall
    <3>. QED  BY <3>1, <3>2, <3>3
  <2>2. ASSUME NEW deleted \in BOOLEAN, SetDeleted(deleted) PROVE Kept
    <3>1. row \in Row /\ row.deleted # deleted
      BY <2>2 DEF SetDeleted, TypeOK
    <3>2. deleted = ~row.deleted
      BY <3>1 DEF Row
    <3>. QED  BY <2>2, <3>2 DEF SetDeleted
  <2>3. ASSUME NEW q \in Request, NEW kind \in {"edit", "rollback"}, Opens(q, kind) PROVE Kept
    BY <2>3, OpensEffect
  <2>4. CASE UNCHANGED vars
    BY <2>4 DEF vars
  <2>. QED  BY <2>1, <2>2, <2>3, <2>4, Steps
<1>. QED  BY <1>1, Invariance, PTL DEF Spec, NoLostUpdate

-----------------------------------------------------------------------------
(* Instances that were created with their first revision *)

\* Nothing a step does takes the revisions away or the row from under them: only
\* hard_delete removes a row, and the foreign key of the revisions refuses it.
KeepInv == IInv /\ revisions # {} /\ ~revived

LEMMA NextKeepInv == KeepInv /\ [Next]_vars => KeepInv'
<1>. SUFFICES ASSUME KeepInv, [Next]_vars PROVE (revisions # {} /\ ~revived)'
  BY NextTypeOK, NextFacts, NextGapless, NextVersions, NextOrder DEF KeepInv, IInv
<1>1. row # None /\ TypeOK /\ revisions # {} /\ ~revived
  BY DEF KeepInv, IInv, Facts
<1>2. ASSUME NEW q \in Request, Handles(q) PROVE (revisions # {} /\ ~revived)'
  <2>1. CASE Save(q)
    BY <1>1, <2>1, SaveEffect DEF Saved
  <2>2. CASE Add(q)
    BY <1>1, <2>2 DEF Add
  <2>3. CASE ~Save(q) /\ ~Add(q)
    BY <1>1, <1>2, <2>3, ArrivesEffect, BeginEffect, FindTargetEffect, PickNumberEffect
       DEF Handles, FindCalls, HardDelete, RecordCall
  <2>. QED  BY <2>1, <2>2, <2>3
<1>3. CASE \/ \E q \in Request, kind \in {"edit", "rollback"} : Opens(q, kind)
           \/ \E deleted \in BOOLEAN : SetDeleted(deleted)
           \/ UNCHANGED vars
  BY <1>1, <1>3 DEF Opens, SetDeleted, vars
<1>. QED  BY <1>2, <1>3, Steps

\* An instance that was created with its first revision can never be purged: its
\* row stays whatever is published, deleted or purged (hard_delete and the
\* foreign key of instance_config_revisions), so that no save revives it either.
THEOREM NeverPurged == Spec /\ revisions # {} => [](row # None /\ ~revived)
<1>1. Init /\ revisions # {} => KeepInv
  BY InitIInv DEF KeepInv, Init
<1>2. KeepInv => row # None /\ ~revived
  BY DEF KeepInv, IInv, Facts
<1>. QED  BY <1>1, <1>2, NextKeepInv, PTL DEF Spec

\* For such an instance no update is lost, without exception: an accepted edit or
\* rollback replaces the content its author has seen, in the next version
\* (expected_version, and the UPDATE of save).
THEOREM EveryUpdateKept ==
  Spec /\ revisions # {} =>
    [][\/ row' = [row EXCEPT !.deleted = ~@]
       \/ \E q \in Request : /\ At(q, "save")
                             /\ req[q].seen.content = row.content
                             /\ row' = [version |-> row.version + 1,
                                        content |-> req[q].content,
                                        deleted |-> FALSE]]_row
<1>. DEFINE Kept == \/ row' = [row EXCEPT !.deleted = ~@]
                    \/ \E q \in Request : /\ At(q, "save")
                                          /\ req[q].seen.content = row.content
                                          /\ row' = [version |-> row.version + 1,
                                                     content |-> req[q].content,
                                                     deleted |-> FALSE]
            Free == row # None /\ ~revived
            May == (row # None /\ row' # None) =>
                     \/ row' = [row EXCEPT !.deleted = ~@]
                     \/ \E q \in Request : /\ At(q, "save")
                                           /\ revived \/ req[q].seen.content = row.content
                                           /\ row' = [version |-> row.version + 1,
                                                      content |-> req[q].content,
                                                      deleted |-> FALSE]
<1>1. Free /\ Free' /\ [May]_row => [Kept]_row
  OBVIOUS
<1>. HIDE DEF Free, Kept, May
<1>2. Spec => [][May]_row
  BY NoLostUpdateHolds DEF NoLostUpdate, May
<1>3. Spec /\ revisions # {} => []Free
  BY NeverPurged DEF Free
<1>4. Spec /\ revisions # {} => [][Kept]_row
  BY <1>1, <1>2, <1>3, PTL
<1>. QED  BY <1>4 DEF Kept

=============================================================================
