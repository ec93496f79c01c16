------------------------- MODULE CallDispatchProofs -------------------------
(***************************************************************************)
(* Proofs about CallDispatch, for any number of calls, finishes, loops and *)
(* faults.                                                                 *)
(*                                                                         *)
(* Everything rests on the unique call of a job: the job of a call never   *)
(* changes, so what was ingested is what is queued, and what was queued    *)
(* stays.  That a sent job stays sent needs the history of jobs two loops  *)
(* had in their hands, and that a finish comes to the queue with messages, *)
(* that only an overlapping finish can take them away.                     *)
(***************************************************************************)
EXTENDS CallDispatch, FiniteSetTheorems, TLAPS

Queued(f) == jobs[f] # NoJob

\* A job belongs to a finish that is through, and is the only one of its call.
Unique ==
  /\ \A f \in Finish : Queued(f) => Stands(f, "done")
  /\ \A f, g \in Finish :
       Queued(f) /\ Queued(g) /\ finishes[f].call = finishes[g].call => f = g

\* What loops hold and what Call Insights has are jobs; a job is sent, or
\* about to be, only when Call Insights has it.
Delivery ==
  /\ \A d \in Drainer : drainers[d].job # NoJob =>
       /\ Queued(drainers[d].job)
       /\ drainers[d].result = "ok" => drainers[d].job \in ingested
  /\ \A f \in ingested : Queued(f)
  /\ \A f \in Finish : Queued(f) /\ jobs[f].status = "sent" => f \in ingested

\* Two loops hold a job only if it is marked as shared, and a job that is not
\* is in nobody's hands once it is no longer pending.
Hands ==
  /\ \A d, e \in Drainer :
       d # e /\ drainers[d].job = drainers[e].job /\ drainers[d].job # NoJob
       => drainers[d].job \in shared
  /\ \A f \in Finish : Queued(f) /\ jobs[f].status # "pending" /\ f \notin shared
       => \A d \in Drainer : drainers[d].job # f

Saved(f) == finishes[f].stage \in {"enqueue", "done", "lost"}

\* What a finish knows of its own past is true.
After ==
  \A f \in Finish : finishes[f] # NoJob =>
    \A g \in finishes[f].after : Through(g)

\* A finish that began with messages finds them when it reads again, and when
\* it comes to the queue, unless it was wiped.
Talks ==
  \A f \in Finish :
    (finishes[f] # NoJob /\ finishes[f].was.talk) =>
      /\ Stands(f, "save") => record[finishes[f].call].talk \/ Wiped(f)
      /\ Stands(f, "flush") \/ Stands(f, "enqueue") => finishes[f].seen \/ Wiped(f)

IInv == /\ TypeOK /\ Unique /\ Delivery /\ Hands
        /\ After /\ Talks /\ EndedIsQueued

LEMMA InitIInv == Init => IInv
<1>. SUFFICES ASSUME Init PROVE IInv
  OBVIOUS
<1>. USE DispatchAssumption DEF Init
<1>1. TypeOK
  BY DEF TypeOK, Record, Loop, Idle
<1>2. Unique /\ EndedIsQueued /\ After /\ Talks
  BY DEF Unique, EndedIsQueued, After, Talks, Queued, Stands
<1>3. Delivery /\ Hands
  BY DEF Delivery, Hands, Queued, Idle
<1>. QED  BY <1>1, <1>2, <1>3 DEF IInv

\* Handlers only go on.
Keeps ==
  \A g \in Finish : finishes[g] # NoJob =>
    /\ finishes'[g] # NoJob /\ finishes'[g].call = finishes[g].call
    /\ finishes'[g].was = finishes[g].was /\ finishes'[g].after = finishes[g].after
    /\ Saved(g) => Saved(g)'
    /\ Through(g) => Through(g)'

\* What wiped the messages from under a finish stays.
LEMMA WipedStays ==
  ASSUME Keeps, NEW f \in Finish, finishes[f] # NoJob, Wiped(f)
  PROVE  Wiped(f)'
<1>1. PICK g \in Finish :
        /\ finishes[g] # NoJob /\ Saved(g)
        /\ finishes[g].call = finishes[f].call /\ ~finishes[g].was.talk
        /\ g \notin finishes[f].after /\ f \notin finishes[g].after
  BY DEF Wiped, Saved
<1>2. /\ finishes'[g] # NoJob /\ Saved(g)'
      /\ finishes'[g].call = finishes'[f].call /\ ~finishes'[g].was.talk
      /\ g \notin finishes'[f].after /\ f \notin finishes'[g].after
  BY <1>1 DEF Keeps
<1>. QED  BY <1>2 DEF Wiped, Saved

\* Steps that leave jobs alone, and the finishes that are through.
LEMMA Frame ==
  ASSUME IInv, Keeps, UNCHANGED <<jobs, drainers, ingested, shared>>,
         \A f \in Finish : \/ finishes'[f] = finishes[f]
                           \/ ~Stands(f, "done") /\ ~Stands(f, "done")'
  PROVE  Unique' /\ Delivery' /\ Hands' /\ EndedIsQueued'
<1>. USE DEF IInv, Queued
<1>1. \A f \in Finish : Queued(f) => finishes'[f] = finishes[f]
  BY DEF Unique
<1>2. Unique'
  BY <1>1 DEF Unique, Stands
<1>3. Delivery' /\ Hands'
  BY DEF Delivery, Hands
<1>4. EndedIsQueued'
  <2>1. ASSUME NEW f \in Finish, Stands(f, "done")', finishes'[f].was.talk
        PROVE  finishes'[f] = finishes[f]
               /\ (JobsOf(finishes[f].call)' # {} \/ Wiped(f)')
    <3>1. finishes'[f] = finishes[f] /\ finishes[f] # NoJob
          /\ (JobsOf(finishes[f].call) # {} \/ Wiped(f))
      BY <2>1 DEF EndedIsQueued, Stands
    <3>2. CASE JobsOf(finishes[f].call) # {}
      BY <1>1, <3>1, <3>2 DEF JobsOf
    <3>3. CASE Wiped(f)
      BY <3>1, <3>3, WipedStays
    <3>. QED  BY <3>1, <3>2, <3>3
  <2>. QED  BY <2>1 DEF EndedIsQueued
<1>. QED  BY <1>2, <1>3, <1>4

\* What a finish remembers stays true when no new one begins and no message
\* goes: the steps of the transcript and of the loop.
LEMMA Remembers ==
  ASSUME IInv, UNCHANGED finishes, \A c \in Call : record[c].talk => record'[c].talk
  PROVE  After' /\ Talks'
<1>1. \A f \in Finish : /\ Through(f)' <=> Through(f)
                        /\ Wiped(f)' <=> Wiped(f)
                        /\ \A stage : Stands(f, stage)' <=> Stands(f, stage)
  BY DEF Through, Wiped, Stands
<1>2. After'
  BY <1>1 DEF IInv, After, TypeOK, Handler
<1>3. \A f \in Finish : finishes[f] # NoJob => finishes[f].call \in Call
  BY DEF IInv, TypeOK, Handler
<1>4. Talks'
  BY <1>1, <1>3 DEF IInv, Talks
<1>. QED  BY <1>2, <1>4

LEMMA Appends ==
  ASSUME IInv, NEW c \in Call, AppendReads(c) \/ AppendReadsAgain(c) \/ AppendSaves(c)
  PROVE  IInv'
<1>1. TypeOK' /\ \A d \in Call : record[d].talk => record'[d].talk
  <2>1. CASE AppendReads(c)
    BY <2>1 DEF IInv, TypeOK, AppendReads
  <2>2. CASE AppendReadsAgain(c)
    BY <2>2 DEF IInv, TypeOK, AppendReadsAgain
  <2>3. CASE AppendSaves(c)
    <3>. DEFINE new == [open |-> record[c].open \/ appends[c] = "reopens", talk |-> TRUE]
    <3>1. record[c] \in Record /\ new \in Record
      BY DEF IInv, TypeOK, Record
    <3>2. record' = [record EXCEPT ![c] = new]
      <4>1. [record[c] EXCEPT !.open = @ \/ appends[c] = "reopens", !.talk = TRUE] = new
        BY <3>1 DEF Record
      <4>2. record' = [record EXCEPT ![c] =
              [record[c] EXCEPT !.open = @ \/ appends[c] = "reopens", !.talk = TRUE]]
        BY <2>3 DEF AppendSaves, IInv, TypeOK
      <4>. HIDE DEF new
      <4>. QED  BY <4>1, <4>2
    <3>3. new.talk
      OBVIOUS
    <3>. HIDE DEF new
    <3>. QED  BY <2>3, <3>1, <3>2, <3>3 DEF IInv, TypeOK, AppendSaves
  <2>. QED  BY <2>1, <2>2, <2>3
<1>2. UNCHANGED <<finishes, jobs, drainers, ingested, shared>>
  BY DEF AppendReads, AppendReadsAgain, AppendSaves
<1>3. Keeps
  BY <1>2 DEF Keeps, Saved, Through
<1>. QED  BY <1>1, <1>2, <1>3, Frame, Remembers DEF IInv

LEMMA FinishReadsIInv ==
  ASSUME IInv, NEW f \in Finish, NEW c \in Call, FinishReads(f, c)
  PROVE  IInv'
<1>. DEFINE h == [call |-> c, was |-> record[c], ends |-> FALSE, seen |-> FALSE,
                  after |-> {g \in Finish : Through(g)},
                  stage |-> IF record[c].open THEN "save" ELSE "refused"]
<1>1. /\ finishes[f] = NoJob /\ finishes' = [finishes EXCEPT ![f] = h]
      /\ UNCHANGED <<record, appends, jobs, drainers, ingested, shared, faults>>
  BY DEF FinishReads
<1>2. /\ h \in Handler /\ h.stage \in {"save", "refused"}
      /\ h.call = c /\ h.was = record[c] /\ h.after = {g \in Finish : Through(g)}
  BY DEF IInv, TypeOK, Handler
<1>. HIDE DEF h
<1>3. TypeOK'
  BY <1>1, <1>2 DEF IInv, TypeOK
<1>4. finishes'[f] = h /\ \A g \in Finish \ {f} : finishes'[g] = finishes[g]
  BY <1>1 DEF IInv, TypeOK
<1>5. \A g \in Finish : \/ finishes'[g] = finishes[g]
                        \/ ~Stands(g, "done") /\ ~Stands(g, "done")'
  BY <1>1, <1>2, <1>4 DEF Stands
<1>6. Keeps
  BY <1>1, <1>4 DEF Keeps, Saved, Through
<1>7. After'
  <2>1. ASSUME NEW g \in Finish, finishes'[g] # NoJob, NEW x \in finishes'[g].after
        PROVE  Through(x)'
    <3>1. x \in Finish /\ Through(x)
      <4>1. CASE g = f
        BY <1>2, <1>4, <2>1, <4>1
      <4>2. CASE g # f
        BY <1>4, <2>1, <4>2 DEF IInv, After, TypeOK, Handler
      <4>. QED  BY <4>1, <4>2
    <3>. QED  BY <1>6, <3>1 DEF Keeps, Through
  <2>. QED  BY <2>1 DEF After
<1>8. Talks'
  <2>1. ASSUME NEW g \in Finish, g # f, finishes'[g] # NoJob, finishes'[g].was.talk
        PROVE  /\ Stands(g, "save")' => record'[finishes'[g].call].talk \/ Wiped(g)'
               /\ Stands(g, "flush")' \/ Stands(g, "enqueue")'
                  => finishes'[g].seen \/ Wiped(g)'
    <3>1. finishes'[g] = finishes[g] /\ finishes[g] # NoJob
      BY <1>4, <2>1
    <3>2. Wiped(g) => Wiped(g)'
      BY <1>6, <3>1, WipedStays
    <3>. QED  BY <1>1, <2>1, <3>1, <3>2 DEF IInv, Talks, Stands
  <2>2. ASSUME finishes'[f].was.talk
        PROVE  /\ record'[finishes'[f].call].talk
               /\ ~Stands(f, "flush")' /\ ~Stands(f, "enqueue")'
    BY <1>1, <1>2, <1>4, <2>2 DEF Stands
  <2>. QED  BY <2>1, <2>2 DEF Talks
<1>. QED  BY <1>1, <1>3, <1>5, <1>6, <1>7, <1>8, Frame DEF IInv

\* A handler that is not through goes on.
LEMMA Effect ==
  ASSUME TypeOK, NEW f \in Finish, finishes[f] # NoJob, ~Through(f),
         NEW stage \in {"save", "flush", "enqueue", "done", "refused", "lost"},
         NEW ends \in BOOLEAN, NEW seen \in BOOLEAN,
         Saved(f) => stage \in {"enqueue", "done", "lost"},
         finishes' = [finishes EXCEPT ![f].stage = stage, ![f].ends = ends,
                                      ![f].seen = seen]
  PROVE  /\ finishes' \in [Finish -> Handler \cup {NoJob}]
         /\ finishes'[f] # NoJob /\ finishes'[f].stage = stage
         /\ finishes'[f].call = finishes[f].call /\ finishes'[f].was = finishes[f].was
         /\ finishes'[f].after = finishes[f].after
         /\ finishes'[f].ends = ends /\ finishes'[f].seen = seen
         /\ \A g \in Finish \ {f} : finishes'[g] = finishes[g]
         /\ Keeps
<1>. DEFINE h == [finishes[f] EXCEPT !.stage = stage, !.ends = ends, !.seen = seen]
<1>1. /\ finishes[f] \in Handler /\ h \in Handler
      /\ h.stage = stage /\ h.call = finishes[f].call
      /\ h.was = finishes[f].was /\ h.after = finishes[f].after
      /\ h.ends = ends /\ h.seen = seen
  <2>1. finishes[f] \in Handler
    BY DEF TypeOK
  <2>. QED  BY <2>1 DEF Handler
<1>2. finishes' = [finishes EXCEPT ![f] = h]
  BY <1>1 DEF TypeOK
<1>. HIDE DEF h
<1>3. finishes'[f] = h /\ h # NoJob /\ \A g \in Finish \ {f} : finishes'[g] = finishes[g]
  BY <1>1, <1>2, DispatchAssumption DEF TypeOK
<1>4. finishes' \in [Finish -> Handler \cup {NoJob}]
  BY <1>1, <1>2 DEF TypeOK
<1>5. Keeps
  BY <1>1, <1>3 DEF Keeps, Saved, Through
<1>. QED  BY <1>1, <1>3, <1>4, <1>5

\* ... to another stage.
LEMMA GoesOn ==
  ASSUME TypeOK, NEW f \in Finish, finishes[f] # NoJob, ~Through(f),
         NEW stage \in {"save", "flush", "enqueue", "done", "refused", "lost"},
         Saved(f) => stage \in {"enqueue", "done", "lost"}, GoOn(f, stage)
  PROVE  /\ finishes' \in [Finish -> Handler \cup {NoJob}]
         /\ finishes'[f] # NoJob /\ finishes'[f].stage = stage
         /\ finishes'[f].call = finishes[f].call /\ finishes'[f].was = finishes[f].was
         /\ finishes'[f].after = finishes[f].after
         /\ finishes'[f].seen = finishes[f].seen
         /\ \A g \in Finish \ {f} : finishes'[g] = finishes[g]
         /\ Keeps
<1>1. finishes[f] \in Handler
  BY DEF TypeOK
<1>2. finishes[f].ends \in BOOLEAN /\ finishes[f].seen \in BOOLEAN
  BY <1>1 DEF Handler
<1>3. finishes' = [finishes EXCEPT ![f].stage = stage, ![f].ends = finishes[f].ends,
                                   ![f].seen = finishes[f].seen]
  BY <1>1 DEF GoOn, TypeOK, Handler
<1>. QED  BY <1>2, <1>3, Effect

\* What the other finishes remember, when one goes on and their messages stay
\* or are wiped.
LEMMA OthersRemember ==
  ASSUME IInv, Keeps, NEW f \in Finish,
         \A g \in Finish \ {f} : finishes'[g] = finishes[g],
         \A g \in Finish \ {f} : Stands(g, "save") =>
           \/ record[finishes[g].call].talk => record'[finishes[g].call].talk
           \/ finishes[g].was.talk => Wiped(g)',
         finishes[f] # NoJob,
         finishes'[f].was.talk =>
           /\ ~Stands(f, "save")'
           /\ Stands(f, "flush")' \/ Stands(f, "enqueue")'
              => finishes'[f].seen \/ Wiped(f)'
  PROVE  After' /\ Talks'
<1>1. After'
  <2>1. ASSUME NEW g \in Finish, finishes'[g] # NoJob, NEW x \in finishes'[g].after
        PROVE  Through(x)'
    <3>1. finishes[g] # NoJob /\ finishes'[g].after = finishes[g].after
      BY <2>1 DEF Keeps
    <3>2. x \in Finish /\ Through(x)
      BY <2>1, <3>1 DEF IInv, After, TypeOK, Handler
    <3>. QED  BY <3>2 DEF Keeps, Through
  <2>. QED  BY <2>1 DEF After
<1>2. ASSUME NEW g \in Finish, g # f, finishes'[g] # NoJob, finishes'[g].was.talk
      PROVE  /\ Stands(g, "save")' => record'[finishes'[g].call].talk \/ Wiped(g)'
             /\ Stands(g, "flush")' \/ Stands(g, "enqueue")'
                => finishes'[g].seen \/ Wiped(g)'
  <2>1. finishes'[g] = finishes[g] /\ finishes[g] # NoJob
    BY <1>2
  <2>2. Wiped(g) => Wiped(g)'
    BY <2>1, WipedStays
  <2>. QED  BY <1>2, <2>1, <2>2 DEF IInv, Talks, Stands
<1>. QED  BY <1>1, <1>2 DEF Talks

LEMMA FinishReadsAgainIInv ==
  ASSUME IInv, NEW f \in Finish, FinishReadsAgain(f)
  PROVE  IInv'
<1>. USE DEF IInv
<1>. DEFINE now == record[finishes[f].call]
<1>1. /\ Stands(f, "save") /\ finishes[f] # NoJob /\ ~Through(f) /\ ~Saved(f)
      /\ UNCHANGED <<record, appends, jobs, drainers, ingested, shared, faults>>
  BY DEF FinishReadsAgain, Stands, Through, Saved
<1>2. PICK ends \in BOOLEAN :
        finishes' = [finishes EXCEPT ![f].stage = "flush", ![f].ends = ends,
                                     ![f].seen = now.talk]
  BY DEF FinishReadsAgain
<1>3. now.talk \in BOOLEAN
  <2>1. finishes[f] \in Handler
    BY <1>1 DEF TypeOK
  <2>. QED  BY <2>1 DEF TypeOK, Handler, Record
<1>4. /\ finishes' \in [Finish -> Handler \cup {NoJob}]
      /\ finishes'[f] # NoJob /\ finishes'[f].stage = "flush"
      /\ finishes'[f].was = finishes[f].was /\ finishes'[f].seen = now.talk
      /\ \A g \in Finish \ {f} : finishes'[g] = finishes[g]
      /\ Keeps
  <2>1. PICK seen \in BOOLEAN : seen = now.talk
    BY <1>3
  <2>2. PICK stage \in {"save", "flush", "enqueue", "done", "refused", "lost"} :
          stage = "flush"
    OBVIOUS
  <2>3. finishes' = [finishes EXCEPT ![f].stage = stage, ![f].ends = ends,
                                     ![f].seen = seen]
    BY <1>2, <2>1, <2>2
  <2>. HIDE DEF now
  <2>4. /\ finishes' \in [Finish -> Handler \cup {NoJob}]
        /\ finishes'[f] # NoJob /\ finishes'[f].stage = stage
        /\ finishes'[f].was = finishes[f].was /\ finishes'[f].seen = seen
        /\ \A g \in Finish \ {f} : finishes'[g] = finishes[g]
        /\ Keeps
    BY <1>1, <2>3, Effect
  <2>. QED  BY <2>1, <2>2, <2>4
<1>5. TypeOK'
  BY <1>1, <1>4 DEF TypeOK
<1>6. \A g \in Finish : \/ finishes'[g] = finishes[g]
                        \/ ~Stands(g, "done") /\ ~Stands(g, "done")'
  BY <1>1, <1>4 DEF Stands
<1>7. finishes'[f].was.talk => ~Stands(f, "save")' /\ (finishes'[f].seen \/ Wiped(f)')
  <2>1. Wiped(f) => Wiped(f)'
    BY <1>1, <1>4, WipedStays
  <2>. QED  BY <1>1, <1>4, <2>1 DEF Talks, Stands
<1>8. After' /\ Talks'
  BY <1>1, <1>4, <1>7, OthersRemember
<1>. QED  BY <1>1, <1>4, <1>5, <1>6, <1>8, Frame

LEMMA FinishSavesIInv ==
  ASSUME IInv, NEW f \in Finish, FinishSaves(f)
  PROVE  IInv'
<1>. USE DEF IInv
<1>. DEFINE c == finishes[f].call
<1>0. PICK stay \in BOOLEAN :
        record' = [record EXCEPT ![c].open = @ /\ ~finishes[f].ends,
                                 ![c].talk = finishes[f].was.talk \/ (stay /\ @)]
  BY DEF FinishSaves
<1>. DEFINE new == [open |-> record[c].open /\ ~finishes[f].ends,
                    talk |-> finishes[f].was.talk \/ (stay /\ record[c].talk)]
<1>1. /\ Stands(f, "flush") /\ GoOn(f, "enqueue") /\ finishes[f] # NoJob
      /\ ~Through(f) /\ ~Saved(f)
      /\ UNCHANGED <<appends, jobs, drainers, ingested, shared, faults>>
  BY DEF FinishSaves, Stands, Through, Saved
<1>2. c \in Call /\ new \in Record
  <2>1. finishes[f] \in Handler
    BY <1>1 DEF TypeOK
  <2>2. c \in Call /\ record[c] \in Record
    BY <2>1 DEF TypeOK, Handler
  <2>3. finishes[f].was.talk \in BOOLEAN
    BY <2>1 DEF Handler, Record
  <2>. QED  BY <2>2, <2>3 DEF Record
<1>3. record' = [record EXCEPT ![c] = new]
  <2>1. [record[c] EXCEPT !.open = @ /\ ~finishes[f].ends,
                          !.talk = finishes[f].was.talk \/ (stay /\ @)] = new
    BY <1>2 DEF TypeOK, Record
  <2>2. record' = [record EXCEPT ![c] =
          [record[c] EXCEPT !.open = @ /\ ~finishes[f].ends,
                            !.talk = finishes[f].was.talk \/ (stay /\ @)]]
    BY <1>0 DEF TypeOK
  <2>. HIDE DEF new
  <2>. QED  BY <2>1, <2>2
<1>4. /\ record' \in [Call -> Record] /\ (finishes[f].was.talk => record'[c].talk)
      /\ \A d \in Call \ {c} : record'[d] = record[d]
  BY <1>2, <1>3 DEF TypeOK
<1>5. /\ finishes' \in [Finish -> Handler \cup {NoJob}]
      /\ finishes'[f] # NoJob /\ finishes'[f].stage = "enqueue"
      /\ finishes'[f].call = c /\ finishes'[f].was = finishes[f].was
      /\ finishes'[f].after = finishes[f].after /\ finishes'[f].seen = finishes[f].seen
      /\ \A g \in Finish \ {f} : finishes'[g] = finishes[g]
      /\ Keeps
  BY <1>1, GoesOn
<1>6. TypeOK'
  BY <1>1, <1>4, <1>5 DEF TypeOK
<1>7. \A g \in Finish : \/ finishes'[g] = finishes[g]
                        \/ ~Stands(g, "done") /\ ~Stands(g, "done")'
  BY <1>1, <1>5 DEF Stands
<1>8. finishes'[f].was.talk => ~Stands(f, "save")' /\ (finishes'[f].seen \/ Wiped(f)')
  <2>1. Wiped(f) => Wiped(f)'
    BY <1>1, <1>5, WipedStays
  <2>. QED  BY <1>1, <1>5, <2>1 DEF Talks, Stands
<1>9. ASSUME NEW g \in Finish \ {f}, Stands(g, "save"), finishes[g].call = c,
             ~finishes[f].was.talk
      PROVE  Wiped(g)'
  <2>1. finishes[g] # NoJob /\ ~Through(g) /\ finishes'[g] = finishes[g]
    BY <1>5, <1>9 DEF Stands, Through
  <2>2. f \notin finishes[g].after /\ g \notin finishes[f].after
    BY <1>1, <2>1 DEF After
  <2>. QED  BY <1>5, <1>9, <2>1, <2>2 DEF Wiped
<1>10. \A g \in Finish \ {f} : Stands(g, "save") =>
         \/ record[finishes[g].call].talk => record'[finishes[g].call].talk
         \/ finishes[g].was.talk => Wiped(g)'
  <2>1. \A g \in Finish : Stands(g, "save") => finishes[g].call \in Call
    BY DEF TypeOK, Stands, Handler
  <2>. QED  BY <1>4, <1>9, <2>1
<1>11. After' /\ Talks'
  BY <1>1, <1>5, <1>8, <1>10, OthersRemember
<1>. QED  BY <1>1, <1>5, <1>6, <1>7, <1>11, Frame

LEMMA FinishFailsIInv ==
  ASSUME IInv, NEW f \in Finish, FinishFails(f)
  PROVE  IInv'
<1>. USE DEF IInv
<1>1. /\ finishes[f] # NoJob /\ finishes[f].stage \in {"save", "flush", "enqueue"}
      /\ faults < MaxFaults /\ faults' = faults + 1
      /\ UNCHANGED <<record, appends, jobs, drainers, ingested, shared>>
  BY DEF FinishFails
<1>2. PICK stage \in {"lost", "refused"} :
        GoOn(f, stage) /\ (finishes[f].stage = "enqueue" => stage = "lost")
  BY DEF FinishFails
<1>3. faults' \in 0..MaxFaults
  BY <1>1, DispatchAssumption DEF TypeOK
<1>4. /\ finishes' \in [Finish -> Handler \cup {NoJob}]
      /\ finishes'[f] # NoJob /\ finishes'[f].stage = stage
      /\ \A g \in Finish \ {f} : finishes'[g] = finishes[g]
      /\ Keeps
  <2>1. ~Through(f) /\ (Saved(f) => stage \in {"enqueue", "done", "lost"})
    BY <1>1, <1>2 DEF Through, Saved
  <2>. QED  BY <1>1, <1>2, <2>1, GoesOn
<1>5. TypeOK'
  BY <1>1, <1>3, <1>4 DEF TypeOK
<1>6. \A g \in Finish : \/ finishes'[g] = finishes[g]
                        \/ ~Stands(g, "done") /\ ~Stands(g, "done")'
  BY <1>1, <1>2, <1>4 DEF Stands
<1>7. After' /\ Talks'
  <2>1. ~Stands(f, "save")' /\ ~Stands(f, "flush")' /\ ~Stands(f, "enqueue")'
    BY <1>2, <1>4 DEF Stands
  <2>. QED  BY <1>1, <1>4, <2>1, OthersRemember
<1>. QED  BY <1>1, <1>4, <1>5, <1>6, <1>7, Frame

LEMMA EnqueueIInv ==
  ASSUME IInv, NEW f \in Finish, Enqueue(f)
  PROVE  IInv'
<1>. USE DEF IInv, Queued
<1>. DEFINE c == finishes[f].call
            talk == finishes[f].seen
            new == [status |-> "pending", due |-> TRUE,
                    no |-> Cardinality({g \in Finish : jobs[g] # NoJob}) + 1]
<1>1. /\ Stands(f, "enqueue") /\ GoOn(f, "done") /\ finishes[f] # NoJob
      /\ UNCHANGED <<record, appends, drainers, ingested, shared, faults>>
  BY DEF Enqueue, Stands
<1>2. /\ finishes' \in [Finish -> Handler \cup {NoJob}]
      /\ Stands(f, "done")' /\ finishes'[f].call = c
      /\ finishes'[f].was = finishes[f].was
      /\ \A g \in Finish \ {f} : finishes'[g] = finishes[g]
      /\ Keeps
  <2>1. ~Through(f)
    BY <1>1 DEF Stands, Through
  <2>. QED  BY <1>1, <2>1, GoesOn DEF Stands
<1>3. ~Queued(f)
  BY <1>1 DEF Unique, Stands
<1>4. \A d \in Call : \A g \in JobsOf(d) : g # f /\ g \in Finish
  BY <1>3 DEF JobsOf
<1>5. After' /\ Talks'
  <2>1. ~Stands(f, "save")' /\ ~Stands(f, "flush")' /\ ~Stands(f, "enqueue")'
    BY <1>2 DEF Stands
  <2>. QED  BY <1>1, <1>2, <2>1, OthersRemember
<1>6. ASSUME NEW g \in Finish, finishes[g] # NoJob, Wiped(g)
      PROVE  Wiped(g)'
  BY <1>2, <1>6, WipedStays
<1>7. CASE ~talk \/ JobsOf(c) # {}
  <2>1. jobs' = jobs
    BY <1>7 DEF Enqueue
  <2>2. TypeOK'
    BY <1>1, <1>2, <2>1 DEF TypeOK
  <2>3. Unique'
    BY <1>2, <1>3, <2>1 DEF Unique, Stands
  <2>4. Delivery' /\ Hands'
    BY <1>1, <2>1 DEF Delivery, Hands
  <2>5. ASSUME NEW d \in Call, JobsOf(d) # {}
        PROVE  JobsOf(d)' # {}
    <3>1. PICK x \in JobsOf(d) : TRUE
      BY <2>5
    <3>2. x \in Finish /\ Queued(x) /\ x # f /\ finishes[x] # NoJob /\ finishes[x].call = d
      BY <1>3, <3>1 DEF JobsOf
    <3>3. x \in JobsOf(d)'
      BY <1>2, <2>1, <3>2 DEF JobsOf
    <3>. QED  BY <3>3
  <2>7. ASSUME NEW g \in Finish, Stands(g, "done")', finishes'[g].was.talk
        PROVE  JobsOf(finishes[g].call)' # {} \/ Wiped(g)'
    <3>1. PICK d \in Call : d = finishes'[g].call
      BY <1>2, <2>7 DEF Stands, Handler
    <3>2. JobsOf(finishes[g].call)' = JobsOf(d)'
      BY <3>1 DEF JobsOf
    <3>3. CASE g = f
      <4>1. JobsOf(d) # {} \/ Wiped(f)
        BY <1>1, <1>2, <1>7, <2>7, <3>1, <3>3 DEF Talks, Stands
      <4>. QED  BY <1>1, <1>6, <2>5, <3>2, <3>3, <4>1
    <3>4. CASE g # f
      <4>1. /\ finishes'[g] = finishes[g] /\ finishes[g] # NoJob
            /\ JobsOf(d) # {} \/ Wiped(g)
        BY <1>2, <2>7, <3>1, <3>4 DEF EndedIsQueued, Stands
      <4>. QED  BY <1>6, <2>5, <3>2, <4>1
    <3>. QED  BY <3>3, <3>4
  <2>8. EndedIsQueued'
    BY <1>2, <2>7 DEF EndedIsQueued
  <2>. QED  BY <1>5, <2>2, <2>3, <2>4, <2>8
<1>8. CASE talk /\ JobsOf(c) = {}
  <2>1. jobs' = [jobs EXCEPT ![f] = new]
    BY <1>8 DEF Enqueue
  <2>2. new \in Job
    <3>1. IsFiniteSet({g \in Finish : jobs[g] # NoJob})
      BY FS_Subset, DispatchAssumption
    <3>2. Cardinality({g \in Finish : jobs[g] # NoJob}) \in Nat
      BY <3>1, FS_CardinalityType
    <3>. QED  BY <3>2 DEF Job
  <2>3. jobs'[f] # NoJob /\ jobs'[f].status = "pending"
    BY <2>1, <2>2, DispatchAssumption DEF TypeOK
  <2>4. \A g \in Finish \ {f} : jobs'[g] = jobs[g]
    BY <2>1 DEF TypeOK
  <2>5. TypeOK'
    BY <1>1, <1>2, <2>1, <2>2 DEF TypeOK
  <2>6. \A g \in Finish : Queued(g) => finishes[g].call # c
    BY <1>8 DEF JobsOf, Unique, Stands
  <2>7. Unique'
    BY <1>2, <2>3, <2>4, <2>6 DEF Unique, Stands
  <2>8. Delivery'
    <3>1. \A g \in Finish : Queued(g) => g # f
      BY <1>3
    <3>2. \A d \in Drainer : drainers[d].job # NoJob => drainers[d].job \in Finish
      BY DEF TypeOK, Loop
    <3>3. ingested \subseteq Finish
      BY DEF TypeOK
    <3>. QED  BY <1>1, <2>3, <2>4, <3>1, <3>2, <3>3 DEF Delivery
  <2>9. Hands'
    BY <1>1, <2>3, <2>4 DEF Hands
  <2>10. ASSUME NEW g \in Finish, Stands(g, "done")', finishes'[g].was.talk
         PROVE  JobsOf(finishes[g].call)' # {} \/ Wiped(g)'
    <3>1. CASE g = f
      BY <1>2, <2>3, <3>1 DEF JobsOf, Stands
    <3>2. CASE g # f /\ Wiped(g)
      BY <1>2, <1>6, <2>10, <3>2 DEF Stands
    <3>3. CASE g # f /\ ~Wiped(g)
      <4>1. PICK x \in JobsOf(finishes[g].call) : TRUE
        BY <1>2, <2>10, <3>3 DEF EndedIsQueued, Stands
      <4>2. x \in Finish /\ Queued(x) /\ x # f /\ finishes[x] # NoJob
            /\ finishes[x].call = finishes[g].call
        BY <1>3, <4>1 DEF JobsOf
      <4>3. x \in JobsOf(finishes[g].call)'
        BY <1>2, <2>4, <3>3, <4>2 DEF JobsOf
      <4>. QED  BY <4>3
    <3>. QED  BY <3>1, <3>2, <3>3
  <2>11. EndedIsQueued'
    BY <1>2, <2>10 DEF EndedIsQueued
  <2>. QED  BY <1>5, <2>5, <2>7, <2>8, <2>9, <2>11
<1>. QED  BY <1>7, <1>8

-----------------------------------------------------------------------------
\* The loop leaves the finishes and records alone, and takes no job away.
LEMMA LoopKeepsQueued ==
  ASSUME IInv, UNCHANGED <<record, finishes>>,
         \A f \in Finish : Queued(f)' <=> Queued(f)
  PROVE  Unique' /\ After' /\ Talks' /\ EndedIsQueued'
<1>1. \A c \in Call : JobsOf(c)' = JobsOf(c)
  BY DEF JobsOf, Queued
<1>2. Unique'
  BY DEF IInv, Unique, Stands
<1>3. ASSUME NEW f \in Finish, Stands(f, "done")', finishes'[f].was.talk
      PROVE  JobsOf(finishes[f].call)' # {} \/ Wiped(f)'
  <2>1. finishes[f].call \in Call /\ finishes' = finishes
    BY <1>3 DEF IInv, TypeOK, Stands, Handler
  <2>2. JobsOf(finishes[f].call) # {} \/ Wiped(f)
    BY <1>3 DEF IInv, EndedIsQueued, Stands
  <2>4. Wiped(f)' <=> Wiped(f)
    BY <2>1 DEF Wiped
  <2>3. JobsOf(finishes[f].call)' = {g \in Finish : /\ jobs'[g] # NoJob /\ finishes[g] # NoJob
                                                   /\ finishes[g].call = finishes[f].call}
    BY <2>1 DEF JobsOf
  <2>. QED  BY <2>2, <2>3, <2>4 DEF JobsOf, Queued
<1>4. After' /\ Talks'
  BY Remembers
<1>. QED  BY <1>2, <1>3, <1>4 DEF EndedIsQueued

\* A loop whose hands change, as a record.
LEMMA LoopType ==
  ASSUME TypeOK, NEW d \in Drainer
  PROVE  /\ drainers[d] \in Loop /\ Idle \in Loop
         /\ \A f \in Finish : [drainers[d] EXCEPT !.job = f] \in Loop
         /\ \A r \in {"ok", "retry", "fail"} : [drainers[d] EXCEPT !.result = r] \in Loop
  BY DEF TypeOK, Loop, Idle

LEMMA ClaimIInv ==
  ASSUME IInv, NEW d \in Drainer, Claim(d)
  PROVE  IInv'
<1>. USE DEF IInv, Queued
<1>1. PICK f \in Finish :
        /\ Due(f) /\ drainers' = [drainers EXCEPT ![d].job = f]
        /\ shared' = shared \cup (IF \E e \in Drainer : drainers[e].job = f THEN {f} ELSE {})
  BY DEF Claim
<1>2. drainers[d] = Idle /\ UNCHANGED <<record, appends, finishes, jobs, ingested, faults>>
  BY DEF Claim
<1>3. /\ drainers' \in [Drainer -> Loop]
      /\ drainers'[d].job = f /\ drainers'[d].result = "none"
      /\ \A e \in Drainer \ {d} : drainers'[e] = drainers[e]
  <2>1. drainers[d] \in Loop /\ [drainers[d] EXCEPT !.job = f] \in Loop
    BY LoopType
  <2>2. drainers' = [drainers EXCEPT ![d] = [drainers[d] EXCEPT !.job = f]]
    BY <1>1
  <2>. QED  BY <1>2, <2>1, <2>2 DEF TypeOK, Idle
<1>4. Queued(f) /\ jobs[f].status = "pending" /\ f # NoJob
  BY <1>1, DispatchAssumption DEF Due
<1>5. TypeOK'
  BY <1>1, <1>2, <1>3 DEF TypeOK
<1>6. Unique' /\ After' /\ Talks' /\ EndedIsQueued'
  BY <1>2, LoopKeepsQueued
<1>7. Delivery'
  BY <1>2, <1>3, <1>4 DEF Delivery
<1>8. Hands'
  BY <1>1, <1>2, <1>3, <1>4 DEF Hands
<1>. QED  BY <1>5, <1>6, <1>7, <1>8

LEMMA PostIInv ==
  ASSUME IInv, NEW d \in Drainer, Post(d)
  PROVE  IInv'
<1>. USE DEF IInv, Queued
<1>1. PICK result \in {"ok", "retry", "fail"}, arrives \in BOOLEAN :
        /\ result = "ok" => arrives
        /\ result = "retry" => faults < MaxFaults
        /\ faults' = faults + (IF result = "retry" THEN 1 ELSE 0)
        /\ drainers' = [drainers EXCEPT ![d].result = result]
        /\ ingested' = ingested \cup (IF arrives THEN {drainers[d].job} ELSE {})
  BY DEF Post
<1>2. /\ drainers[d].job # NoJob
      /\ UNCHANGED <<record, appends, finishes, jobs, shared>>
  BY DEF Post
<1>3. /\ drainers' \in [Drainer -> Loop]
      /\ drainers'[d].result = result
      /\ \A e \in Drainer : drainers'[e].job = drainers[e].job
      /\ \A e \in Drainer \ {d} : drainers'[e] = drainers[e]
  <2>1. drainers[d] \in Loop /\ [drainers[d] EXCEPT !.result = result] \in Loop
    BY LoopType
  <2>2. drainers' = [drainers EXCEPT ![d] = [drainers[d] EXCEPT !.result = result]]
    BY <1>1
  <2>. QED  BY <2>1, <2>2 DEF TypeOK, Loop
<1>4. faults' \in 0..MaxFaults
  BY <1>1, DispatchAssumption DEF TypeOK
<1>5. drainers[d].job \in Finish /\ Queued(drainers[d].job)
  BY <1>2 DEF Delivery, TypeOK, Loop
<1>6. TypeOK'
  BY <1>1, <1>2, <1>3, <1>4, <1>5 DEF TypeOK
<1>7. Unique' /\ After' /\ Talks' /\ EndedIsQueued'
  BY <1>2, LoopKeepsQueued
<1>8. Delivery'
  BY <1>1, <1>2, <1>3, <1>5 DEF Delivery
<1>9. Hands'
  BY <1>2, <1>3 DEF Hands
<1>. QED  BY <1>6, <1>7, <1>8, <1>9

\* A loop puts its job down.
LEMMA PutsDown ==
  ASSUME TypeOK, NEW d \in Drainer, drainers' = [drainers EXCEPT ![d] = Idle]
  PROVE  /\ drainers' \in [Drainer -> Loop] /\ drainers'[d].job = NoJob
         /\ \A e \in Drainer \ {d} : drainers'[e] = drainers[e]
  BY LoopType DEF TypeOK, Idle

\* The outcome of a post, as the row has it.
LEMMA MarkEffect ==
  ASSUME IInv, NEW d \in Drainer, Mark(d)
  PROVE  LET f == drainers[d].job IN
         /\ f \in Finish /\ Queued(f)
         /\ jobs' \in [Finish -> Job \cup {NoJob}] /\ jobs'[f] # NoJob
         /\ jobs'[f].status = "sent" => f \in ingested
         /\ \A g \in Finish \ {f} : jobs'[g] = jobs[g]
<1>. DEFINE f == drainers[d].job
            status == CASE drainers[d].result = "ok"    -> "sent"
                        [] drainers[d].result = "retry" -> "pending"
                        [] drainers[d].result = "fail"  -> "failed"
            due == jobs[f].due /\ drainers[d].result # "retry"
            new == [status |-> status, due |-> due, no |-> jobs[f].no]
<1>1. f \in Finish /\ Queued(f) /\ jobs[f] \in Job
  BY DEF IInv, Mark, Delivery, TypeOK, Loop, Queued
<1>2. drainers[d].result \in {"ok", "retry", "fail"}
  BY DEF IInv, Mark, TypeOK, Loop
<1>3. status \in {"pending", "sent", "failed"} /\ (status = "sent" => f \in ingested)
  BY <1>2 DEF IInv, Mark, Delivery
<1>4. due \in BOOLEAN
  OBVIOUS
<1>5. new \in Job /\ new.status = status
  <2>. HIDE DEF status, due
  <2>. QED  BY <1>1, <1>3, <1>4 DEF Job
<1>6. jobs' = [jobs EXCEPT ![f] = new]
  <2>1. jobs' = [jobs EXCEPT ![f].status = status, ![f].due = @ /\ drainers[d].result # "retry"]
    BY DEF Mark
  <2>2. [[jobs[f] EXCEPT !.status = status] EXCEPT !.due = @ /\ drainers[d].result # "retry"]
          = new
    <3>1. ASSUME NEW s, NEW b \in BOOLEAN
          PROVE  [[jobs[f] EXCEPT !.status = s] EXCEPT !.due = @ /\ b]
                 = [status |-> s, due |-> jobs[f].due /\ b, no |-> jobs[f].no]
      <4>1. PICK j \in Job : j = jobs[f]
        BY <1>1
      <4>2. [j EXCEPT !.status = s] = [status |-> s, due |-> j.due, no |-> j.no]
        BY DEF Job
      <4>3. \A v : [[status |-> s, due |-> j.due, no |-> j.no] EXCEPT !.due = v]
                  = [status |-> s, due |-> v, no |-> j.no]
        OBVIOUS
      <4>4. [status |-> s, due |-> j.due, no |-> j.no].due = j.due
        OBVIOUS
      <4>. QED  BY <4>1, <4>2, <4>3, <4>4, Zenon
    <3>. HIDE DEF status
    <3>. QED  BY <3>1
  <2>3. jobs' = [jobs EXCEPT ![f] =
          [[jobs[f] EXCEPT !.status = status] EXCEPT !.due = @ /\ drainers[d].result # "retry"]]
    <3>. HIDE DEF status
    <3>. QED  BY <1>1, <2>1 DEF IInv, TypeOK
  <2>. HIDE DEF new
  <2>. QED  BY <2>2, <2>3
<1>. HIDE DEF new
<1>7. jobs'[f] = new /\ \A g \in Finish \ {f} : jobs'[g] = jobs[g]
  BY <1>1, <1>6 DEF IInv, TypeOK
<1>8. jobs' \in [Finish -> Job \cup {NoJob}]
  BY <1>5, <1>6 DEF IInv, TypeOK
<1>9. jobs'[f] # NoJob
  BY <1>5, <1>7, DispatchAssumption
<1>. QED  BY <1>1, <1>3, <1>5, <1>7, <1>8, <1>9

LEMMA MarkIInv ==
  ASSUME IInv, NEW d \in Drainer, Mark(d)
  PROVE  IInv'
<1>. USE DEF IInv
<1>. DEFINE f == drainers[d].job
<1>1. /\ drainers' = [drainers EXCEPT ![d] = Idle] /\ f # NoJob
      /\ UNCHANGED <<record, appends, finishes, ingested, shared, faults>>
  BY DEF Mark
<1>2. /\ f \in Finish /\ Queued(f)
      /\ jobs' \in [Finish -> Job \cup {NoJob}] /\ jobs'[f] # NoJob
      /\ jobs'[f].status = "sent" => f \in ingested
      /\ \A g \in Finish \ {f} : jobs'[g] = jobs[g]
  BY MarkEffect
<1>3. /\ drainers' \in [Drainer -> Loop] /\ drainers'[d].job = NoJob
      /\ \A e \in Drainer \ {d} : drainers'[e] = drainers[e]
  BY <1>1, PutsDown
<1>4. TypeOK'
  BY <1>1, <1>2, <1>3 DEF TypeOK
<1>5. \A g \in Finish : Queued(g)' <=> Queued(g)
  BY <1>2 DEF Queued
<1>6. Unique' /\ After' /\ Talks' /\ EndedIsQueued'
  BY <1>1, <1>5, LoopKeepsQueued
<1>7. Delivery'
  <2>1. \A e \in Drainer : drainers'[e].job # NoJob =>
          jobs'[drainers'[e].job] # NoJob /\ (drainers'[e].result = "ok" => drainers'[e].job \in ingested)
    <3>1. \A e \in Drainer : drainers'[e].job # NoJob => drainers'[e] = drainers[e]
      BY <1>3
    <3>2. \A e \in Drainer : drainers[e].job # NoJob => drainers[e].job \in Finish
      BY DEF TypeOK, Loop
    <3>3. \A e \in Drainer : drainers[e].job # NoJob =>
            /\ drainers[e].job \in Finish /\ jobs[drainers[e].job] # NoJob
            /\ drainers[e].result = "ok" => drainers[e].job \in ingested
      BY <3>2 DEF Delivery, Queued
    <3>4. \A g \in Finish : jobs[g] # NoJob => jobs'[g] # NoJob
      BY <1>5 DEF Queued
    <3>5. \A e \in Drainer : drainers'[e].job # NoJob => jobs'[drainers'[e].job] # NoJob
      BY <3>1, <3>3, <3>4
    <3>6. \A e \in Drainer : drainers'[e].job # NoJob /\ drainers'[e].result = "ok"
            => drainers'[e].job \in ingested
      BY <3>1, <3>3
    <3>. QED  BY <3>5, <3>6
  <2>2. \A g \in ingested : Queued(g)'
    BY <1>5 DEF Delivery, TypeOK
  <2>3. \A g \in Finish : Queued(g)' /\ jobs'[g].status = "sent" => g \in ingested
    BY <1>2, <1>5 DEF Delivery
  <2>. QED  BY <1>1, <2>1, <2>2, <2>3 DEF Delivery, Queued
<1>8. Hands'
  <2>1. \A g \in Finish \ {f} : Queued(g)' /\ jobs'[g].status # "pending" /\ g \notin shared
          => \A e \in Drainer : drainers'[e].job # g
    BY <1>2, <1>3, <1>5, DispatchAssumption DEF Hands, Queued
  <2>2. f \notin shared => \A e \in Drainer : drainers'[e].job # f
    BY <1>1, <1>3 DEF Hands
  <2>3. \A a, b \in Drainer :
          a # b /\ drainers'[a].job = drainers'[b].job /\ drainers'[a].job # NoJob
          => drainers'[a].job \in shared
    BY <1>3 DEF Hands
  <2>. QED  BY <1>1, <2>1, <2>2, <2>3 DEF Hands, Queued
<1>. QED  BY <1>4, <1>6, <1>7, <1>8

LEMMA LoopFailsIInv ==
  ASSUME IInv, NEW d \in Drainer, LoopFails(d)
  PROVE  IInv'
<1>. USE DEF IInv
<1>1. /\ drainers' = [drainers EXCEPT ![d] = Idle]
      /\ faults < MaxFaults /\ faults' = faults + 1
      /\ UNCHANGED <<record, appends, finishes, jobs, ingested, shared>>
  BY DEF LoopFails
<1>2. /\ drainers' \in [Drainer -> Loop] /\ drainers'[d].job = NoJob
      /\ \A e \in Drainer \ {d} : drainers'[e] = drainers[e]
  BY <1>1, PutsDown
<1>3. faults' \in 0..MaxFaults
  BY <1>1, DispatchAssumption DEF TypeOK
<1>4. TypeOK'
  BY <1>1, <1>2, <1>3 DEF TypeOK
<1>5. Unique' /\ After' /\ Talks' /\ EndedIsQueued'
  BY <1>1, LoopKeepsQueued DEF Queued
<1>6. Delivery'
  BY <1>1, <1>2 DEF Delivery, Queued
<1>7. Hands'
  BY <1>1, <1>2, DispatchAssumption DEF Hands, Queued
<1>. QED  BY <1>4, <1>5, <1>6, <1>7

LEMMA FallsDueEffect ==
  ASSUME IInv, NEW f \in Finish, FallsDue(f)
  PROVE  /\ jobs' \in [Finish -> Job \cup {NoJob}]
         /\ Queued(f)' /\ jobs'[f].status = jobs[f].status
         /\ \A g \in Finish \ {f} : jobs'[g] = jobs[g]
<1>. DEFINE new == [jobs[f] EXCEPT !.due = TRUE]
<1>1. jobs[f] \in Job
  BY DEF IInv, TypeOK, FallsDue
<1>2. new \in Job /\ new.status = jobs[f].status
  BY <1>1 DEF Job
<1>3. jobs' = [jobs EXCEPT ![f] = new]
  BY DEF FallsDue
<1>. HIDE DEF new
<1>. QED  BY <1>2, <1>3, DispatchAssumption DEF IInv, TypeOK, Queued

LEMMA FallsDueIInv ==
  ASSUME IInv, NEW f \in Finish, FallsDue(f)
  PROVE  IInv'
<1>. USE DEF IInv
<1>1. /\ Queued(f)
      /\ UNCHANGED <<record, appends, finishes, drainers, ingested, shared, faults>>
  BY DEF FallsDue, Queued
<1>2. /\ jobs' \in [Finish -> Job \cup {NoJob}]
      /\ \A g \in Finish : Queued(g)' <=> Queued(g)
      /\ \A g \in Finish : jobs'[g].status = jobs[g].status
  BY <1>1, FallsDueEffect DEF Queued
<1>3. TypeOK'
  BY <1>1, <1>2 DEF TypeOK
<1>4. Unique' /\ After' /\ Talks' /\ EndedIsQueued'
  BY <1>1, <1>2, LoopKeepsQueued
<1>5. \A d \in Drainer : drainers[d].job # NoJob => drainers[d].job \in Finish
  BY DEF TypeOK, Loop
<1>6. ingested \subseteq Finish
  BY DEF TypeOK
<1>7. Delivery' /\ Hands'
  BY <1>1, <1>2, <1>5, <1>6 DEF Delivery, Hands, Queued
<1>. QED  BY <1>3, <1>4, <1>7

-----------------------------------------------------------------------------
LEMMA NextIInv == IInv /\ [Next]_vars => IInv'
<1>. SUFFICES ASSUME IInv, [Next]_vars PROVE IInv'
  OBVIOUS
<1>1. ASSUME NEW c \in Call, AppendReads(c) \/ AppendReadsAgain(c) \/ AppendSaves(c)
      PROVE  IInv'
  BY <1>1, Appends
<1>2. ASSUME NEW f \in Finish, NEW c \in Call, FinishReads(f, c) PROVE IInv'
  BY <1>2, FinishReadsIInv
<1>3. ASSUME NEW f \in Finish, FinishReadsAgain(f) \/ FinishSaves(f) PROVE IInv'
  BY <1>3, FinishReadsAgainIInv, FinishSavesIInv
<1>4. ASSUME NEW f \in Finish, Enqueue(f) PROVE IInv'
  BY <1>4, EnqueueIInv
<1>5. ASSUME NEW f \in Finish, FinishFails(f) PROVE IInv'
  BY <1>5, FinishFailsIInv
<1>6. ASSUME NEW d \in Drainer, Claim(d) PROVE IInv'
  BY <1>6, ClaimIInv
<1>7. ASSUME NEW d \in Drainer, Post(d) PROVE IInv'
  BY <1>7, PostIInv
<1>8. ASSUME NEW d \in Drainer, Mark(d) PROVE IInv'
  BY <1>8, MarkIInv
<1>9. ASSUME NEW d \in Drainer, LoopFails(d) PROVE IInv'
  BY <1>9, LoopFailsIInv
<1>10. ASSUME NEW f \in Finish, FallsDue(f) PROVE IInv'
  BY <1>10, FallsDueIInv
<1>11. CASE UNCHANGED vars
  BY <1>11 DEF vars, IInv, TypeOK, Unique, Delivery, Hands, After, Talks,
               EndedIsQueued, Queued, Stands, Through, Wiped, JobsOf
<1>. QED
  BY <1>1, <1>2, <1>3, <1>4, <1>5, <1>6, <1>7, <1>8, <1>9, <1>10, <1>11
     DEF Next, CallNext, LoopNext

\* IInv holds of every behaviour.
THEOREM Invariance == Spec => []IInv
<1>. QED  BY InitIInv, NextIInv, PTL DEF Spec

\* The tables hold what their columns may hold.
THEOREM TypeCorrect == Spec => []TypeOK
<1>1. IInv => TypeOK
  BY DEF IInv
<1>. QED  BY <1>1, Invariance, PTL

\* Call Insights hears of the one end of a call that was queued, and has
\* heard of it when its job is sent: however finishes race, late lines reopen
\* calls, posts repeat and loops share jobs (insights_dispatch.py).
THEOREM DeliveredOnceHolds == Spec => []DeliveredOnce
<1>1. IInv => DeliveredOnce
  BY DEF IInv, Unique, Delivery, Queued, DeliveredOnce, TypeOK
<1>. QED  BY <1>1, Invariance, PTL

\* A finish that began with messages and is through leaves a job of its call,
\* unless one that overlapped wiped them (call_lifecycle.py).
THEOREM EndedIsQueuedHolds == Spec => []EndedIsQueued
<1>1. IInv => EndedIsQueued
  BY DEF IInv
<1>. QED  BY <1>1, Invariance, PTL

\* A sent job is only ever put back by a second loop (insights_http.py).
THEOREM SentIsFinalHolds == Spec => SentIsFinal
<1>1. ASSUME IInv, [Next]_vars, NEW f \in Finish,
             jobs[f] # NoJob, jobs[f].status = "sent", f \notin shared
      PROVE  jobs'[f].status = "sent"
  <2>1. \A d \in Drainer : drainers[d].job # f
    BY <1>1 DEF IInv, Hands, Queued
  <2>2. ASSUME NEW g \in Finish, Enqueue(g) PROVE jobs'[f] = jobs[f]
    <3>1. g # f
      BY <1>1, <2>2 DEF Enqueue, IInv, Unique, Stands, Queued
    <3>. QED  BY <2>2, <3>1, <1>1 DEF Enqueue, IInv, TypeOK
  <2>3. ASSUME NEW d \in Drainer, Mark(d) PROVE jobs'[f] = jobs[f]
    BY <1>1, <2>1, <2>3, MarkEffect
  <2>4. ASSUME NEW g \in Finish, FallsDue(g) PROVE jobs'[f].status = jobs[f].status
    BY <1>1, <2>4, FallsDueEffect
  <2>5. CASE UNCHANGED jobs
    BY <1>1, <2>5
  <2>6. \/ UNCHANGED jobs \/ \E g \in Finish : Enqueue(g) \/ FallsDue(g)
        \/ \E d \in Drainer : Mark(d)
    BY <1>1 DEF Next, CallNext, LoopNext, vars, AppendReads, AppendReadsAgain,
                AppendSaves, FinishReads, FinishReadsAgain, FinishSaves, FinishFails, Claim, Post, LoopFails
  <2>. QED  BY <1>1, <2>2, <2>3, <2>4, <2>5, <2>6
<1>2. IInv /\ [Next]_vars => [\A f \in Finish :
        jobs[f] # NoJob /\ jobs[f].status = "sent" /\ f \notin shared
        => jobs'[f].status = "sent"]_vars
  BY <1>1
<1>. QED  BY <1>2, Invariance, PTL DEF Spec, SentIsFinal

-----------------------------------------------------------------------------
(* One loop, as deployed *)

\* The only way two loops could share a job is closed.
LEMMA OneLoopShares ==
  ASSUME \A d, e \in Drainer : d = e,
         IInv, shared = {}, [Next]_vars
  PROVE  shared' = {}
<1>1. ASSUME NEW d \in Drainer, Claim(d) PROVE shared' = {}
  <2>1. PICK f \in Finish :
          shared' = shared \cup (IF \E e \in Drainer : drainers[e].job = f THEN {f} ELSE {})
    BY <1>1 DEF Claim
  <2>2. \A e \in Drainer : drainers[e].job # f
    BY <1>1, DispatchAssumption DEF Claim, Idle
  <2>. QED  BY <2>1, <2>2
<1>2. CASE UNCHANGED shared
  BY <1>2
<1>3. UNCHANGED shared \/ \E d \in Drainer : Claim(d)
  BY DEF Next, CallNext, LoopNext, vars, AppendReads, AppendReadsAgain,
         AppendSaves, FinishReads, FinishReadsAgain, FinishSaves,
         Enqueue, FinishFails, Post, Mark, LoopFails, FallsDue
<1>. QED  BY <1>1, <1>2, <1>3

\* In the deployment, where one process runs one loop, no job is ever in two
\* hands, and what was sent or refused for good stays so: the unconditional
\* mark_sent, mark_retry and mark_failed never meet a job that has settled.
THEOREM SettledIsFinalWithOneLoop ==
  ASSUME \A d, e \in Drainer : d = e
  PROVE  Spec => [](shared = {}) /\
                 [][\A f \in Finish :
                      jobs[f] # NoJob /\ jobs[f].status # "pending"
                      => jobs'[f] # NoJob /\ jobs'[f].status = jobs[f].status]_vars
<1>. DEFINE Alone == IInv /\ shared = {}
            Settled == \A f \in Finish :
                         jobs[f] # NoJob /\ jobs[f].status # "pending"
                         => jobs'[f] # NoJob /\ jobs'[f].status = jobs[f].status
<1>1. Init => Alone
  BY InitIInv DEF Init
<1>2. Alone /\ [Next]_vars => Alone'
  BY NextIInv, OneLoopShares
<1>3. Alone /\ [Next]_vars => [Settled]_vars
  <2>. SUFFICES ASSUME IInv, shared = {}, [Next]_vars, NEW f \in Finish,
                       jobs[f] # NoJob, jobs[f].status # "pending"
                PROVE  jobs'[f] # NoJob /\ jobs'[f].status = jobs[f].status
    OBVIOUS
  <2>1. \A d \in Drainer : drainers[d].job # f
    BY DEF IInv, Hands, Queued
  <2>2. ASSUME NEW g \in Finish, Enqueue(g) PROVE jobs'[f] = jobs[f]
    <3>1. g # f
      BY <2>2 DEF Enqueue, IInv, Unique, Stands, Queued
    <3>. QED  BY <2>2, <3>1 DEF Enqueue, IInv, TypeOK
  <2>3. ASSUME NEW d \in Drainer, Mark(d) PROVE jobs'[f] = jobs[f]
    BY <2>1, <2>3, MarkEffect
  <2>4. ASSUME NEW g \in Finish, FallsDue(g)
        PROVE  jobs'[f] # NoJob /\ jobs'[f].status = jobs[f].status
    BY <2>4, FallsDueEffect DEF Queued
  <2>5. \/ UNCHANGED jobs \/ \E g \in Finish : Enqueue(g) \/ FallsDue(g)
        \/ \E d \in Drainer : Mark(d)
    BY DEF Next, CallNext, LoopNext, vars, AppendReads, AppendReadsAgain,
           AppendSaves, FinishReads, FinishReadsAgain,
           FinishSaves, FinishFails, Claim, Post, LoopFails
  <2>. QED  BY <2>2, <2>3, <2>4, <2>5
<1>4. Alone => shared = {}
  OBVIOUS
<1>. HIDE DEF Alone, Settled
<1>5. Spec => [](shared = {}) /\ [][Settled]_vars
  BY <1>1, <1>2, <1>3, <1>4, PTL DEF Spec
<1>. QED  BY <1>5 DEF Settled

=============================================================================
