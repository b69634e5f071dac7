--------------------------- MODULE JobPagesProofs ---------------------------
(***************************************************************************)
(* The pages that start jobs, for any selections, any patience and any     *)
(* number of acts, failures and restarts.                                  *)
(***************************************************************************)
EXTENDS JobPages, TLAPS

\* A job that is waited for was queued by the POST of the handler that waits.
Started ==
    \A h \in handlers : h.job # 0 => status[h.job] # "none"

\* A job that may still write is waited for, or the page has lost sight of it.
Watched ==
    \A j \in Job : Live(j) => j \in lost \/ \E h \in handlers : h.job = j

\* A handler holds its flag, and nobody else does.
Held ==
    /\ \A h \in handlers : h.asked.kind \in busy
    /\ \A g, h \in handlers : g.asked.kind = h.asked.kind => g = h

\* What the request asks to apply is what the preview named in it was about.
Saw(asked) ==
    asked.kind = "apply" =>
        /\ asked.seen \in Job
        /\ status[asked.seen] # "none"
        /\ asked.seen \notin late =>
              job[asked.seen].kind = "preview" /\ job[asked.seen].sel = asked.sel

Reviewed ==
    /\ preview # 0 =>
          /\ status[preview] # "none"
          /\ preview \notin late => job[preview].kind = "preview" /\ job[preview].sel = sel
          /\ page \in RecalcPages
    /\ \A h \in handlers : Saw(h.asked)
    /\ \A j \in Job : Saw(job[j])

Inv == TypeOK /\ Started /\ Watched /\ Held /\ Reviewed

LEMMA InitInv == Init => Inv
<1> SUFFICES ASSUME Init PROVE Inv
    OBVIOUS
<1> USE JobPagesAssumption DEF Init
<1>1. TypeOK
    BY DEF TypeOK, RecalcPages, Kinds, Choices, Asks, Job, Asked
<1>2. Started /\ Watched /\ Held
    BY DEF Started, Watched, Held, Live, Begun
<1>3. Reviewed
    BY DEF Reviewed, Saw, Asked
<1> QED BY <1>1, <1>2, <1>3 DEF Inv

LEMMA SelectInv ==
    ASSUME Inv, NEW s \in Choices, Select(s) PROVE Inv'
<1> USE JobPagesAssumption
<1>1. TypeOK'
    BY DEF Inv, TypeOK, RecalcPages, Kinds, Choices, Asks, Job, Asked, Waiting, backend, bounds, screen,
           Select, Acts
<1>2. Started' /\ Watched' /\ Held'
    BY DEF Inv, TypeOK, Started, Watched, Held, Live, Begun, Asked, Waiting, backend, bounds, screen,
           Select, Acts
<1>3. Reviewed'
    BY DEF Inv, TypeOK, Started, Reviewed, Saw, Asked, Waiting, backend, bounds, screen, RecalcPages,
           Select, Acts
<1> QED BY <1>1, <1>2, <1>3 DEF Inv

LEMMA StartInv ==
    ASSUME Inv, NEW kind \in Kinds, Start(kind) PROVE Inv'
<1> USE JobPagesAssumption
<1>1. TypeOK'
    BY DEF Inv, TypeOK, RecalcPages, Kinds, Choices, Asks, Job, Asked, Waiting, backend, bounds, screen,
           Start, Offered, Acts
<1>2. Started' /\ Watched' /\ Held'
    BY DEF Inv, TypeOK, Started, Watched, Held, Live, Begun, Asked, Waiting, backend, bounds, screen,
           Start, Offered, Acts
<1>3. Reviewed'
    BY DEF Inv, TypeOK, Started, Reviewed, Saw, Asked, Waiting, backend, bounds, screen, RecalcPages,
           Start, Offered, Acts
<1> QED BY <1>1, <1>2, <1>3 DEF Inv

LEMMA AcceptInv ==
    ASSUME Inv, NEW h \in handlers, NEW j \in Job, Accept(h, j) PROVE Inv'
<1> USE JobPagesAssumption
<1> DEFINE n == Waiting(h.asked, j, 0)
<1>1. /\ h \in [asked : Asks, job : Job \cup {0}, streak : 0 .. GiveUp - 1]
      /\ h.asked \in Asks
    BY DEF Inv, TypeOK
<1>2. /\ n \in [asked : Asks, job : Job \cup {0}, streak : 0 .. GiveUp - 1]
      /\ n.asked = h.asked /\ n.job = j
    BY <1>1 DEF Waiting
<1>3. handlers' = (handlers \ {h}) \cup {n}
    BY DEF Accept
<1> HIDE DEF n
<1>4. /\ j # 0 /\ h.job = 0 /\ status[j] = "none"
      /\ job' = [i \in Job |-> IF i = j THEN h.asked ELSE job[i]]
      /\ status' = [i \in Job |-> IF i = j THEN "queued" ELSE status[i]]
    BY DEF Accept, Queue, Job
<1>5. TypeOK'
  <2>1. handlers' \subseteq [asked : Asks, job : Job \cup {0}, streak : 0 .. GiveUp - 1]
      BY <1>2, <1>3 DEF Inv, TypeOK
  <2>2. job' \in [Job -> Asks \cup {Asked("none", 0, 0)}]
      BY <1>1, <1>4 DEF Inv, TypeOK
  <2>3. \A g \in handlers' : g.job # 0 => job'[g.job] = g.asked
      BY <1>2, <1>3, <1>4 DEF Inv, TypeOK, Started
  <2> QED BY <1>4, <2>1, <2>2, <2>3
          DEF Inv, TypeOK, RecalcPages, Kinds, Choices, Accept, Queue, screen, bounds
<1>6. Started' /\ Watched' /\ Held'
  <2>1. Started'
      BY <1>2, <1>3, <1>4 DEF Inv, TypeOK, Started
  <2>2. Watched'
    <3> SUFFICES ASSUME NEW i \in Job, Live(i)', i \notin lost'
                 PROVE  \E g \in handlers' : g.job = i
        BY DEF Watched
    <3>1. CASE i = j
        BY <1>2, <1>3, <3>1
    <3>2. CASE i # j
      <4>1. Live(i) /\ i \notin lost
          BY <1>4, <3>2 DEF Live, Begun, Accept
      <4>2. PICK g \in handlers : g.job = i
          BY <4>1 DEF Inv, Watched
      <4> QED BY <1>3, <1>4, <4>2 DEF Job
    <3> QED BY <3>1, <3>2
  <2>3. Held'
      BY <1>2, <1>3 DEF Inv, Held, Accept
  <2> QED BY <2>1, <2>2, <2>3
<1>7. Reviewed'
    BY <1>2, <1>3, <1>4 DEF Inv, TypeOK, Started, Reviewed, Saw, Accept, Queue, screen, RecalcPages
<1> QED BY <1>5, <1>6, <1>7 DEF Inv

LEMMA AcceptUnheardInv ==
    ASSUME Inv, NEW h \in handlers, NEW j \in Job, AcceptUnheard(h, j) PROVE Inv'
<1> USE JobPagesAssumption
<1>1. h.asked \in Asks
    BY DEF Inv, TypeOK
<1>2. /\ h.job = 0 /\ status[j] = "none" /\ j # 0
      /\ job' = [i \in Job |-> IF i = j THEN h.asked ELSE job[i]]
      /\ status' = [i \in Job |-> IF i = j THEN "queued" ELSE status[i]]
      /\ lost' = lost \cup {j}
    BY DEF AcceptUnheard, Queue, Job
<1>3. handlers' = handlers \ {h} /\ busy' = busy \ {h.asked.kind}
    BY DEF AcceptUnheard, Ends
<1>4. TypeOK'
  <2>1. job' \in [Job -> Asks \cup {Asked("none", 0, 0)}]
      BY <1>1, <1>2 DEF Inv, TypeOK
  <2>2. \A g \in handlers' : g.job # 0 => job'[g.job] = g.asked
      BY <1>2, <1>3 DEF Inv, TypeOK, Started
  <2>3. failures' \in 0 .. MaxFailures /\ UNCHANGED <<acts, restarts>>
      BY DEF Inv, TypeOK, AcceptUnheard, Fails
  <2>4. UNCHANGED <<page, sel, preview, applied, found, differs, credits, late>>
      BY DEF AcceptUnheard, Queue, screen
  <2>5. /\ status' \in [Job -> {"none", "queued", "running", "corrected", "done", "error",
                                "never", "stuck"}]
        /\ lost' \subseteq Job /\ handlers' \subseteq handlers /\ busy' \subseteq busy
      BY <1>2, <1>3 DEF Inv, TypeOK
  <2> QED BY <2>1, <2>2, <2>3, <2>4, <2>5 DEF Inv, TypeOK, RecalcPages, Kinds, Choices
<1>5. Started'
    BY <1>2, <1>3 DEF Inv, TypeOK, Started
<1>6. Watched'
  <2> SUFFICES ASSUME NEW i \in Job, Live(i)', i \notin lost'
               PROVE  \E g \in handlers' : g.job = i
      BY DEF Watched
  <2>1. Live(i) /\ i \notin lost
      BY <1>2 DEF Live, Begun
  <2>2. PICK g \in handlers : g.job = i
      BY <2>1 DEF Inv, Watched
  <2> QED BY <1>2, <1>3, <2>2 DEF Job
<1>7. Held'
    BY <1>3 DEF Inv, Held
<1>8. Reviewed'
    BY <1>2, <1>3 DEF Inv, TypeOK, Started, Reviewed, Saw, AcceptUnheard, Queue, screen, RecalcPages
<1> QED BY <1>4, <1>5, <1>6, <1>7, <1>8 DEF Inv

LEMMA RefusePostInv ==
    ASSUME Inv, NEW h \in handlers, RefusePost(h) PROVE Inv'
<1> USE JobPagesAssumption
<1>1. /\ h.job = 0
      /\ handlers' = handlers \ {h} /\ busy' = busy \ {h.asked.kind}
    BY DEF RefusePost, Ends
<1>2. failures' \in 0 .. MaxFailures /\ UNCHANGED <<acts, restarts>>
    BY DEF Inv, TypeOK, RefusePost, Fails
<1>3. TypeOK'
    BY <1>1, <1>2 DEF Inv, TypeOK, RecalcPages, Kinds, Choices, RefusePost, backend, screen
<1>4. Started' /\ Held'
    BY <1>1 DEF Inv, Started, Held, RefusePost, backend
<1>5. Watched'
  <2> SUFFICES ASSUME NEW i \in Job, Live(i)', i \notin lost'
               PROVE  \E g \in handlers' : g.job = i
      BY DEF Watched
  <2>1. Live(i) /\ i \notin lost
      BY DEF Live, Begun, RefusePost, backend
  <2>2. PICK g \in handlers : g.job = i
      BY <2>1 DEF Inv, Watched
  <2> QED BY <1>1, <2>2 DEF Job
<1>6. Reviewed'
    BY <1>1 DEF Inv, Reviewed, Saw, RefusePost, backend, screen, RecalcPages
<1> QED BY <1>3, <1>4, <1>5, <1>6 DEF Inv

LEMMA BeginInv ==
    ASSUME Inv, NEW j \in Job, Begin(j) PROVE Inv'
<1> USE JobPagesAssumption
<1>1. TypeOK'
    BY DEF Inv, TypeOK, RecalcPages, Kinds, Choices, Asks, Job, Asked, Waiting, backend, bounds, screen,
           Begin, Moves
<1>2. Started' /\ Watched' /\ Held'
    BY DEF Inv, TypeOK, Started, Watched, Held, Live, Begun, Asked, Waiting, backend, bounds, screen,
           Begin, Moves
<1>3. Reviewed'
    BY DEF Inv, TypeOK, Started, Reviewed, Saw, Asked, Waiting, backend, bounds, screen, RecalcPages,
           Begin, Moves
<1> QED BY <1>1, <1>2, <1>3 DEF Inv

LEMMA CorrectInv ==
    ASSUME Inv, NEW j \in Job, Correct(j) PROVE Inv'
<1> USE JobPagesAssumption
<1>1. credits' \in [Selection -> Nat]
    BY DEF Inv, TypeOK, Correct
<1>2. status' = [i \in Job |-> IF i = j THEN "corrected" ELSE status[i]] /\ status[j] = "running"
    BY DEF Correct, Moves
<1>3. differs' \subseteq Selection
    BY DEF Inv, TypeOK, Correct
<1>4. TypeOK'
    BY <1>1, <1>2, <1>3 DEF Inv, TypeOK, RecalcPages, Kinds, Choices, Correct, screen, bounds
<1>5. Started' /\ Watched' /\ Held'
    BY <1>2 DEF Inv, TypeOK, Started, Watched, Held, Live, Begun, Correct
<1>6. Reviewed'
    BY <1>2 DEF Inv, TypeOK, Reviewed, Saw, Correct, screen, RecalcPages
<1> QED BY <1>4, <1>5, <1>6 DEF Inv

LEMMA FinishInv ==
    ASSUME Inv, NEW j \in Job, Finish(j) PROVE Inv'
<1> USE JobPagesAssumption
<1>1. TypeOK'
    BY DEF Inv, TypeOK, RecalcPages, Kinds, Choices, Asks, Job, Asked, Waiting, backend, bounds, screen,
           Finish, Moves, Corrects
<1>2. Started' /\ Watched' /\ Held'
    BY DEF Inv, TypeOK, Started, Watched, Held, Live, Begun, Asked, Waiting, backend, bounds, screen,
           Finish, Moves, Corrects
<1>3. Reviewed'
    BY DEF Inv, TypeOK, Started, Reviewed, Saw, Asked, Waiting, backend, bounds, screen, RecalcPages,
           Finish, Moves, Corrects
<1> QED BY <1>1, <1>2, <1>3 DEF Inv

LEMMA BreakInv ==
    ASSUME Inv, NEW j \in Job, Break(j) PROVE Inv'
<1> USE JobPagesAssumption
<1>1. TypeOK'
    BY DEF Inv, TypeOK, RecalcPages, Kinds, Choices, Asks, Job, Asked, Waiting, backend, bounds, screen,
           Break, Moves
<1>2. Started' /\ Watched' /\ Held'
    BY DEF Inv, TypeOK, Started, Watched, Held, Live, Begun, Asked, Waiting, backend, bounds, screen,
           Break, Moves
<1>3. Reviewed'
    BY DEF Inv, TypeOK, Started, Reviewed, Saw, Asked, Waiting, backend, bounds, screen, RecalcPages,
           Break, Moves
<1> QED BY <1>1, <1>2, <1>3 DEF Inv

LEMMA RestartInv ==
    ASSUME Inv, Restart PROVE Inv'
<1> USE JobPagesAssumption
<1>1. TypeOK'
    BY DEF Inv, TypeOK, RecalcPages, Kinds, Choices, Asks, Job, Asked, Waiting, backend, bounds, screen,
           Restart, Begun
<1>2. Started' /\ Watched' /\ Held'
    BY DEF Inv, TypeOK, Started, Watched, Held, Live, Begun, Asked, Waiting, backend, bounds, screen,
           Restart, Begun
<1>3. Reviewed'
    BY DEF Inv, TypeOK, Started, Reviewed, Saw, Asked, Waiting, backend, bounds, screen, RecalcPages,
           Restart, Begun
<1> QED BY <1>1, <1>2, <1>3 DEF Inv

LEMMA PollRunningInv ==
    ASSUME Inv, NEW h \in handlers, PollRunning(h) PROVE Inv'
<1> USE JobPagesAssumption
<1> DEFINE n == Waiting(h.asked, h.job, 0)
<1>1. /\ n.asked = h.asked /\ n.job = h.job
      /\ n \in [asked : Asks, job : Job \cup {0}, streak : 0 .. GiveUp - 1]
    BY DEF Waiting, Inv, TypeOK
<1>2. handlers' = (handlers \ {h}) \cup {n}
    BY DEF PollRunning
<1> HIDE DEF n
<1>3. UNCHANGED <<page, sel, preview, applied, busy, status, job, found, differs, credits,
                  lost, late, acts, failures, restarts>>
    BY DEF PollRunning, screen, backend, bounds
<1>4. TypeOK'
    BY <1>1, <1>2, <1>3 DEF Inv, TypeOK, RecalcPages, Kinds, Choices
<1>5. Started' /\ Held'
    BY <1>1, <1>2, <1>3 DEF Inv, Started, Held
<1>6. Watched'
  <2> SUFFICES ASSUME NEW i \in Job, Live(i)', i \notin lost'
               PROVE  \E g \in handlers' : g.job = i
      BY DEF Watched
  <2>1. PICK g \in handlers : g.job = i
      BY <1>3 DEF Inv, Watched, Live, Begun
  <2> QED BY <1>1, <1>2, <2>1
<1>7. Reviewed'
    BY <1>1, <1>2, <1>3 DEF Inv, Reviewed, Saw
<1> QED BY <1>4, <1>5, <1>6, <1>7 DEF Inv

LEMMA PollFailsInv ==
    ASSUME Inv, NEW h \in handlers, PollFails(h) PROVE Inv'
<1> USE JobPagesAssumption
<1> DEFINE n == Waiting(h.asked, h.job, h.streak + 1)
<1>1. h \in [asked : Asks, job : Job \cup {0}, streak : 0 .. GiveUp - 1]
    BY DEF Inv, TypeOK
<1>2. /\ n.asked = h.asked /\ n.job = h.job
      /\ h.streak + 1 < GiveUp =>
            n \in [asked : Asks, job : Job \cup {0}, streak : 0 .. GiveUp - 1]
    BY <1>1 DEF Waiting
<1>3. \/ /\ handlers' = (handlers \ {h}) \cup {n} /\ h.streak + 1 < GiveUp
         /\ UNCHANGED <<busy, lost>>
      \/ /\ handlers' = handlers \ {h} /\ busy' = busy \ {h.asked.kind}
         /\ lost' = lost \cup {h.job}
    BY DEF PollFails, Ends
<1> HIDE DEF n
<1>4. /\ h.job # 0
      /\ UNCHANGED <<page, sel, preview, applied, status, job, found, differs, credits, late>>
    BY DEF PollFails, screen, backend
<1>5. failures' \in 0 .. MaxFailures /\ UNCHANGED <<acts, restarts>>
    BY DEF Inv, TypeOK, PollFails, Fails, bounds
<1>6. TypeOK'
  <2>1. lost' \subseteq Job /\ busy' \subseteq Kinds'
      BY <1>1, <1>3, <1>4 DEF Inv, TypeOK, Kinds, RecalcPages
  <2>2. /\ handlers' \subseteq [asked : Asks, job : Job \cup {0}, streak : 0 .. GiveUp - 1]
        /\ \A g \in handlers' : g.job # 0 => job'[g.job] = g.asked
      BY <1>2, <1>3, <1>4 DEF Inv, TypeOK
  <2> QED BY <1>4, <1>5, <2>1, <2>2 DEF Inv, TypeOK, RecalcPages, Choices
<1>7. Started' /\ Held'
    BY <1>2, <1>3, <1>4 DEF Inv, Started, Held
<1>8. Watched'
  <2> SUFFICES ASSUME NEW i \in Job, Live(i)', i \notin lost'
               PROVE  \E g \in handlers' : g.job = i
      BY DEF Watched
  <2>1. PICK g \in handlers : g.job = i
      BY <1>3, <1>4 DEF Inv, Watched, Live, Begun
  <2> QED BY <1>2, <1>3, <2>1
<1>9. Reviewed'
    BY <1>2, <1>3, <1>4 DEF Inv, Reviewed, Saw
<1> QED BY <1>6, <1>7, <1>8, <1>9 DEF Inv

LEMMA PollDoneInv ==
    ASSUME Inv, NEW h \in handlers, PollDone(h) PROVE Inv'
<1> USE JobPagesAssumption
<1>1. h.asked.kind \in Kinds /\ h.job \in Job /\ job[h.job] = h.asked
    BY DEF Inv, TypeOK, Held, PollDone
<1>2. TypeOK'
    BY <1>1 DEF Inv, TypeOK, RecalcPages, Kinds, Choices, PollDone, Ends, backend, bounds
<1>3. Started' /\ Watched' /\ Held'
    BY DEF Inv, TypeOK, Started, Watched, Held, Live, Begun, PollDone, Ends, backend
<1>4. Reviewed'
  <2>1. UNCHANGED <<page, status, job>> /\ late \subseteq late'
      BY DEF PollDone, backend
  <2>2. /\ \A g \in handlers' : Saw(g.asked)'
        /\ \A j \in Job : Saw(job[j])'
      BY <2>1 DEF Inv, Reviewed, Saw, PollDone, Ends
  <2>3. CASE h.asked.kind = "preview"
    <3>1. preview' = h.job /\ sel' = sel /\ page' \in RecalcPages /\ status'[h.job] # "none"
        BY <1>1, <2>1, <2>3 DEF PollDone, Kinds
    <3>2. h.job \notin late' => job'[h.job].kind = "preview" /\ job'[h.job].sel = sel'
        BY <1>1, <2>1, <2>3, <3>1 DEF PollDone
    <3> QED BY <2>2, <3>1, <3>2 DEF Reviewed
  <2>4. CASE h.asked.kind # "preview"
      BY <2>2, <2>4 DEF Reviewed, PollDone
  <2> QED BY <2>3, <2>4
<1> QED BY <1>2, <1>3, <1>4 DEF Inv

LEMMA PollErrorInv ==
    ASSUME Inv, NEW h \in handlers, PollError(h) PROVE Inv'
<1> USE JobPagesAssumption
<1>1. TypeOK'
    BY DEF Inv, TypeOK, RecalcPages, Kinds, Choices, Asks, Job, Asked, Waiting, backend, bounds, screen,
           PollError, Ends
<1>2. Started' /\ Watched' /\ Held'
    BY DEF Inv, TypeOK, Started, Watched, Held, Live, Begun, Asked, Waiting, backend, bounds, screen,
           PollError, Ends
<1>3. Reviewed'
    BY DEF Inv, TypeOK, Started, Reviewed, Saw, Asked, Waiting, backend, bounds, screen, RecalcPages,
           PollError, Ends
<1> QED BY <1>1, <1>2, <1>3 DEF Inv

LEMMA NextInv == Inv /\ [Next]_vars => Inv'
<1> SUFFICES ASSUME Inv, [Next]_vars PROVE Inv'
    OBVIOUS
<1>1. CASE UNCHANGED vars
    BY <1>1 DEF vars, screen, backend, bounds, Inv, TypeOK, RecalcPages, Kinds, Choices, Started,
             Watched, Live, Begun, Held, Reviewed, Saw
<1>2. ASSUME NEW s \in Choices, Select(s) PROVE Inv'
    BY <1>2, SelectInv
<1>3. ASSUME NEW kind \in Kinds, Start(kind) PROVE Inv'
    BY <1>3, StartInv
<1>4. ASSUME NEW h \in handlers, NEW j \in Job, Accept(h, j) \/ AcceptUnheard(h, j) PROVE Inv'
    BY <1>4, AcceptInv, AcceptUnheardInv
<1>5. ASSUME NEW h \in handlers, RefusePost(h) PROVE Inv'
    BY <1>5, RefusePostInv
<1>6. ASSUME NEW h \in handlers, Poll(h) PROVE Inv'
    BY <1>6, PollRunningInv, PollFailsInv, PollDoneInv, PollErrorInv DEF Poll
<1>7. ASSUME NEW j \in Job, Begin(j) \/ Correct(j) \/ Finish(j) \/ Break(j) PROVE Inv'
    BY <1>7, BeginInv, CorrectInv, FinishInv, BreakInv
<1>8. CASE Restart
    BY <1>8, RestartInv
<1> QED BY <1>1, <1>2, <1>3, <1>4, <1>5, <1>6, <1>7, <1>8 DEF Next

LEMMA SpecInv == Spec => []Inv
BY InitInv, NextInv, PTL DEF Spec

\* The page and the jobs keep their types on every page, for any bounds.
THEOREM JobPagesTypeOK == Spec => []TypeOK
<1>1. Inv => TypeOK
    BY DEF Inv
<1> QED BY <1>1, SpecInv, PTL

\* Two live writers that are not lost have two handlers of one kind, which is one.
LEMMA InvNoRivals == Inv => NoRivals
<1> SUFFICES ASSUME Inv, NEW i \in Job, NEW j \in Job, Live(i), Live(j),
                    job[i].kind # "preview", job[j].kind # "preview",
                    i \notin lost, j \notin lost
             PROVE  i = j
    BY DEF NoRivals
<1>1. PICK g \in handlers : g.job = i
    BY DEF Inv, Watched
<1>2. PICK h \in handlers : h.job = j
    BY DEF Inv, Watched
<1>3. g.asked = job[i] /\ h.asked = job[j]
    BY <1>1, <1>2 DEF Inv, TypeOK, Job
<1>4. g.asked.kind \in Kinds \ {"preview"} /\ h.asked.kind \in Kinds \ {"preview"}
    BY <1>3 DEF Inv, TypeOK, Held
<1>5. g.asked.kind = h.asked.kind
    BY <1>4 DEF Kinds
<1> QED BY <1>1, <1>2, <1>5 DEF Inv, Held

\* Whatever the user does and however many requests fail, two jobs that write
\* run together only when the page has lost sight of one: the flag is held from
\* before the POST until the handler, which holds it alone, ends.
THEOREM NoRivalsAlways == Spec => []NoRivals
BY SpecInv, InvNoRivals, PTL

\* A job changes what its user had reviewed, unless that preview had landed on
\* another selection: no other order of clicks and answers can separate them.
THEOREM AppliesWhatItSawAlways == Spec => []AppliesWhatItSaw
<1>1. Inv => AppliesWhatItSaw
    BY DEF Inv, Reviewed, Saw, AppliesWhatItSaw
<1> QED BY <1>1, SpecInv, PTL

\* While the page has lost sight of no job: a selection that is still to be
\* corrected has not been; an apply that is running over differences it has
\* found is on a selection that is; what a job has found it found when it began.
Uncorrected ==
    lost = {} =>
        /\ \A s \in Selection : credits[s] <= 1 /\ (s \in differs => credits[s] = 0)
        /\ \A j \in found : job[j].kind = "apply" /\ status[j] = "running"
                               => job[j].sel \in differs
        /\ \A j \in found : status[j] \notin {"none", "queued"}

\* An apply that ends takes its selection from those to be corrected; no other
\* apply is running over it.
LEMMA CorrectUncorrected ==
    ASSUME Inv, Uncorrected, NEW j \in Job, Correct(j) PROVE Uncorrected'
<1> SUFFICES ASSUME lost' = {} PROVE Uncorrected'
    BY DEF Uncorrected
<1>1. /\ lost = {} /\ found' = found /\ job' = job
      /\ status[j] = "running" /\ j \in found /\ job[j].kind = "apply"
      /\ status' = [i \in Job |-> IF i = j THEN "corrected" ELSE status[i]]
      /\ differs' = differs \ {job[j].sel}
      /\ credits' = [s \in Selection |-> IF s = job[j].sel THEN credits[s] + 1 ELSE credits[s]]
    BY DEF Correct, Corrects, Moves
<1>2. job[j].sel \in differs
    BY <1>1 DEF Uncorrected
<1>3. /\ credits \in [Selection -> Nat] /\ differs \subseteq Selection
      /\ found \subseteq Job /\ DOMAIN status = Job
    BY DEF Inv, TypeOK
<1>4. \A s \in Selection : credits'[s] <= 1 /\ (s \in differs' => credits'[s] = 0)
    BY <1>1, <1>2, <1>3 DEF Uncorrected
<1>5. ASSUME NEW i \in found', job'[i].kind = "apply", status'[i] = "running"
      PROVE  job'[i].sel \in differs'
  <2>1. i \in Job /\ i # j /\ status[i] = "running"
      BY <1>1, <1>3, <1>5
  <2>2. job[i].sel \in differs
      BY <1>1, <1>5, <2>1 DEF Uncorrected
  <2>3. Live(i) /\ Live(j)
      BY <1>1, <2>1 DEF Live, Begun
  <2>4. FALSE
      BY <1>1, <1>5, <2>1, <2>3, InvNoRivals DEF NoRivals
  <2> QED BY <2>4
<1>6. \A i \in found' : status'[i] \notin {"none", "queued"}
    BY <1>1, <1>3 DEF Uncorrected
<1> QED BY <1>4, <1>5, <1>6 DEF Uncorrected

LEMMA NextUncorrected == Inv /\ Uncorrected /\ [Next]_vars => Uncorrected'
<1> SUFFICES ASSUME Inv, Uncorrected, [Next]_vars PROVE Uncorrected'
    OBVIOUS
<1>1. /\ found \subseteq Job
      /\ status \in [Job -> {"none", "queued", "running", "corrected", "done", "error",
                             "never", "stuck"}]
    BY DEF Inv, TypeOK
<1>2. CASE UNCHANGED vars
    BY <1>2 DEF vars, backend, Uncorrected
<1>3. ASSUME NEW s \in Choices, Select(s) PROVE Uncorrected'
    BY <1>3 DEF Select, backend, Uncorrected
<1>4. ASSUME NEW kind \in Kinds, Start(kind) PROVE Uncorrected'
    BY <1>4 DEF Start, backend, Uncorrected
<1>5. ASSUME NEW h \in handlers, NEW j \in Job, Accept(h, j) PROVE Uncorrected'
    BY <1>1, <1>5 DEF Accept, Queue, Uncorrected
<1>6. ASSUME NEW h \in handlers, NEW j \in Job, AcceptUnheard(h, j) PROVE Uncorrected'
    BY <1>6 DEF AcceptUnheard, Uncorrected
<1>7. ASSUME NEW h \in handlers, RefusePost(h) PROVE Uncorrected'
    BY <1>7 DEF RefusePost, backend, Uncorrected
<1>8. ASSUME NEW h \in handlers, Poll(h) PROVE Uncorrected'
    BY <1>8 DEF Poll, PollRunning, PollFails, PollDone, PollError, backend, Uncorrected
<1>9. ASSUME NEW j \in Job, Begin(j) PROVE Uncorrected'
    BY <1>1, <1>9 DEF Begin, Moves, Uncorrected
<1>10. ASSUME NEW j \in Job, Correct(j) PROVE Uncorrected'
    BY <1>10, CorrectUncorrected
<1>11. ASSUME NEW j \in Job, Finish(j) \/ Break(j) PROVE Uncorrected'
    BY <1>1, <1>11 DEF Finish, Break, Moves, Uncorrected
<1>12. CASE Restart
    BY <1>1, <1>12 DEF Restart, Begun, Uncorrected
<1> QED BY <1>2, <1>3, <1>4, <1>5, <1>6, <1>7, <1>8, <1>9, <1>10, <1>11, <1>12 DEF Next

\* However often the button is pressed, and whatever fails or is restarted, the
\* differences of a selection are credited once, as long as the page has lost
\* sight of no job: an apply runs alone, and leaves the next nothing to find.
THEOREM CreditedOnceAlways == Spec => []CreditedOnce
<1>1. Init => Uncorrected
    BY DEF Init, Uncorrected
<1>2. Uncorrected => CreditedOnce
    BY DEF Uncorrected, CreditedOnce
<1> QED BY <1>1, <1>2, SpecInv, NextUncorrected, PTL DEF Spec

----------------------------------------------------------------------------
(* Who disables the buttons.                                               *)

\* Every button that is disabled has its handler.
BusyHeld == \A kind \in busy : \E h \in handlers : h.asked.kind = kind

\* And a handler that polls has a job to wait for, the one that it asked for,
\* which was queued: an answer of its file, or the lack of one, ends the wait.
BusyAwaitsItsJob ==
    \A kind \in busy : \E h \in handlers :
        /\ h.asked.kind = kind
        /\ h.job # 0 => job[h.job] = h.asked /\ status[h.job] # "none"

\* The handler of h goes on to its next await.
LEMMA GoesOnHeld ==
    ASSUME BusyHeld, busy' = busy, NEW h \in handlers, NEW n, n.asked = h.asked,
           handlers' = (handlers \ {h}) \cup {n}
    PROVE  BusyHeld'
BY DEF BusyHeld

\* It ends: its own button comes back, and the others have other handlers.
LEMMA EndsHeld ==
    ASSUME BusyHeld, NEW h \in handlers, Ends(h) PROVE BusyHeld'
<1> SUFFICES ASSUME NEW kind \in busy, kind # h.asked.kind
             PROVE  \E g \in handlers \ {h} : g.asked.kind = kind
    BY DEF BusyHeld, Ends
<1>1. PICK g \in handlers : g.asked.kind = kind
    BY DEF BusyHeld
<1> QED BY <1>1

LEMMA NextHeld == BusyHeld /\ [Next]_vars => BusyHeld'
<1> SUFFICES ASSUME BusyHeld, [Next]_vars PROVE BusyHeld'
    OBVIOUS
<1>1. ASSUME UNCHANGED <<busy, handlers>> PROVE BusyHeld'
    BY <1>1 DEF BusyHeld
<1>2. \A asked, j, streak : Waiting(asked, j, streak).asked = asked
    BY DEF Waiting
<1>3. ASSUME NEW kind \in Kinds, Start(kind) PROVE BusyHeld'
  <2> DEFINE n == Waiting(Asked(kind, sel, preview), 0, 0)
  <2>1. busy' = busy \cup {kind} /\ handlers' = handlers \cup {n}
    BY <1>3 DEF Start
  <2>2. n.asked.kind = kind
    BY <1>2 DEF Asked
  <2> HIDE DEF n
  <2> QED BY <2>1, <2>2 DEF BusyHeld
<1>4. ASSUME NEW h \in handlers, NEW j \in Job, Accept(h, j) \/ AcceptUnheard(h, j)
      PROVE  BusyHeld'
  <2>1. \/ busy' = busy /\ handlers' = (handlers \ {h}) \cup {Waiting(h.asked, j, 0)}
        \/ Ends(h)
    BY <1>4 DEF Accept, AcceptUnheard
  <2> QED BY <1>2, <2>1, GoesOnHeld, EndsHeld
<1>5. ASSUME NEW h \in handlers, RefusePost(h) PROVE BusyHeld'
    BY <1>5, EndsHeld DEF RefusePost
<1>6. ASSUME NEW h \in handlers, Poll(h) PROVE BusyHeld'
  <2>1. \/ /\ busy' = busy
           /\ \E streak : handlers' = (handlers \ {h}) \cup {Waiting(h.asked, h.job, streak)}
        \/ Ends(h)
    BY <1>6 DEF Poll, PollRunning, PollFails, PollDone, PollError
  <2> QED BY <1>2, <2>1, GoesOnHeld, EndsHeld
<1>7. ASSUME NEW s \in Choices, Select(s) PROVE UNCHANGED <<busy, handlers>>
    BY <1>7 DEF Select
<1>8. ASSUME NEW j \in Job, Begin(j) \/ Correct(j) \/ Finish(j) \/ Break(j)
      PROVE  UNCHANGED <<busy, handlers>>
    BY <1>8 DEF Begin, Correct, Finish, Break
<1>9. Restart => UNCHANGED <<busy, handlers>>
    BY DEF Restart
<1>10. UNCHANGED vars => UNCHANGED <<busy, handlers>>
    BY DEF vars
<1> QED BY <1>1, <1>3, <1>4, <1>5, <1>6, <1>7, <1>8, <1>9, <1>10 DEF Next

\* Whatever fails, is lost or is restarted, a button of these pages is disabled
\* by a handler that has still to end, and that waits for the answer of its POST
\* or for the job which that POST queued: the finally of runPreview, runApply and
\* run leaves no button disabled with nobody waiting, or waiting for another job.
THEOREM BusyAlwaysAwaitsItsJob == Spec => []BusyAwaitsItsJob
<1>1. Init => BusyHeld
    BY DEF Init, BusyHeld
<1>2. Inv /\ BusyHeld => BusyAwaitsItsJob
  <2>1. Inv => \A h \in handlers : h.job # 0 => job[h.job] = h.asked /\ status[h.job] # "none"
    BY DEF Inv, TypeOK, Started
  <2> QED BY <2>1 DEF BusyHeld, BusyAwaitsItsJob
<1> QED BY <1>1, <1>2, SpecInv, NextHeld, PTL DEF Spec
=============================================================================
