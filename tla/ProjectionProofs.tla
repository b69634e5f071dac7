-------------------------- MODULE ProjectionProofs --------------------------
(***************************************************************************)
(* What a run brings to Kamailio, for any scripts, any number of runs and  *)
(* edits, any failures and restarts.                                       *)
(***************************************************************************)
EXTENDS Projection, TLAPS

\* A run begins with the first of its outputs.
FromTheFirst ==
    \A r \in Run : run[r].pc \in {"idle", "read"} => run[r].at = 1

\* A run that begins beside another is noticed.
NoneBeside == mixed \/ OneAtATime

\* Since a run began alone, no error, no reload without answer and no other run.
Quiet == ~warned /\ ~unheard /\ ~mixed

WrittenNow(o) == written[o] = config
LoadedNow(o) == loaded[o] = config

\* The outputs before the one the run is at.
Before(r) == {script.outputs[i] : i \in 1 .. run[r].at - 1}

\* The run that began alone, after the last edit, carries it as far as it has come,
\* or has failed and will say so.
Carries(r) ==
    /\ run[r].pc \in {"write", "fill", "load"} => run[r].seen = config
    /\ run[r].pc = "fill" => written[Current(r)] = Torn
    /\ run[r].failed
       \/ /\ run[r].pc \in {"write", "fill"} => \A o \in Before(r) : WrittenNow(o)
          /\ run[r].pc = "load" => /\ \A o \in Output : WrittenNow(o)
                                   /\ \A o \in Before(r) : LoadedNow(o)

Carried ==
    (Quiet /\ ~due) =>
        /\ \A r \in Run : Carries(r)
        /\ AllIdle => \A o \in Output : WrittenNow(o) /\ LoadedNow(o)

Inv == TypeOK /\ FromTheFirst /\ NoneBeside /\ Carried

Pc == {"idle", "read", "write", "fill", "load"}
Runs == [pc : Pc, at : Nat, seen : Nat, failed : BOOLEAN]

\* The outputs of the script are a sequence without repetitions.
LEMMA Outputs ==
    ASSUME TypeOK
    PROVE  /\ Len(script.outputs) \in Nat \ {0}
           /\ DOMAIN script.outputs = 1 .. Len(script.outputs)
           /\ \A i \in DOMAIN script.outputs : script.outputs[i] \in Output
           /\ \A o \in Output : \E i \in DOMAIN script.outputs : o = script.outputs[i]
           /\ \A i, j \in DOMAIN script.outputs :
                 script.outputs[i] = script.outputs[j] => i = j
           /\ script.goesOn \in BOOLEAN
<1> DEFINE s == script.outputs
<1>1. s \in Seq(Output) /\ s # <<>> /\ IsInjective(s) /\ script.goesOn \in BOOLEAN
    BY ProjectionAssumption DEF TypeOK, Output
<1>2. Output = {s[i] : i \in DOMAIN s}
    BY DEF Output, OutputsOf, Range
<1>3. Len(s) \in Nat /\ DOMAIN s = 1 .. Len(s)
    BY <1>1
<1>4. Len(s) # 0
    BY <1>1
<1> HIDE DEF s
<1>5. \A i, j \in DOMAIN s : s[i] = s[j] => i = j
    BY <1>1 DEF IsInjective
<1>6. /\ \A i \in DOMAIN s : s[i] \in Output
      /\ \A o \in Output : \E i \in DOMAIN s : o = s[i]
    BY <1>2
<1> QED BY <1>1, <1>3, <1>4, <1>5, <1>6 DEF s

\* What the type says of one run.
LEMMA RunTypes ==
    ASSUME TypeOK, NEW r \in Run
    PROVE  /\ run[r] \in Runs /\ run[r].pc \in Pc /\ run[r].failed \in BOOLEAN
           /\ run[r].at \in 1 .. Len(script.outputs)
           /\ run[r].seen \in 0 .. config
           /\ Current(r) \in Output
           /\ run[r].pc = "fill" => Current(r) \in script.files
<1>1. run[r].at \in 1 .. Len(script.outputs)
    BY Outputs DEF TypeOK
<1>2. Current(r) \in Output
    BY <1>1, Outputs DEF Current
<1> QED BY <1>1, <1>2 DEF TypeOK, Runs, Pc

\* The outputs before the next one are those before this one, and this one; after
\* the last one they are all of them.
LEMMA BeforeNext ==
    ASSUME TypeOK, NEW r \in Run
    PROVE  /\ Before(r) \subseteq Output
           /\ Current(r) \notin Before(r)
           /\ {script.outputs[i] : i \in 1 .. run[r].at} = Before(r) \cup {Current(r)}
           /\ Last(r) => Output = Before(r) \cup {Current(r)}
<1> DEFINE s == script.outputs
           k == run[r].at
<1>1. k \in 1 .. Len(s) /\ Len(s) \in Nat /\ DOMAIN s = 1 .. Len(s)
    BY RunTypes, Outputs
<1>2. \A i \in 1 .. k - 1 : i \in DOMAIN s /\ i # k
    BY <1>1
<1>3. Before(r) = {s[i] : i \in 1 .. k - 1} /\ Current(r) = s[k]
    BY DEF Before, Current
<1>4. /\ \A i \in DOMAIN s : s[i] \in Output
      /\ \A o \in Output : \E i \in DOMAIN s : o = s[i]
      /\ \A i, j \in DOMAIN s : s[i] = s[j] => i = j
    BY Outputs
<1> HIDE DEF s, k
<1>5. Before(r) \subseteq Output /\ Current(r) \notin Before(r)
    BY <1>1, <1>2, <1>3, <1>4
<1>6. 1 .. k = (1 .. k - 1) \cup {k}
    BY <1>1
<1>7. {s[i] : i \in 1 .. k} = Before(r) \cup {Current(r)}
    BY <1>3, <1>6
<1>8. ASSUME Last(r) PROVE Output = Before(r) \cup {Current(r)}
  <2>1. k = Len(s)
      BY <1>8 DEF Last, s, k
  <2>2. Output = {s[i] : i \in 1 .. k}
      BY <2>1, <1>1, <1>4
  <2> QED BY <2>2, <1>7
<1> QED BY <1>5, <1>7, <1>8 DEF s, k

LEMMA InitInv == Init => Inv
<1> SUFFICES ASSUME Init PROVE Inv
    OBVIOUS
<1>1. \A r \in Run : run[r] = NotRunning
    BY DEF Init
<1>2. TypeOK
  <2>1. 1 \in DOMAIN script.outputs
    <3>1. script.outputs \in Seq(OutputsOf(script)) /\ script.outputs # <<>>
        BY ProjectionAssumption DEF Init
    <3> QED BY <3>1
  <2>2. NotRunning \in Runs
      BY DEF NotRunning, Runs, Pc
  <2>3. run \in [Run -> Runs]
      BY <2>2 DEF Init
  <2>4. 0 \in Version
      BY ProjectionAssumption DEF Version
  <2>5. /\ written \in [Output -> Content]
        /\ loaded \in [Output -> Content]
      BY <2>4 DEF Init, Content
  <2>6. \A r \in Run : /\ run[r].at \in DOMAIN script.outputs
                       /\ run[r].seen \in 0 .. config
                       /\ run[r].pc = "fill" => Current(r) \in script.files
      BY <1>1, <2>1 DEF Init, NotRunning
  <2>7. /\ script \in Script /\ config \in Version
        /\ due \in BOOLEAN /\ warned \in BOOLEAN /\ unheard \in BOOLEAN /\ mixed \in BOOLEAN
      BY <2>4 DEF Init
  <2> QED BY <2>3, <2>5, <2>6, <2>7 DEF TypeOK, Runs, Pc
<1>3. FromTheFirst /\ NoneBeside
    BY <1>1 DEF FromTheFirst, NoneBeside, OneAtATime, NotRunning
<1>4. Carried
    BY <1>1 DEF Carried, Carries, WrittenNow, LoadedNow, NotRunning, Init
<1> QED BY <1>2, <1>3, <1>4 DEF Inv

\* A step of one run keeps the type if it leaves the run one of Runs, at an output
\* of the script and with a version there has been.
LEMMA RunStepType ==
    ASSUME TypeOK, NEW r \in Run, NEW n \in Runs,
           n.at \in DOMAIN script.outputs, n.seen \in 0 .. config,
           n.pc = "fill" => script.outputs[n.at] \in script.files,
           run' = [run EXCEPT ![r] = n],
           UNCHANGED <<script, config, due>>,
           written' \in [Output -> Content],
           loaded' \in [Output -> Content],
           warned' \in BOOLEAN, unheard' \in BOOLEAN, mixed' \in BOOLEAN
    PROVE  TypeOK'
<1>1. run' \in [Run -> Runs]
    BY DEF TypeOK, Runs, Pc
<1>2. \A q \in Run : run'[q] = IF q = r THEN n ELSE run[q]
    BY DEF TypeOK
<1>3. Output' = Output /\ Version' = Version /\ Content' = Content
    BY DEF Output, Version, Content, Torn, Garbled
<1>4. \A q \in Run : /\ run'[q].at \in DOMAIN script'.outputs
                     /\ run'[q].seen \in 0 .. config'
                     /\ run'[q].pc = "fill" => Current(q)' \in script'.files
    BY <1>2 DEF TypeOK, Current
<1> QED BY <1>1, <1>3, <1>4 DEF TypeOK, Runs, Pc

\* What a step of a run that goes on, or ends, leaves to be shown: that no other
\* run has begun, and what the run has brought.
LEMMA RunStepInv ==
    ASSUME Inv, NEW r \in Run, NEW n \in Runs, TypeOK', run[r].pc # "idle",
           n.pc \in {"idle", "read"} => n.at = 1,
           run' = [run EXCEPT ![r] = n],
           UNCHANGED <<script, config, due, mixed>>,
           Quiet' => Quiet,
           (Quiet' /\ ~due /\ Carries(r)) =>
               Carries(r)' /\ (n.pc = "idle" =>
                                  \A o \in Output : WrittenNow(o)' /\ LoadedNow(o)')
    PROVE  Inv'
<1>1. \A q \in Run : run'[q] = IF q = r THEN n ELSE run[q]
    BY DEF Inv, TypeOK
<1>2. FromTheFirst'
    BY <1>1 DEF Inv, FromTheFirst
<1>3. NoneBeside'
    BY <1>1 DEF Inv, NoneBeside, OneAtATime
<1>4. ASSUME Quiet', ~due' PROVE (\A q \in Run : Carries(q))' /\ (AllIdle => \A o \in Output : WrittenNow(o) /\ LoadedNow(o))'
  <2>1. Quiet /\ ~due /\ OneAtATime /\ Carries(r) /\ Output' = Output
      BY <1>4 DEF Inv, Carried, NoneBeside, Quiet, Output
  <2>2. \A q \in Run : q # r => run'[q].pc = "idle"
      BY <1>1, <2>1 DEF OneAtATime
  <2>3. ASSUME NEW q \in Run PROVE Carries(q)'
    <3>1. CASE q = r
        BY <1>4, <2>1, <3>1
    <3>2. CASE q # r
      <4>1. run'[q].pc = "idle"
          BY <2>2, <3>2
      <4>2. run'[q].failed \in BOOLEAN
          BY DEF TypeOK
      <4> QED BY <4>1, <4>2 DEF Carries
    <3> QED BY <3>1, <3>2
  <2>4. AllIdle' => n.pc = "idle"
      BY <1>1 DEF AllIdle
  <2> QED BY <1>4, <2>1, <2>3, <2>4
<1>5. Carried'
    BY <1>4 DEF Carried
<1> QED BY <1>2, <1>3, <1>5 DEF Inv

\* The run after an output, field by field.
LEMMA NextOutputTypes ==
    ASSUME TypeOK, NEW r \in Run
    PROVE  /\ NextOutput(r) \in Runs
           /\ NextOutput(r).pc = IF Last(r) THEN "load" ELSE "write"
           /\ NextOutput(r).at = IF Last(r) THEN 1 ELSE run[r].at + 1
           /\ NextOutput(r).at \in DOMAIN script.outputs
           /\ NextOutput(r).seen = run[r].seen
           /\ NextOutput(r).failed = run[r].failed
<1>1. /\ NextOutput(r) \in Runs
      /\ NextOutput(r).pc = IF Last(r) THEN "load" ELSE "write"
      /\ NextOutput(r).at = IF Last(r) THEN 1 ELSE run[r].at + 1
      /\ NextOutput(r).seen = run[r].seen
      /\ NextOutput(r).failed = run[r].failed
  <2>1. run[r].at + 1 \in Nat /\ run[r].seen \in Nat /\ run[r].failed \in BOOLEAN
      BY RunTypes DEF Runs
  <2> QED BY <2>1 DEF NextOutput, Runs, Pc
<1>2. NextOutput(r).at \in DOMAIN script.outputs
    BY <1>1, RunTypes, Outputs DEF Last
<1> QED BY <1>1, <1>2

\* An output is written, whole unless another run has been at it.
LEMMA WroteInv ==
    ASSUME Inv, NEW r \in Run, run[r].pc \in {"write", "fill"},
           NEW content \in {run[r].seen, Garbled},
           Carries(r) => content = run[r].seen,
           written' = [written EXCEPT ![Current(r)] = content],
           run' = [run EXCEPT ![r] = NextOutput(r)],
           UNCHANGED <<script, config, due, loaded, history>>
    PROVE  Inv'
<1> DEFINE n == NextOutput(r)
<1>1. /\ n \in Runs /\ n.at \in DOMAIN script.outputs
      /\ n.pc = IF Last(r) THEN "load" ELSE "write"
      /\ n.at = IF Last(r) THEN 1 ELSE run[r].at + 1
      /\ n.seen = run[r].seen /\ n.failed = run[r].failed
    BY NextOutputTypes DEF Inv
<1> HIDE DEF n
<1>2. /\ run[r].seen \in 0 .. config /\ Current(r) \in Output
      /\ run[r].at \in 1 .. Len(script.outputs) /\ Len(script.outputs) \in Nat
      /\ run[r].failed \in BOOLEAN
    BY RunTypes, Outputs DEF Inv
<1>3. run'[r] = n
    BY DEF n, Inv, TypeOK
<1>4. TypeOK'
  <2>1. run[r].seen \in Version
      BY <1>2, ProjectionAssumption DEF Inv, TypeOK, Version
  <2>2. written' \in [Output -> Content]
      BY <2>1 DEF Inv, TypeOK, Content
  <2> QED BY <1>1, <1>2, <2>2, RunStepType DEF n, Inv, TypeOK, history
<1>5. ASSUME Quiet', ~due, Carries(r) PROVE Carries(r)' /\ n.pc # "idle"
  <2>1. run[r].seen = config /\ content = config
      BY <1>5 DEF Carries
  <2>2. \A o \in Output : written'[o] = IF o = Current(r) THEN config ELSE written[o]
      BY <2>1 DEF Inv, TypeOK
  <2>3. CASE run[r].failed
    <3>1. run'[r].failed = run[r].failed
        BY <1>1, <1>3
    <3>2. run'[r].seen = config'
        BY <1>1, <1>3, <2>1
    <3>3. run'[r].failed
        BY <2>3, <3>1, Zenon
    <3>4. n.pc # "idle" /\ run'[r].pc # "fill"
        BY <1>1, <1>3
    <3> QED BY <3>2, <3>3, <3>4, Zenon DEF Carries
  <2>4. CASE ~run[r].failed
    <3>1. \A o \in Before(r) \cup {Current(r)} : WrittenNow(o)'
        BY <1>2, <1>5, <2>2, <2>4, BeforeNext DEF Carries, WrittenNow, Inv
    <3>2. CASE Last(r)
      <4>1. Output' = Output /\ \A o \in Output : WrittenNow(o)'
          BY <3>1, <3>2, BeforeNext DEF Inv, Output
      <4>2. Before(r)' = {}
          BY <1>1, <1>3, <3>2 DEF Before
      <4> QED BY <1>1, <1>3, <2>1, <3>2, <4>1, <4>2 DEF Carries
    <3>3. CASE ~Last(r)
      <4>1. Before(r)' = Before(r) \cup {Current(r)}
        <5>1. n.at - 1 = run[r].at
            BY <1>1, <1>2, <3>3
        <5> QED BY <1>3, <5>1, BeforeNext DEF Before, Inv
      <4> QED BY <1>1, <1>3, <2>1, <3>1, <3>3, <4>1 DEF Carries
    <3> QED BY <3>2, <3>3
  <2> QED BY <1>1, <1>2, <2>3, <2>4
<1> QED BY <1>1, <1>4, <1>5, RunStepInv DEF n, history, Quiet

LEMMA FillInv ==
    ASSUME Inv, NEW r \in Run, Fill(r) PROVE Inv'
<1>1. PICK content \in {run[r].seen} \cup
                   (IF written[Current(r)] \in {Torn, run[r].seen} THEN {} ELSE {Garbled}) :
          written' = [written EXCEPT ![Current(r)] = content]
    BY DEF Fill
<1>2. content \in {run[r].seen, Garbled}
    BY <1>1
<1>3. run[r].pc = "fill" /\ (Carries(r) => content = run[r].seen)
    BY <1>1 DEF Fill, Carries
<1> QED BY <1>1, <1>2, <1>3, WroteInv DEF Fill

LEMMA ReplaceTableInv ==
    ASSUME Inv, NEW r \in Run, ReplaceTable(r) PROVE Inv'
<1>1. run[r].seen \in {run[r].seen, Garbled}
    OBVIOUS
<1> QED BY <1>1, WroteInv DEF ReplaceTable

\* Outside a run: the history of a run that has not begun says nothing.
LEMMA EditInv ==
    ASSUME Inv, Edit PROVE Inv'
<1> USE ProjectionAssumption
<1>1. TypeOK'
    BY DEF Inv, TypeOK, Edit, Version, Content, Torn, Garbled, Output, Current, history
<1>2. FromTheFirst' /\ NoneBeside' /\ Carried'
    BY DEF Inv, Edit, FromTheFirst, NoneBeside, OneAtATime, Carried, history
<1> QED BY <1>1, <1>2 DEF Inv

LEMMA RestartInv ==
    ASSUME Inv, Restart PROVE Inv'
<1>1. TypeOK'
    BY DEF Inv, TypeOK, Restart, Version, Content, Torn, Garbled, Output, Current, history
<1>2. FromTheFirst' /\ NoneBeside'
    BY DEF Inv, Restart, FromTheFirst, NoneBeside, OneAtATime, history
<1>3. Carried'
  <2> SUFFICES ASSUME (Quiet /\ ~due)'
               PROVE  /\ \A r \in Run : Carries(r)'
                      /\ AllIdle' => \A o \in Output : WrittenNow(o)' /\ LoadedNow(o)'
      BY DEF Carried, Restart, Output
  <2>1. Quiet /\ ~due /\ Carried
      BY DEF Restart, history, Quiet, Inv
  <2>2. UNCHANGED <<script, config, written, run>> /\ loaded' = written
      BY DEF Restart
  <2>3. ASSUME NEW r \in Run PROVE Carries(r)'
    <3>1. Carries(r) /\ Before(r)' = Before(r) /\ Before(r) \subseteq Output /\ Output' = Output
        BY <2>1, <2>2, BeforeNext DEF Carried, Before, Output, Inv
    <3>2. Current(r)' = Current(r) /\ Torn' = Torn
        BY <2>2 DEF Current, Torn, Restart
    <3> QED BY <2>2, <3>1, <3>2 DEF Carries, WrittenNow, LoadedNow
  <2>4. AllIdle' => \A o \in Output : WrittenNow(o)' /\ LoadedNow(o)'
      BY <2>1, <2>2 DEF Carried, AllIdle, WrittenNow, LoadedNow
  <2> QED BY <2>3, <2>4
<1> QED BY <1>1, <1>2, <1>3 DEF Inv

\* A run that begins alone begins the history again; one that begins beside
\* another is remembered.
LEMMA StartInv ==
    ASSUME Inv, NEW r \in Run, Start(r) PROVE Inv'
<1> DEFINE n == [run[r] EXCEPT !.pc = "read"]
<1>1. /\ n \in Runs /\ n.pc = "read" /\ n.at = run[r].at /\ n.seen = run[r].seen
      /\ n.failed = run[r].failed
    BY RunTypes DEF Inv, Runs, Pc
<1>2. run[r].at = 1 /\ run[r].pc = "idle"
    BY DEF Start, Inv, FromTheFirst
<1>3. run' = [run EXCEPT ![r] = n]
    BY DEF Start, Inv, TypeOK
<1> HIDE DEF n
<1>4. \A q \in Run : run'[q] = IF q = r THEN n ELSE run[q]
    BY <1>3 DEF Inv, TypeOK
<1>5. UNCHANGED <<script, config, written, loaded>> /\ due' = FALSE
    BY DEF Start
<1>6. TypeOK'
  <2>1. run' \in [Run -> Runs]
      BY <1>1, <1>3 DEF Inv, TypeOK, Runs, Pc
  <2>2. \A q \in Run : /\ run'[q].at \in DOMAIN script'.outputs
                       /\ run'[q].seen \in 0 .. config'
                       /\ run'[q].pc = "fill" => Current(q)' \in script'.files
      BY <1>1, <1>4, <1>5 DEF Inv, TypeOK, Current
  <2>3. warned' \in BOOLEAN /\ unheard' \in BOOLEAN /\ mixed' \in BOOLEAN
      BY DEF Start, Inv, TypeOK
  <2> QED BY <1>5, <2>1, <2>2, <2>3 DEF Inv, TypeOK, Output, Version, Content, Torn, Garbled, Runs, Pc
<1>7. FromTheFirst'
    BY <1>1, <1>2, <1>4 DEF Inv, FromTheFirst
<1>8. NoneBeside'
    BY <1>4 DEF NoneBeside, OneAtATime, Start, AllIdle
<1>9. Carried'
  <2> SUFFICES ASSUME (Quiet /\ ~due)' PROVE (\A q \in Run : Carries(q))' /\ ~AllIdle'
      BY DEF Carried
  <2>1. AllIdle
      BY DEF Start, Quiet
  <2>2. \A q \in Run : run'[q].pc \in {"idle", "read"}
      BY <1>1, <1>4, <2>1 DEF AllIdle
  <2>3. \A q \in Run : run'[q].failed \in BOOLEAN
      BY <1>6 DEF TypeOK
  <2>4. ~AllIdle'
      BY <1>1, <1>4 DEF AllIdle
  <2> QED BY <2>2, <2>3, <2>4 DEF Carries
<1> QED BY <1>6, <1>7, <1>8, <1>9 DEF Inv

LEMMA ReadInv ==
    ASSUME Inv, NEW r \in Run, Read(r) PROVE Inv'
<1> DEFINE n == [run[r] EXCEPT !.pc = "write", !.seen = config]
<1>1. /\ n \in Runs /\ n.pc = "write" /\ n.at = run[r].at /\ n.seen = config
      /\ n.failed = run[r].failed
  <2>1. config \in Nat
      BY ProjectionAssumption DEF Inv, TypeOK, Version
  <2>2. run[r] \in Runs
      BY RunTypes DEF Inv
  <2> QED BY <2>1, <2>2 DEF Runs, Pc
<1>2. run' = [run EXCEPT ![r] = n] /\ run'[r] = n
    BY DEF Read, Inv, TypeOK
<1> HIDE DEF n
<1>3. run[r].pc = "read" /\ run[r].at = 1 /\ run[r].failed \in BOOLEAN
    BY RunTypes DEF Read, Inv, FromTheFirst
<1>4. n.seen \in 0 .. config /\ n.at \in DOMAIN script.outputs
    BY <1>1 DEF Inv, TypeOK, Version
<1>5. TypeOK'
  <2>1. UNCHANGED <<script, config, due, written, loaded, warned, unheard, mixed>>
      BY DEF Read, history
  <2> QED BY <1>1, <1>2, <1>4, <2>1, RunStepType DEF Inv, TypeOK
<1>6. Carries(r)'
  <2>1. Before(r)' = {}
      BY <1>1, <1>2, <1>3 DEF Before
  <2> QED BY <1>1, <1>2, <1>3, <2>1 DEF Carries, Read
<1> QED BY <1>1, <1>2, <1>3, <1>5, <1>6, RunStepInv DEF Read, history, Quiet

LEMMA TruncateInv ==
    ASSUME Inv, NEW r \in Run, Truncate(r) PROVE Inv'
<1> DEFINE n == [run[r] EXCEPT !.pc = "fill"]
<1>1. /\ n \in Runs /\ n.pc = "fill" /\ n.at = run[r].at /\ n.seen = run[r].seen
      /\ n.failed = run[r].failed
    BY RunTypes DEF Inv, Runs, Pc
<1>2. run' = [run EXCEPT ![r] = n] /\ run'[r] = n
    BY DEF Truncate, Inv, TypeOK
<1> HIDE DEF n
<1>3. /\ run[r].pc = "write" /\ Current(r) \in script.files
      /\ n.at \in DOMAIN script.outputs /\ n.seen \in 0 .. config
      /\ script.outputs[n.at] = Current(r)
    BY <1>1 DEF Truncate, Inv, TypeOK, Current
<1>4. TypeOK'
  <2>1. written' \in [Output -> Content]
      BY DEF Truncate, Inv, TypeOK, Content
  <2>2. UNCHANGED <<script, config, due, loaded, warned, unheard, mixed>>
      BY DEF Truncate, history
  <2>3. n.pc = "fill" => script.outputs[n.at] \in script.files
      BY <1>3
  <2> QED BY <1>1, <1>2, <1>3, <2>1, <2>2, <2>3, RunStepType DEF Inv, TypeOK
<1>5. ASSUME Carries(r) PROVE Carries(r)'
  <2>1. Before(r)' = Before(r) /\ \A o \in Before(r) : written'[o] = written[o]
      BY <1>1, <1>2, BeforeNext DEF Before, Truncate, Inv, TypeOK
  <2>2. written'[Current(r)] = Torn
      BY <1>3, RunTypes DEF Truncate, Inv, TypeOK
  <2>3. Current(r)' = Current(r) /\ Torn' = Torn
      BY <1>1, <1>2 DEF Current, Truncate, Torn
  <2> QED BY <1>1, <1>2, <1>3, <1>5, <2>1, <2>2, <2>3 DEF Carries, WrittenNow, Truncate
<1> QED BY <1>1, <1>2, <1>3, <1>4, <1>5, RunStepInv DEF Truncate, history, Quiet

\* A step after which the history is no longer quiet promises nothing of the run.
LEMMA LoudInv ==
    ASSUME Inv, NEW r \in Run, NEW n \in Runs,
           n.at \in DOMAIN script.outputs, n.seen \in 0 .. config, n.pc # "fill",
           n.pc \in {"idle", "read"} => n.at = 1,
           run[r].pc # "idle",
           run' = [run EXCEPT ![r] = n],
           UNCHANGED <<script, config, due, written, loaded, mixed>>,
           warned' \in BOOLEAN, unheard' \in BOOLEAN,
           ~Quiet'
    PROVE  Inv'
<1>1. /\ written' \in [Output -> Content]
      /\ loaded' \in [Output -> Content]
      /\ mixed' \in BOOLEAN
    BY DEF Inv, TypeOK
<1>2. TypeOK'
    BY <1>1, RunStepType DEF Inv
<1> QED BY <1>2, RunStepInv

\* NotRunning is one of Runs, at the first output.
LEMMA NotRunningTypes ==
    ASSUME TypeOK
    PROVE  /\ NotRunning \in Runs /\ NotRunning.at \in DOMAIN script.outputs
           /\ NotRunning.at = 1 /\ NotRunning.seen \in 0 .. config
           /\ NotRunning.pc = "idle"
<1>1. NotRunning \in Runs /\ NotRunning.at = 1 /\ NotRunning.seen = 0 /\ NotRunning.pc = "idle"
    BY DEF NotRunning, Runs, Pc
<1>2. 1 \in DOMAIN script.outputs /\ 0 \in 0 .. config
    BY Outputs, ProjectionAssumption DEF TypeOK, Version
<1> QED BY <1>1, <1>2

LEMMA FailWriteInv ==
    ASSUME Inv, NEW r \in Run, FailWrite(r) PROVE Inv'
<1>1. /\ run[r].pc \in {"write", "fill"}
      /\ UNCHANGED <<script, config, due, written, loaded, unheard, mixed>>
      /\ warned' = (warned \/ ~script.goesOn)
      /\ script.goesOn \in BOOLEAN
    BY Outputs DEF FailWrite, Inv
<1>2. CASE script.goesOn
  <2> DEFINE n == [NextOutput(r) EXCEPT !.failed = TRUE]
  <2>1. run' = [run EXCEPT ![r] = n]
      BY <1>2 DEF FailWrite
  <2>2. /\ n \in Runs /\ n.failed = TRUE /\ n.seen = run[r].seen
        /\ n.pc \in {"write", "load"} /\ n.at \in DOMAIN script.outputs
      BY NextOutputTypes DEF Inv, Runs
  <2> HIDE DEF n
  <2>3. run'[r] = n /\ run[r].seen \in 0 .. config /\ warned' = warned
      BY <1>1, <1>2, <2>1, RunTypes DEF Inv, TypeOK
  <2>4. TypeOK'
    <3>1. n.seen \in 0 .. config /\ (n.pc = "fill" => script.outputs[n.at] \in script.files)
        BY <2>2, <2>3
    <3>2. /\ written' \in [Output -> Content]
          /\ loaded' \in [Output -> Content]
          /\ warned' \in BOOLEAN /\ unheard' \in BOOLEAN /\ mixed' \in BOOLEAN
        BY <1>1, <2>3 DEF Inv, TypeOK
    <3> QED BY <1>1, <2>1, <2>2, <3>1, <3>2, RunStepType DEF Inv
  <2>5. ASSUME Carries(r) PROVE Carries(r)'
    <3>1. run[r].seen = config
        BY <1>1, <2>5 DEF Carries
    <3> QED BY <1>1, <2>2, <2>3, <3>1 DEF Carries
  <2> QED BY <1>1, <2>1, <2>2, <2>3, <2>4, <2>5, RunStepInv DEF Quiet
<1>3. CASE ~script.goesOn
  <2>1. run' = [run EXCEPT ![r] = NotRunning] /\ ~Quiet' /\ warned' = TRUE
      BY <1>1, <1>3 DEF FailWrite, Quiet
  <2>2. unheard' \in BOOLEAN
      BY <1>1 DEF Inv, TypeOK
  <2> QED BY <1>1, <2>1, <2>2, NotRunningTypes, LoudInv DEF Inv
<1> QED BY <1>1, <1>2, <1>3

\* The run after a reload, which a last one ends.
LEMMA ReloadedTypes ==
    ASSUME Inv, NEW r \in Run, Reloaded(r), run[r].pc = "load"
    PROVE  \E n \in Runs :
              /\ run' = [run EXCEPT ![r] = n] /\ run'[r] = n
              /\ n.at \in DOMAIN script.outputs /\ n.seen \in 0 .. config
              /\ \/ /\ Last(r) /\ n.pc = "idle" /\ n.at = 1
                    /\ warned' = (warned \/ run[r].failed)
                    /\ n = NotRunning
                 \/ /\ ~Last(r) /\ n.pc = "load" /\ n.at = run[r].at + 1
                    /\ n.seen = run[r].seen /\ n.failed = run[r].failed
                    /\ warned' = warned
<1>1. CASE Last(r)
    BY <1>1, NotRunningTypes DEF Reloaded, Inv, TypeOK
<1>2. CASE ~Last(r)
  <2> DEFINE n == [run[r] EXCEPT !.at = run[r].at + 1]
  <2>1. run' = [run EXCEPT ![r] = n] /\ run'[r] = n /\ warned' = warned
    <3>1. run' = [run EXCEPT ![r] = IF Last(r) THEN NotRunning ELSE n]
        BY DEF Reloaded
    <3>2. run' = [run EXCEPT ![r] = n]
        BY <1>2, <3>1, Zenon
    <3> HIDE DEF n
    <3>3. run'[r] = n
        BY <3>2 DEF Inv, TypeOK
    <3>4. warned' = (warned \/ (Last(r) /\ run[r].failed)) /\ warned \in BOOLEAN
        BY DEF Reloaded, Inv, TypeOK
    <3>5. warned' = warned
        BY <1>2, <3>4, Zenon
    <3> QED BY <3>2, <3>3, <3>5
  <2>2. run[r] \in Runs /\ run[r].at + 1 \in Nat
      BY RunTypes DEF Inv
  <2>3. /\ n \in Runs /\ n.pc = "load" /\ n.at = run[r].at + 1
        /\ n.seen = run[r].seen /\ n.failed = run[r].failed
      BY <2>2 DEF Runs
  <2> HIDE DEF n
  <2>4. n.at \in DOMAIN script.outputs /\ n.seen \in 0 .. config
      BY <1>2, <2>3, RunTypes, Outputs DEF Inv, Last
  <2> QED BY <1>2, <2>1, <2>3, <2>4
<1> QED BY <1>1, <1>2

LEMMA LoadInv ==
    ASSUME Inv, NEW r \in Run, Load(r) PROVE Inv'
<1>1. /\ run[r].pc = "load" /\ Reloaded(r)
      /\ loaded' = [loaded EXCEPT ![Current(r)] = written[Current(r)]]
      /\ UNCHANGED <<script, config, due, written, unheard, mixed>>
    BY DEF Load
<1>2. PICK n \in Runs :
              /\ run' = [run EXCEPT ![r] = n] /\ run'[r] = n
              /\ n.at \in DOMAIN script.outputs /\ n.seen \in 0 .. config
              /\ \/ /\ Last(r) /\ n.pc = "idle" /\ n.at = 1
                    /\ warned' = (warned \/ run[r].failed)
                    /\ n = NotRunning
                 \/ /\ ~Last(r) /\ n.pc = "load" /\ n.at = run[r].at + 1
                    /\ n.seen = run[r].seen /\ n.failed = run[r].failed
                    /\ warned' = warned
    BY <1>1, ReloadedTypes
<1>3. /\ Current(r) \in Output /\ Before(r) \subseteq Output /\ run[r].failed \in BOOLEAN
      /\ run[r].at \in Nat
    BY RunTypes, BeforeNext DEF Inv, Runs
<1>4. TypeOK'
  <2>1. /\ written' \in [Output -> Content]
        /\ loaded' \in [Output -> Content]
        /\ unheard' \in BOOLEAN /\ mixed' \in BOOLEAN
      BY <1>1, <1>3 DEF Inv, TypeOK
  <2>2. warned' \in BOOLEAN
      BY <1>2, <1>3 DEF Inv, TypeOK
  <2>3. n.pc # "fill"
      BY <1>2
  <2> QED BY <1>1, <1>2, <2>1, <2>2, <2>3, RunStepType DEF Inv
<1>5. Quiet' => Quiet
    BY <1>1, <1>2, <1>3 DEF Quiet, Inv, TypeOK
<1>6. ASSUME Quiet', Carries(r)
      PROVE  Carries(r)' /\ (n.pc = "idle" => \A o \in Output : WrittenNow(o)' /\ LoadedNow(o)')
  <2>1. \A o \in Output : loaded'[o] = IF o = Current(r) THEN written[o] ELSE loaded[o]
      BY <1>1, <1>3 DEF Inv, TypeOK
  <2>2. ASSUME ~run[r].failed
        PROVE  /\ \A o \in Output : WrittenNow(o)'
               /\ \A o \in Before(r) \cup {Current(r)} : LoadedNow(o)'
    <3>1. (\A o \in Output : WrittenNow(o)) /\ (\A o \in Before(r) : LoadedNow(o))
        BY <1>1, <1>6, <2>2 DEF Carries
    <3> QED BY <1>1, <1>3, <2>1, <3>1 DEF WrittenNow, LoadedNow
  <2>3. CASE Last(r)
    <3>1. ~run[r].failed /\ n.pc = "idle"
        BY <1>2, <1>6, <2>3 DEF Quiet
    <3>2. \A o \in Output : WrittenNow(o)' /\ LoadedNow(o)'
        BY <2>2, <2>3, <3>1, BeforeNext DEF Inv
    <3>3. Carries(r)'
        BY <1>2, <1>4, <3>1, RunTypes DEF Carries, TypeOK
    <3> QED BY <3>2, <3>3
  <2>4. CASE ~Last(r)
    <3>1. /\ run'[r].pc = "load" /\ run'[r].at - 1 = run[r].at
          /\ run'[r].seen = config' /\ run'[r].failed = run[r].failed
        BY <1>1, <1>2, <1>3, <1>6, <2>4 DEF Carries
    <3>2. Before(r)' = Before(r) \cup {Current(r)}
      <4>1. Before(r)' = {script.outputs[i] : i \in 1 .. run[r].at}
          BY <1>1, <3>1 DEF Before
      <4> QED BY <4>1, BeforeNext DEF Inv
    <3>3. Output' = Output
        BY <1>1 DEF Output
    <3>4. n.pc # "idle"
        BY <1>2, <2>4
    <3>5. CASE run[r].failed
        BY <3>1, <3>4, <3>5 DEF Carries
    <3>6. CASE ~run[r].failed
      <4>1. \A o \in Output' : WrittenNow(o)'
          BY <2>2, <3>3, <3>6
      <4>2. \A o \in Before(r)' : LoadedNow(o)'
          BY <2>2, <3>2, <3>6
      <4> QED BY <3>1, <3>4, <4>1, <4>2 DEF Carries
    <3> QED BY <1>3, <3>5, <3>6
  <2> QED BY <2>3, <2>4
<1>7. n.pc \in {"idle", "read"} => n.at = 1
    BY <1>2
<1> QED BY <1>1, <1>2, <1>4, <1>5, <1>6, <1>7, RunStepInv

LEMMA FailLoadInv ==
    ASSUME Inv, NEW r \in Run, FailLoad(r) PROVE Inv'
<1>1. /\ run[r].pc = "load" /\ Reloaded(r)
      /\ unheard' = TRUE /\ ~Quiet'
      /\ UNCHANGED <<script, config, due, written, loaded, mixed>>
    BY DEF FailLoad, Quiet
<1>2. PICK n \in Runs :
              /\ run' = [run EXCEPT ![r] = n] /\ run'[r] = n
              /\ n.at \in DOMAIN script.outputs /\ n.seen \in 0 .. config
              /\ \/ /\ Last(r) /\ n.pc = "idle" /\ n.at = 1
                    /\ warned' = (warned \/ run[r].failed)
                    /\ n = NotRunning
                 \/ /\ ~Last(r) /\ n.pc = "load" /\ n.at = run[r].at + 1
                    /\ n.seen = run[r].seen /\ n.failed = run[r].failed
                    /\ warned' = warned
    BY <1>1, ReloadedTypes
<1>3. warned' \in BOOLEAN
    BY <1>2, RunTypes DEF Inv, TypeOK
<1>4. n.pc # "fill" /\ (n.pc \in {"idle", "read"} => n.at = 1)
    BY <1>2
<1> QED BY <1>1, <1>2, <1>3, <1>4, LoudInv

LEMMA DieInv ==
    ASSUME Inv, NEW r \in Run, Die(r) PROVE Inv'
<1>1. /\ run[r].pc # "idle" /\ run' = [run EXCEPT ![r] = NotRunning]
      /\ warned' = TRUE /\ ~Quiet'
      /\ UNCHANGED <<script, config, due, written, loaded, unheard, mixed>>
    BY DEF Die, Quiet
<1>2. unheard' \in BOOLEAN
    BY <1>1 DEF Inv, TypeOK
<1> QED BY <1>1, <1>2, NotRunningTypes, LoudInv DEF Inv

LEMMA NextInv == Inv /\ [Next]_vars => Inv'
<1> SUFFICES ASSUME Inv, [Next]_vars PROVE Inv'
    OBVIOUS
<1>1. CASE UNCHANGED vars
    BY <1>1 DEF vars, history, Inv, TypeOK, Output, Version, Content, Torn, Garbled, Current, FromTheFirst,
             NoneBeside, OneAtATime, Carried, Quiet, Carries, AllIdle, Before, WrittenNow,
             LoadedNow
<1>2. CASE Edit \/ Restart
    BY <1>2, EditInv, RestartInv
<1>3. ASSUME NEW r \in Run, Start(r) \/ FailWrite(r) \/ FailLoad(r) \/ Die(r) PROVE Inv'
    BY <1>3, StartInv, FailWriteInv, FailLoadInv, DieInv
<1>4. ASSUME NEW r \in Run, RunStep(r) PROVE Inv'
    BY <1>4, ReadInv, TruncateInv, FillInv, ReplaceTableInv, LoadInv DEF RunStep
<1> QED BY <1>1, <1>2, <1>3, <1>4 DEF Next

LEMMA SpecInv == Spec => []Inv
BY InitInv, NextInv, PTL DEF Spec

\* A run stays within its outputs and has never read a version that is still to come.
THEOREM ProjectionTypeOK == Spec => []TypeOK
<1>1. Inv => TypeOK
    BY DEF Inv
<1> QED BY <1>1, SpecInv, PTL

\* Whatever the script's outputs, and whatever failed, died or restarted before: a
\* run that began alone after the last edit, and met no other, either has brought
\* the edit to Kamailio, whole, when it ends, or ends with an error, or was not heard.
THEOREM EditsAlwaysReach == Spec => []EditsReachKamailio
<1>1. Inv => EditsReachKamailio
    BY DEF Inv, Carried, Quiet, EditsReachKamailio, LoadedNow
<1> QED BY <1>1, SpecInv, PTL
=============================================================================
