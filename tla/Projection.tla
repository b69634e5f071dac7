----------------------------- MODULE Projection -----------------------------
(***************************************************************************)
(* The scripts that copy the database into Kamailio's memory: routes and   *)
(* carriers (gen_dispatcher.py, a file and a table) and the prefixes of    *)
(* prepaid customers with no balance left (sync_balance_block.py, a        *)
(* table).  Each behaviour is of one of them: they share no output.        *)
(*                                                                         *)
(* A run reads everything in one snapshot, replaces its outputs one by one *)
(* and asks Kamailio to load each.  Cron starts runs, and so does an edit  *)
(* of the console; nothing makes them take turns.  What matters of the     *)
(* contents is which version of the database they are of.                  *)
(***************************************************************************)
EXTENDS Naturals, Sequences, Functions

CONSTANTS
    Run,         \* the runs there may be at a time
    Script,      \* the scripts, each a record:
                 \*   outputs: the outputs, in the order it writes them
                 \*   files: those that are files, which may be half written
                 \*   goesOn: whether it goes on after an output that fails
    Crossed,     \* versions in which two customers have the same prefix
    MaxEdits,    \* bound: edits of the database
    MaxFailures, \* bound: writes and reloads that fail, runs that die
    MaxRestarts  \* bound: restarts of Kamailio

OutputsOf(s) == Range(s.outputs)

ASSUME ProjectionAssumption ==
    /\ \A s \in Script :
          /\ s.outputs \in Seq(OutputsOf(s)) \ {<<>>}
          /\ IsInjective(s.outputs)
          /\ s.files \subseteq OutputsOf(s)
          /\ s.goesOn \in BOOLEAN
    /\ Crossed \subseteq Nat
    /\ MaxEdits \in Nat /\ MaxFailures \in Nat /\ MaxRestarts \in Nat

VARIABLES
    script,  \* the script
    config,  \* the version of the database
    due,     \* whether no run has begun since the last edit
    written, \* the version in each file or table
    loaded,  \* the version in Kamailio's memory
    run,     \* what each run does
    warned,  \* history: since a run last began alone, one has ended with an error
    unheard, \* history: since then, Kamailio has not answered a reload
    mixed,   \* history: since then, another run has begun beside it
    failures, restarts

history == <<warned, unheard, mixed>>
vars == <<script, config, due, written, loaded, run, history, failures, restarts>>

Output == OutputsOf(script)
Version == 0 .. MaxEdits
Torn == MaxEdits + 1    \* what a file that is half written holds
Garbled == MaxEdits + 2 \* what two runs that wrote over each other leave
Content == Version \cup {Torn, Garbled}

NotRunning == [pc |-> "idle", at |-> 1, seen |-> 0, failed |-> FALSE]

Init ==
    /\ script \in Script
    /\ config = 0
    /\ due = FALSE
    /\ written = [o \in Output |-> 0]
    /\ loaded = [o \in Output |-> 0]
    /\ run = [r \in Run |-> NotRunning]
    /\ warned = FALSE /\ unheard = FALSE /\ mixed = FALSE
    /\ failures = 0
    /\ restarts = 0

----------------------------------------------------------------------------
AllIdle == \A r \in Run : run[r].pc = "idle"

\* An edit of a customer, a group or a carrier, or a change of a balance.
Edit ==
    /\ config < MaxEdits
    /\ config' = config + 1
    /\ due' = TRUE
    /\ UNCHANGED <<script, written, loaded, run, history, failures, restarts>>

\* The run of cron or, for the routes, the one that run_sync starts for an edit
\* without waiting for any other.
Start(r) ==
    /\ run[r].pc = "idle"
    /\ due' = FALSE
    /\ run' = [run EXCEPT ![r].pc = "read"]
    /\ IF AllIdle THEN warned' = FALSE /\ unheard' = FALSE /\ mixed' = FALSE
                  ELSE mixed' = TRUE /\ UNCHANGED <<warned, unheard>>
    /\ UNCHANGED <<script, config, written, loaded, failures, restarts>>

\* Mutant: a run that finds its outputs as it would write them ends there.
ReadIfChanged(r) ==
    /\ run[r].pc = "read"
    /\ run' = [run EXCEPT ![r] = IF \A o \in Output : written[o] = config
                                THEN NotRunning
                                ELSE [@ EXCEPT !.pc = "write", !.seen = config]]
    /\ UNCHANGED <<script, config, due, written, loaded, history, failures, restarts>>

\* The SELECTs, in one transaction.
Read(r) ==
    /\ run[r].pc = "read"
    /\ run' = [run EXCEPT ![r] = [@ EXCEPT !.pc = "write", !.seen = config]]
    /\ UNCHANGED <<script, config, due, written, loaded, history, failures, restarts>>

Current(r) == script.outputs[run[r].at]
Last(r) == run[r].at = Len(script.outputs)

\* write_text opens the file, which empties it.
Truncate(r) ==
    /\ run[r].pc = "write" /\ Current(r) \in script.files
    /\ written' = [written EXCEPT ![Current(r)] = Torn]
    /\ run' = [run EXCEPT ![r].pc = "fill"]
    /\ UNCHANGED <<script, config, due, loaded, history, failures, restarts>>

\* Mutant: the step after the last output is another output.
NextOutputPast(r) ==
    [run[r] EXCEPT !.pc = IF run[r].at > Len(script.outputs) THEN "load" ELSE "write",
                   !.at = IF run[r].at > Len(script.outputs) THEN 1 ELSE @ + 1]

\* The run after an output: the next one, or the reloads.
NextOutput(r) ==
    [pc |-> IF Last(r) THEN "load" ELSE "write",
     at |-> IF Last(r) THEN 1 ELSE run[r].at + 1,
     seen |-> run[r].seen,
     failed |-> run[r].failed]

\* write_text writes from the start of the file: when another run has filled it
\* meanwhile with something longer, the end of that is left behind.
Fill(r) ==
    /\ run[r].pc = "fill"
    /\ \E content \in {run[r].seen} \cup
             (IF written[Current(r)] \in {Torn, run[r].seen} THEN {} ELSE {Garbled}) :
          written' = [written EXCEPT ![Current(r)] = content]
    /\ run' = [run EXCEPT ![r] = NextOutput(r)]
    /\ UNCHANGED <<script, config, due, loaded, history, failures, restarts>>

\* DELETE and INSERTs, in one transaction, for which other runs wait.  The key
\* of the table is the prefix, and unique.
ReplaceTable(r) ==
    /\ run[r].pc = "write" /\ Current(r) \notin script.files
    /\ run[r].seen \notin Crossed
    /\ written' = [written EXCEPT ![Current(r)] = run[r].seen]
    /\ run' = [run EXCEPT ![r] = NextOutput(r)]
    /\ UNCHANGED <<script, config, due, loaded, history, failures, restarts>>

Fails == failures < MaxFailures /\ failures' = failures + 1

\* Mutant: an output that cannot be written is not remembered.
FailWriteForgotten(r) ==
    /\ run[r].pc \in {"write", "fill"}
    /\ \/ Fails
       \/ Current(r) \notin script.files /\ run[r].seen \in Crossed /\ UNCHANGED failures
    /\ run' = [run EXCEPT ![r] = IF script.goesOn THEN NextOutput(r) ELSE NotRunning]
    /\ UNCHANGED <<script, config, due, written, loaded, history, restarts>>

\* An output cannot be written: gen_dispatcher.py goes on with the next one, and
\* will exit with an error; sync_balance_block.py exits.
FailWrite(r) ==
    /\ run[r].pc \in {"write", "fill"}
    /\ \/ Fails
       \/ Current(r) \notin script.files /\ run[r].seen \in Crossed /\ UNCHANGED failures
    /\ run' = [run EXCEPT ![r] = IF script.goesOn
                                THEN [NextOutput(r) EXCEPT !.failed = TRUE]
                                ELSE NotRunning]
    /\ warned' = (warned \/ ~script.goesOn)
    /\ UNCHANGED <<script, config, due, written, loaded, unheard, mixed, restarts>>

\* The run after a reload: the next one, or the exit, with its code.
Reloaded(r) ==
    /\ run' = [run EXCEPT ![r] = IF Last(r) THEN NotRunning
                                ELSE [run[r] EXCEPT !.at = run[r].at + 1]]
    /\ warned' = (warned \/ (Last(r) /\ run[r].failed))

\* kamcmd dispatcher.reload, kamcmd htable.reload
Load(r) ==
    /\ run[r].pc = "load"
    /\ loaded' = [loaded EXCEPT ![Current(r)] = written[Current(r)]]
    /\ Reloaded(r)
    /\ UNCHANGED <<script, config, due, written, unheard, mixed, failures, restarts>>

\* kamcmd fails, or does not answer in ten seconds: it is printed, and the exit
\* code is the one it would have been.
FailLoad(r) ==
    /\ run[r].pc = "load"
    /\ Fails
    /\ Reloaded(r)
    /\ unheard' = TRUE
    /\ UNCHANGED <<script, config, due, written, loaded, mixed, restarts>>

\* The run is killed, or loses its connection.
Die(r) ==
    /\ run[r].pc # "idle"
    /\ Fails
    /\ run' = [run EXCEPT ![r] = NotRunning]
    /\ warned' = TRUE
    /\ UNCHANGED <<script, config, due, written, loaded, unheard, mixed, restarts>>

\* Kamailio restarts and loads what there is.
Restart ==
    /\ restarts < MaxRestarts
    /\ restarts' = restarts + 1
    /\ loaded' = written
    /\ UNCHANGED <<script, config, due, written, run, history, failures>>

RunStep(r) == Read(r) \/ Truncate(r) \/ Fill(r) \/ ReplaceTable(r) \/ Load(r)

Next ==
    \/ Edit \/ Restart
    \/ \E r \in Run : Start(r) \/ RunStep(r) \/ FailWrite(r) \/ FailLoad(r) \/ Die(r)

Spec == Init /\ [][Next]_vars

\* Cron starts runs for ever, and a run that is not killed ends, with an error
\* when a table does not take its rows.
FairSpec ==
    /\ Spec
    /\ WF_vars(\E r \in Run : Start(r))
    /\ \A r \in Run : WF_vars(RunStep(r) \/ (run[r].seen \in Crossed /\ FailWrite(r)))

----------------------------------------------------------------------------
TypeOK ==
    /\ script \in Script
    /\ config \in Version
    /\ written \in [Output -> Content]
    /\ loaded \in [Output -> Content]
    /\ run \in [Run -> [pc : {"idle", "read", "write", "fill", "load"}, at : Nat,
                        seen : Nat, failed : BOOLEAN]]
    /\ \A r \in Run :
          /\ run[r].at \in DOMAIN script.outputs
          /\ run[r].seen \in 0 .. config
          /\ run[r].pc = "fill" => Current(r) \in script.files
    /\ due \in BOOLEAN
    /\ warned \in BOOLEAN /\ unheard \in BOOLEAN /\ mixed \in BOOLEAN

\* When the runs have ended, a run that began alone after the last edit has
\* brought it to Kamailio, through its carriers and through its prefixes,
\* whatever died or failed before it and however Kamailio restarted, unless a run has
\* since ended with an error, been unheard or met another.  The first is
\* logged by run_sync; nobody is told of the other two.
EditsReachKamailio ==
    (AllIdle /\ ~due /\ ~warned /\ ~unheard /\ ~mixed) => \A o \in Output : loaded[o] = config

OneAtATime == \A q, r \in Run : run[q].pc = "idle" \/ run[r].pc = "idle" \/ q = r

\* Whatever failed, died or overlapped, Kamailio ends with the database as it is
\* once nobody edits it and runs no longer meet, if no two customers have
\* the same prefix: a customer who has paid is unblocked in the end.
ReachesKamailio ==
    \A v \in Version \ Crossed :
        <>[](config = v /\ OneAtATime) => <>[](\A o \in Output : loaded[o] = v)
=============================================================================
