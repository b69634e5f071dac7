------------------------------ MODULE Console ------------------------------
(***************************************************************************)
(* A page of the web console, as React runs it.  Its handlers are async    *)
(* functions: between two awaits the user goes on changing filters, opening*)
(* and cancelling forms and pressing buttons, timers fire, and answers land*)
(* in any order.  A handler keeps, to its end, the values that the controls*)
(* had in the render in which it started.                                  *)
(*                                                                         *)
(* The backend is a counter of applied writes for each thing the page can  *)
(* ask for, so that an answer tells how much it knows.                     *)
(***************************************************************************)
EXTENDS PageKinds, FiniteSets, SequencesExt

CONSTANTS
    Pages,       \* the pages, as described in the modules of each area
    Control,     \* the values of a control; 1 is the one it starts with
    Row,         \* the rows of a table
    MaxActs,     \* bound: what the user does on a page
    DeepPages,   \* pages on which the user does one thing more
    MaxFailures, \* bound: requests refused or lost
    MaxInFlight  \* bound: requests under way when the user adds one, or a timer
                 \* one more to those of its load

ASSUME PagesAssumption ==
    \A p \in Pages :
        /\ p.loads \subseteq LoadKind
        /\ p.ops \subseteq WriteKind
        /\ \A o, q \in p.ops : o.flag # "" /\ o.flag = q.flag => o.slot = q.slot
        /\ LET names == {l.name : l \in p.loads}
           IN  /\ "" \notin names
               /\ \A o \in p.ops :
                     /\ o.assumes \subseteq names
                     /\ o.tells \in names \cup {""}
                     /\ o.reloads \in Seq(names)

\* The loads that the page starts with.
Mounted(p) == {l.name : l \in {m \in p.loads : "mount" \in m.starts}}

\* A detail that takes the place of its list: it is chosen there and closed, and
\* no handler has a hand in it.
Detail(p, l) ==
    /\ l.covers /\ l.starts \subseteq {"filter", "close"}
    /\ ~l.busy /\ ~l.selecting /\ l.resets # l.name
    /\ \A m \in p.loads : m.name = l.name => m = l
    /\ \A o \in p.ops :
          l.name \notin o.assumes \cup {o.tells, o.drops, o.reselects} \cup ToSet(o.reloads)

\* An effect with a cleanup fills such a detail.
ASSUME GuardAssumption == \A p \in Pages : \A l \in p.loads : l.guarded => Detail(p, l)

ASSUME ControlAssumption == Control \subseteq Nat \ {0} /\ Row \subseteq Nat \ {0}
ASSUME StartAssumption == 1 \in Control /\ 1 \in Row
ASSUME BoundAssumption ==
    MaxActs \in Nat /\ DeepPages \subseteq STRING /\ MaxFailures \in Nat /\ MaxInFlight \in Nat

VARIABLES
    page,     \* the page that is open
    wanted,   \* the value of the control of each load; 0 while nothing is chosen
    shown,    \* what each load last put on the screen
    server,   \* how many writes the backend has applied to each load's data
    flag,     \* the state variables that disable buttons; 0 is free
    loading,  \* the loads whose button is disabled for now
    open,     \* the open instance of each form; 0 is closed
    reqs,     \* the requests under way, with the handler that awaits them
    blurred,  \* history: loads whose last answer is not known to be the latest
    acts, failures

vars == <<page, wanted, shown, server, flag, loading, open, reqs, blurred, acts,
          failures>>

----------------------------------------------------------------------------
LoadNames == {l.name : l \in page.loads}
Flags == {o.flag : o \in page.ops} \ {""}
Forms == {o.form : o \in page.ops} \ {""}
Spinners == {l.name : l \in {m \in page.loads : m.busy}}

\* The handler of a plain load: it holds no flag and has nothing to reload.
Reading == Run("")

\* A request and its handler: the write, or the load it is at (fetch), which of
\* its reloads that is (at), and the controls when it started (keys).
Request(id, op, row, form, fetch, at, keys) ==
    [id |-> id, op |-> op, row |-> row, form |-> form, fetch |-> fetch,
     at |-> at, keys |-> keys, phase |-> "sent", ver |-> 0]

Fetch(n, key) ==
    Request(0, Reading, 1, 0, n, 0, [x \in LoadNames |-> IF x = n THEN key ELSE 0])

Step(r, phase, ver) ==
    [id |-> r.id, op |-> r.op, row |-> r.row, form |-> r.form, fetch |-> r.fetch,
     at |-> r.at, keys |-> r.keys, phase |-> phase, ver |-> ver]

\* The request for the next page of n.  Its handler puts the answer after the list
\* of the render in which it started, of which it keeps the version.
NextPage(n) == Step(Fetch(n, 0), "sent", shown[n].ver)

Adds(r) == r.fetch # "" /\ r.keys[r.fetch] = 0

\* The row whose detail is open is whatever the last answer was about.
Selects(n) == \E l \in page.loads : l.name = n /\ l.selecting

\* The answer of r is about what is shown of n.
IsAbout(r, n) == r.fetch = n \/ (r.fetch = "" /\ n \in r.op.assumes \cup {r.op.tells})

\* The answer of a load n sent now may not be the last word on it: it asks
\* for another value of the control, or something else may land after it.
Uncertain(n, key, want, others) ==
    \/ key # want[n] /\ ~Selects(n)
    \/ \E r \in others : IsAbout(r, n)

\* A load sent with nothing else under way settles its data again.
Blurred(ns, keys, want, others) ==
    (blurred \ ns) \cup {n \in ns : Uncertain(n, keys[n], want, others)}

Nothing == [key |-> 0, ver |-> 0]

Init ==
    /\ page \in Pages
    /\ wanted = [n \in LoadNames |-> IF n \in Mounted(page) THEN 1 ELSE 0]
    /\ shown = [n \in LoadNames |-> Nothing]
    /\ server = [n \in LoadNames |-> 0]
    /\ flag = [f \in Flags |-> 0]
    /\ loading = Mounted(page) \cap Spinners
    /\ open = [f \in Forms |-> 0]
    /\ reqs = {Fetch(n, 1) : n \in Mounted(page)}
    /\ blurred = {}
    /\ acts = 0
    /\ failures = 0

----------------------------------------------------------------------------
(* The user and the timers.                                                *)

Room == Cardinality(reqs) < MaxInFlight
Patience == IF page.name \in DeepPages THEN MaxActs + 1 ELSE MaxActs

Acts == acts < Patience /\ acts' = acts + 1

\* Mutant: the effect has no cleanup.
NoneCancelled(ns) == reqs

\* The requests left once the cleanup of a guarded effect of ns has run.
Uncancelled(ns) ==
    reqs \ {r \in reqs : \E l \in page.loads : l.guarded /\ l.name \in ns /\ l.name = r.fetch}

\* The page asks for load l with this value of its control, which becomes value.
Ask(l, key, value) ==
    LET others == Uncancelled({l.name, l.resets})
        sent   == Fetch(l.name, key)
    IN  /\ Room
        /\ l.under \in {""} \cup {n \in LoadNames : shown[n].key # 0}
        /\ wanted' = [n \in LoadNames |-> IF n = l.resets THEN 0
                                        ELSE IF n = l.name /\ ~l.selecting THEN value
                                        ELSE wanted[n]]
        /\ shown' = [n \in LoadNames |-> IF n = l.resets THEN Nothing ELSE shown[n]]
        /\ open' = [f \in Forms |-> IF f = l.resets THEN 0 ELSE open[f]]
        /\ reqs' = others \cup {sent}
        /\ loading' = loading \cup ({l.name} \cap Spinners)
        /\ blurred' = Blurred({l.name}, sent.keys, wanted', others)

\* useEffect(() => { load() }, [control])
ChangeControl(l) ==
    /\ "filter" \in l.starts
    /\ l.covers => wanted[l.name] = 0
    /\ Acts
    /\ \E key \in Control \ {wanted[l.name]} : Ask(l, key, key)
    /\ UNCHANGED <<page, server, flag, failures>>

\* A button that loads, with what the controls say by then.
Click(l) ==
    /\ "click" \in l.starts
    /\ l.name \notin loading
    /\ Acts
    /\ \E key \in (IF l.keyed THEN Control ELSE {1}) : Ask(l, key, key)
    /\ UNCHANGED <<page, server, flag, failures>>

\* setDateFrom(''); load(0): the load still sees the control before the change.
Clear(l) ==
    /\ "clear" \in l.starts
    /\ Acts
    /\ Ask(l, wanted[l.name], 1)
    /\ UNCHANGED <<page, server, flag, failures>>

\* loadBalanceTx(false): the next page, put after what is shown, settles nothing of
\* what was there.
More(l) ==
    /\ "more" \in l.starts
    /\ shown[l.name].key # 0
    /\ l.name \notin loading
    /\ Room
    /\ Acts
    /\ reqs' = reqs \cup {NextPage(l.name)}
    /\ loading' = loading \cup ({l.name} \cap Spinners)
    /\ blurred' = blurred \cup {n \in {l.name} : \E r \in reqs : IsAbout(r, n)}
    /\ UNCHANGED <<page, wanted, shown, server, flag, open, failures>>

\* A timer asks for it again and again.
Timed(l) == l.starts \cap {"poll", "live", "tail"} # {}

\* Mutant: every timer calls the closure of the first render.
PollFrozen(l) ==
    LET sent == Fetch(l.name, 1)
    IN  /\ Timed(l)
        /\ Room \/ ~\E r \in reqs : r.fetch = l.name
        /\ wanted[l.name] # 0
        /\ sent \notin reqs
        /\ reqs' = reqs \cup {sent}
        /\ loading' = loading \cup ({l.name} \cap Spinners)
        /\ blurred' = Blurred({l.name}, [n \in LoadNames |-> 1], wanted, reqs)
        /\ UNCHANGED <<page, wanted, shown, server, flag, open, acts, failures>>

\* setInterval(load): a frozen one asks with the first value of the control, and
\* a tail for what comes after what it has, which mends nothing of that.
Poll(l) ==
    LET key  == IF l.frozen THEN 1 ELSE wanted[l.name]
        sent == Fetch(l.name, key)
    IN  /\ Timed(l)
        /\ Room \/ ~\E r \in reqs : r.fetch = l.name
        /\ wanted[l.name] # 0
        /\ sent \notin reqs
        /\ reqs' = reqs \cup {sent}
        /\ loading' = loading \cup ({l.name} \cap Spinners)
        /\ blurred' = Blurred({l.name}, [n \in LoadNames |-> key], wanted, reqs)
                        \cup (IF "tail" \in l.starts THEN blurred ELSE {})
        /\ UNCHANGED <<page, wanted, shown, server, flag, open, acts, failures>>

\* The button that goes back from a detail to its list.
Close(l) ==
    /\ "close" \in l.starts
    /\ wanted[l.name] # 0
    /\ wanted' = [wanted EXCEPT ![l.name] = 0]
    /\ shown' = [shown EXCEPT ![l.name] = Nothing]
    /\ reqs' = Uncancelled({l.name})
    /\ UNCHANGED <<page, server, flag, loading, open, blurred, acts, failures>>

OpenForm(f) ==
    /\ open[f] = 0
    /\ Acts
    /\ open' = [open EXCEPT ![f] = acts']
    /\ UNCHANGED <<page, wanted, shown, server, flag, loading, reqs, blurred, failures>>

LocksForm(f) == \E o \in page.ops : o.form = f /\ o.locked /\ flag[o.flag] # 0

Cancel(f) ==
    /\ open[f] # 0
    /\ ~LocksForm(f)
    /\ open' = [open EXCEPT ![f] = 0]
    /\ UNCHANGED <<page, wanted, shown, server, flag, loading, reqs, blurred, acts, failures>>

\* Mutant: no button is disabled while its handler runs.
OfferedAlways(o, row) ==
    /\ o.form \in {""} \cup {f \in Forms : open[f] # 0}
    /\ o.within \in {""} \cup {n \in LoadNames : wanted[n] # 0}

\* The button is there and is not disabled.
Offered(o, row) ==
    /\ o.flag \in {""} \cup {f \in Flags : IF o.slot THEN flag[f] # row ELSE flag[f] = 0}
    /\ o.form \in {""} \cup {f \in Forms : open[f] # 0}
    /\ o.within \in {""} \cup {n \in LoadNames : wanted[n] # 0}

\* What the controls say when the handler of o starts.
Captured(o) ==
    [n \in LoadNames |-> IF o.defaults /\ n \in ToSet(o.reloads) /\ wanted[n] # 0
                           THEN 1 ELSE wanted[n]]

\* The handler up to its first await.
Submit(o, row) ==
    /\ Room
    /\ Offered(o, row)
    /\ Acts
    /\ flag' = [f \in Flags |-> IF f = o.flag THEN row ELSE flag[f]]
    /\ shown' = [n \in LoadNames |->
                    IF n \in o.assumes THEN [key |-> shown[n].key, ver |-> shown[n].ver + 1]
                    ELSE shown[n]]
    /\ reqs' = reqs \cup
          {Request(acts', o, row, IF o.form = "" THEN 0 ELSE open[o.form], "", 0, Captured(o))}
    /\ blurred' = blurred \cup {n \in o.assumes : \E r \in reqs : r.fetch = n}
    /\ UNCHANGED <<page, wanted, server, loading, open, failures>>

----------------------------------------------------------------------------
(* The backend.                                                            *)

\* The backend handles a request.
Serve(r) ==
    /\ r.phase = "sent"
    /\ IF r.fetch = ""
         THEN /\ server' = [n \in LoadNames |->
                               IF n \in r.op.touches THEN server[n] + 1 ELSE server[n]]
              /\ reqs' = (reqs \ {r}) \cup {Step(r, "done", IF r.op.tells = "" THEN 0
                                                        ELSE server[r.op.tells] + 1)}
         ELSE /\ reqs' = (reqs \ {r}) \cup {Step(r, "done", IF Adds(r) THEN r.ver
                                                        ELSE server[r.fetch])}
              /\ UNCHANGED server
    /\ UNCHANGED <<page, wanted, shown, flag, loading, open, blurred, acts, failures>>

Fails == failures < MaxFailures /\ failures' = failures + 1

\* The backend answers with an error and has changed nothing, or a read is lost.
Refuse(r) ==
    /\ r.phase = "sent"
    /\ Fails
    /\ reqs' = (reqs \ {r}) \cup {Step(r, "refused", 0)}
    /\ UNCHANGED <<page, wanted, shown, server, flag, loading, open, blurred, acts>>

----------------------------------------------------------------------------
(* The handler goes on after its await.                                    *)

\* finally { setFlag(free) }
Released(o) == [f \in Flags |-> IF f = o.flag THEN 0 ELSE flag[f]]


\* Which of its reloads the handler of r has still to ask for.  A detail that
\* was not open is not reloaded.
Reloads(r) == {i \in DOMAIN r.op.reloads : i > r.at /\ r.keys[r.op.reloads[i]] # 0}

\* The row that the answer of r selects: setDetail(answer).
SelectedBy(r) ==
    {n \in {r.fetch} \cap LoadNames : Selects(n) /\ r.phase = "done"}
    \cup {n \in {r.op.reselects} \cap LoadNames :
            r.fetch # "" /\ Reloads(r) = {} /\ r.phase = "done"}

\* Mutant: what was assumed is taken back although an answer has replaced it.
TakenBackAny(r) == {n \in r.op.assumes : r.op.undone}

\* The assumed values that the catch of the handler of r takes back.
TakenBack(r) == {n \in r.op.assumes : r.op.undone /\ shown[n].ver > 0}

Undo(ns) ==
    [n \in LoadNames |->
        IF n \in ns THEN [key |-> shown[n].key, ver |-> shown[n].ver - 1] ELSE shown[n]]

\* What the step of r leaves uncertain: a load that failed, with what its
\* handler had assumed; and what it told, selected again or closed while
\* another answer, perhaps about something else, is still to come.
Crossed(r) ==
    (IF r.fetch # "" /\ r.phase = "refused" THEN {n \in {r.fetch} : ~Adds(r)} \cup TakenBack(r)
     ELSE {})
    \cup {n \in SelectedBy(r) : r.keys[n] # wanted[n] /\ ~Selects(n)}
    \cup {n \in {r.op.drops, r.op.tells} \cap LoadNames : \E s \in reqs \ {r} : IsAbout(s, n)}

\* The handler of r awaits its i-th reload.
Continue(r, i) ==
    LET others == reqs \ {r}
        n      == r.op.reloads[i]
    IN  /\ reqs' = others \cup {Request(r.id, r.op, r.row, r.form, n, i, r.keys)}
        /\ loading' = (loading \ {r.fetch}) \cup ({n} \cap Spinners)
        /\ blurred' = Blurred({n}, r.keys, wanted, others) \cup Crossed(r)
        /\ UNCHANGED flag

\* Mutant: a load that fails leaves its button disabled.
EndNoFinally(r, ns) ==
    LET others == reqs \ {r}
    IN  /\ reqs' = others \cup {Fetch(n, r.keys[n]) : n \in ns}
        /\ loading' = (IF r.phase = "refused" THEN loading ELSE loading \ {r.fetch})
                        \cup (ns \cap Spinners)
        /\ blurred' = Blurred(ns, r.keys, wanted, others) \cup Crossed(r)
        /\ flag' = Released(r.op)

\* The handler of r starts the loads of ns, awaits none of them, and ends.
End(r, ns) ==
    LET others == reqs \ {r}
    IN  /\ reqs' = others \cup {Fetch(n, r.keys[n]) : n \in ns}
        /\ loading' = (loading \ {r.fetch}) \cup (ns \cap Spinners)
        /\ blurred' = Blurred(ns, r.keys, wanted, others) \cup Crossed(r)
        /\ flag' = Released(r.op)

\* What the page shows of a load when r lands.
Answer(r) == [key |-> IF Adds(r) THEN shown[r.fetch].key ELSE r.keys[r.fetch], ver |-> r.ver]

\* The page shows the answer of a load, and closes what a write has done with:
\* setRows(answer), setShowForm(false), setDetail(null).
Shows(r, closes) ==
    /\ open' = [f \in Forms |-> IF closes /\ f = r.op.form THEN 0 ELSE open[f]]
    /\ wanted' = [n \in LoadNames |->
                    IF closes /\ n = r.op.drops THEN 0
                    ELSE IF n \in SelectedBy(r) THEN r.keys[n] ELSE wanted[n]]
    /\ shown' = [n \in LoadNames |->
                    IF closes /\ n = r.op.drops THEN Nothing
                    ELSE IF n = r.fetch /\ r.phase = "done" THEN Answer(r)
                    ELSE IF r.fetch = "" /\ n = r.op.tells THEN [key |-> 1, ver |-> r.ver]
                    ELSE IF r.fetch # "" /\ r.phase = "refused" THEN Undo(TakenBack(r))[n]
                    ELSE shown[n]]

\* The write has been answered: the loads start over.
Written(r) ==
    /\ r.fetch = ""
    /\ r.phase = "done" \/ (r.phase = "refused" /\ ~r.op.checked)
    /\ Shows(r, ~r.op.last)
    /\ IF r.op.awaits /\ Reloads(r) # {}
         THEN Continue(r, Min(Reloads(r)))
         ELSE End(r, {r.op.reloads[i] : i \in Reloads(r)})
    /\ UNCHANGED <<page, server, acts, failures>>

\* Mutant: the flag is cleared after the await and not in a finally.
RejectedNoFinally(r) ==
    /\ r.fetch = ""
    /\ r.phase = "refused"
    /\ r.op.checked
    /\ reqs' = reqs \ {r}
    /\ shown' = Undo(TakenBack(r))
    /\ blurred' = IF r.op.undone THEN blurred ELSE blurred \cup r.op.assumes
    /\ UNCHANGED <<page, wanted, server, flag, loading, open, acts, failures>>

\* catch: the form stays, and an assumed value is taken back, or is not.
Rejected(r) ==
    /\ r.fetch = ""
    /\ r.phase = "refused"
    /\ r.op.checked
    /\ reqs' = reqs \ {r}
    /\ flag' = Released(r.op)
    /\ shown' = Undo(TakenBack(r))
    /\ blurred' = IF r.op.undone THEN blurred ELSE blurred \cup r.op.assumes
    /\ UNCHANGED <<page, wanted, server, loading, open, acts, failures>>

\* A load has been answered, or has failed and said so, and the handler goes on.
Loaded(r) ==
    /\ r.fetch # ""
    /\ r.phase # "sent"
    /\ Shows(r, Reloads(r) = {} /\ r.op.last)
    /\ IF Reloads(r) # {} THEN Continue(r, Min(Reloads(r))) ELSE End(r, {})
    /\ UNCHANGED <<page, server, acts, failures>>

\* The connection goes, before or after the backend did what a write asks: the
\* handler throws, and what it has touched is not known any more.
Lose(r) ==
    /\ r.fetch = ""
    /\ Fails
    /\ reqs' = reqs \ {r}
    /\ flag' = Released(r.op)
    /\ shown' = Undo(TakenBack(r))
    /\ blurred' = blurred \cup (r.op.touches \cap LoadNames)
    /\ UNCHANGED <<page, wanted, server, loading, open, acts>>

Land(r) == Written(r) \/ Rejected(r) \/ Loaded(r)

Next ==
    \/ \E l \in page.loads : ChangeControl(l) \/ Click(l) \/ Clear(l) \/ More(l) \/ Poll(l) \/ Close(l)
    \/ \E f \in Forms : OpenForm(f) \/ Cancel(f)
    \/ \E o \in page.ops : \E row \in (IF o.slot THEN Row ELSE {1}) : Submit(o, row)
    \/ \E r \in reqs : Serve(r) \/ Refuse(r) \/ Land(r) \/ Lose(r)

Spec == Init /\ [][Next]_vars

\* The names of the loads of the pages that some timer starts.
TimedNames == UNION {{l.name : l \in {m \in p.loads : Timed(m)}} : p \in Pages}

\* fetch ends, well or badly, whatever the timers ask for meanwhile.  A timer
\* that was set when the page was mounted fires.
FairSpec ==
    /\ Spec
    /\ \A id \in 1 .. MaxActs + 1 :
          WF_vars(\E r \in reqs : r.id = id /\ (Serve(r) \/ Land(r)))
    /\ WF_vars(\E r \in reqs :
          /\ r.id = 0
          /\ ~ \E l \in page.loads : l.name = r.fetch /\ Timed(l)
          /\ Serve(r) \/ Land(r))
    /\ \A n \in TimedNames :
          /\ WF_vars(\E r \in reqs : r.id = 0 /\ r.fetch = n /\ Serve(r))
          /\ WF_vars(\E r \in reqs : r.id = 0 /\ r.fetch = n /\ Land(r))
          /\ WF_vars(\E l \in page.loads : l.name = n /\ "poll" \in l.starts /\ Poll(l))

----------------------------------------------------------------------------
InFlight == [id : 0 .. Patience, op : page.ops \cup {Reading}, row : Row,
             form : 0 .. Patience, fetch : LoadNames \cup {""}, at : Nat,
             keys : [LoadNames -> Control \cup {0}],
             phase : {"sent", "done", "refused"}, ver : 0 .. 2 * Patience]

\* Controls, flags, forms and requests keep their types, and a handler only
\* fetches, assumes and reloads what the page has.
TypeOK ==
    /\ page \in Pages
    /\ wanted \in [LoadNames -> Control \cup {0}]
    /\ shown \in [LoadNames -> [key : Control \cup {0}, ver : 0 .. 2 * Patience]]
    /\ server \in [LoadNames -> 0 .. Patience]
    /\ flag \in [Flags -> Row \cup {0}]
    /\ loading \subseteq Spinners
    /\ open \in [Forms -> 0 .. Patience]
    /\ reqs \subseteq InFlight
    /\ blurred \subseteq LoadNames
    /\ acts \in 0 .. Patience
    /\ failures \in 0 .. MaxFailures

\* No write is sent again by its own button while its handler has not ended:
\* at most one handler holds each flag that is not a row's, through its reloads
\* and its failures, although any of the buttons that share the flag may start
\* it (setSaving(true) ... finally setSaving(false) on every page).
NoTwin ==
    \A r, s \in reqs :
        r.op.flag # "" /\ ~r.op.slot /\ r.op.flag = s.op.flag => r = s

\* Every button that is disabled will come back: its flag, with the row in it, is
\* that of a handler that has not ended, or its load is under way, whichever
\* handlers shared them, were refused or lost their connection, and whatever the
\* user closed or chose again meanwhile (finally { setSaving(false) }).
DisabledByHandler ==
    /\ \A f \in Flags : flag[f] # 0 => \E r \in reqs : r.op.flag = f /\ r.row = flag[f]
    /\ \A n \in loading : \E r \in reqs : r.fetch = n


\* A detail never shows what was asked for another row: an answer that lands after
\* the panel was closed, or opened for another row, or after a search, is ignored,
\* at any moment and not only when the page is at rest (if (cancelled) return).
DetailIsOfItsRow ==
    \A l \in page.loads : l.guarded => shown[l.name].key \in {0, wanted[l.name]}

\* No button stays disabled for ever: whatever fails, its flag is cleared.
FlagsEnd == []<>(loading = {} /\ \A f \in Flags : flag[f] = 0)

\* A page that polls ends up showing the present for the value its control has,
\* past stale answers and failures, as long as the timer calls a fresh closure.
PollingConverges ==
    <>[](\A l \in page.loads : "poll" \in l.starts /\ ~l.frozen /\ wanted[l.name] # 0 =>
            shown[l.name] = [key |-> wanted[l.name], ver |-> server[l.name]])
=============================================================================
