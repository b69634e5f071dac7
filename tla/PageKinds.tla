----------------------------- MODULE PageKinds -----------------------------
(***************************************************************************)
(* The vocabulary in which the pages of the web console are described: the *)
(* requests that fill what a page shows (loads), and the handlers that     *)
(* write through the API (writes), each with what it does around its await.*)
(***************************************************************************)
EXTENDS Naturals, Sequences

\* A load is started when the page is mounted, when the control that keys it
\* changes (an effect, or a row selected), by a button, by a timer that always
\* runs (poll) or only while a switch is on (live).  A button may also close
\* what it shows, or clear the control and load in the same handler.  Two of them
\* add to what is shown: the button of the next page (more), and the timer that
\* asks for what has come since, while a switch is on (tail).
Starts == {"mount", "filter", "click", "poll", "live", "close", "clear", "more", "tail"}

\* Requests sent together and awaited together are one load.
Load(name, starts) ==
    [name |-> name, starts |-> starts, keyed |-> FALSE, guarded |-> FALSE,
     frozen |-> FALSE, selecting |-> FALSE, busy |-> FALSE, covers |-> FALSE,
     under |-> "", resets |-> ""]

\* Its path holds a control of the page: a filter, a period, a selected row.
Keyed(load) == [load EXCEPT !.keyed = TRUE]

\* The effect's cleanup makes it ignore an answer that comes after another
\* value of the control, or after what it shows has been closed.
Guarded(load) == [load EXCEPT !.guarded = TRUE]

\* The timer calls a closure of an earlier render.
Frozen(load) == [load EXCEPT !.frozen = TRUE]

\* The row is selected by its answer, not by the click that asks for it.
Selecting(load) == [load EXCEPT !.keyed = TRUE, !.selecting = TRUE]

\* Its button is disabled by a state variable that the start of the load sets,
\* and that the end of any load of it clears.
Busy(load) == [load EXCEPT !.busy = TRUE]

\* Its row is one of another load's, and can be chosen while that one has any.
Under(load, list) == [load EXCEPT !.under = list]

\* It takes the place of the list, so that one row is closed before the next.
Covering(load) == [load EXCEPT !.covers = TRUE]

\* Another choice of its control closes a detail, or a form, that was open.
Resetting(load, what) == [load EXCEPT !.resets = what]

\* A write changes what the loads of touches answer, and then reloads some.
Write(name, touches, reloads) ==
    [name |-> name, flag |-> "", slot |-> FALSE, form |-> "", locked |-> FALSE,
     within |-> "", touches |-> touches, reloads |-> reloads, awaits |-> FALSE,
     checked |-> TRUE, assumes |-> {}, undone |-> FALSE, defaults |-> FALSE,
     drops |-> "", last |-> FALSE, reselects |-> "", tells |-> ""]

\* The commonest of them: one list, changed and loaded again.
Save(name, load) == Write(name, {load}, <<load>>)

\* A button that runs something on the server and changes nothing shown.
Run(name) == Write(name, {}, <<>>)

\* A state variable disables the buttons that set it; a finally clears it.
Flagged(op, flag) == [op EXCEPT !.flag = flag]

\* The variable holds the row in progress, and disables that row's button.
Slotted(op, slot) == [op EXCEPT !.flag = slot, !.slot = TRUE]

\* Submitted from a form, which its success closes.
FromForm(op, form) == [op EXCEPT !.form = form]

\* The form's other buttons are disabled as well while the write is going on.
Locked(op) == [op EXCEPT !.locked = TRUE]

\* The button is part of a detail, and is there while a row is selected.
Within(op, load) == [op EXCEPT !.within = load]

\* The reloads are awaited one after the other, and the flag is held to the end.
Awaiting(op) == [op EXCEPT !.awaits = TRUE]

\* The handler does not look at the status of the answer.
Unchecked(op) == [op EXCEPT !.checked = FALSE]

\* The page shows the new value before it asks for it.
Assuming(op, loads) == [op EXCEPT !.assumes = loads]

\* It takes the new value back when the request fails.
Undoing(op) == [op EXCEPT !.undone = TRUE]

\* It reloads with the default of the control, whatever the control says.
ByDefault(op) == [op EXCEPT !.defaults = TRUE]

\* Its success closes what a load shows, such as the row that it deleted.
Dropping(op, load) == [op EXCEPT !.drops = load]

\* A row is deleted: the one whose detail is open, which closes, or another.
DeletingRow(op, detail) == {op, Dropping(Within(op, detail), detail)}

\* What its success closes stays open until the reloads have been awaited.
ClosingLast(op) == [op EXCEPT !.last = TRUE]

\* When its reload lands it selects its own row again.
Reselecting(op, detail) == [op EXCEPT !.reselects = detail]

\* Its success shows what was sent, without asking for it again.
Telling(op, load) == [op EXCEPT !.tells = load]

Page(name, loads, ops) == [name |-> name, loads |-> loads, ops |-> ops]

LoadKind == [name : STRING, starts : SUBSET Starts, keyed : BOOLEAN,
             guarded : BOOLEAN, frozen : BOOLEAN, selecting : BOOLEAN,
             busy : BOOLEAN, covers : BOOLEAN, under : STRING, resets : STRING]

WriteKind == [name : STRING, flag : STRING, slot : BOOLEAN, form : STRING,
              locked : BOOLEAN, within : STRING, touches : SUBSET STRING,
              reloads : Seq(STRING), awaits : BOOLEAN, checked : BOOLEAN,
              assumes : SUBSET STRING, undone : BOOLEAN, defaults : BOOLEAN,
              drops : STRING, last : BOOLEAN, reselects : STRING, tells : STRING]
=============================================================================
