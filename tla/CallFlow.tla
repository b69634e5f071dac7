------------------------------ MODULE CallFlow ------------------------------
(***************************************************************************)
(* The life of an outbound call in Kamailio (templates/kamailio.cfg.j2):   *)
(* the wait for room in a carrier's calls-per-second limit, the failover   *)
(* to the next carrier, CANCEL, the BYE of either side, and the dialog     *)
(* events that write active_calls, cdrs and cdrs_failed; with the restart  *)
(* of Kamailio, which forgets every dialog, and the script that follows it *)
(* (scripts/cleanup_active_calls.py).                                      *)
(*                                                                         *)
(* One action is one script route or event of one message; transactions    *)
(* absorb retransmitted INVITEs, and answers that come after their branch  *)
(* has timed out.  A second does not end between the count of CPS_GATE and *)
(* the relay that follows it.                                              *)
(***************************************************************************)
EXTENDS Integers, Sequences, FiniteSets

CONSTANTS
    Call,
    Carrier,
    Gateways,     \* the carriers a call may use, in the order of ds_select_dst
    CpsLimit,     \* cps= of each carrier in dispatcher.list; 0 is no limit
    MaxWaits,     \* cps_max_wait_ms / 100
    MaxRestarts,  \* bound: restarts of Kamailio
    None

Side == {"CLIENTE", "CARRIER"}

ASSUME CallFlowAssumption ==
    /\ Gateways \in [Call -> Seq(Carrier)]
    /\ CpsLimit \in [Carrier -> Nat]
    /\ MaxWaits \in Nat
    /\ MaxRestarts \in Nat
    /\ None \notin Carrier \cup Side

VARIABLES
    invite,   \* the INVITE transaction of each call
    waits,    \* cps_waited / 100
    hop,      \* the position in Gateways of the carrier the INVITE is at
    canceled, \* the calls whose CANCEL has arrived
    dialog,   \* the dialog module's state of a call, and its dlg_vars
    media,    \* the calls with a session open in rtpengine
    up,       \* the sides of each call that have it up
    byes,     \* the sides whose BYE is on its way to Kamailio
    active,   \* active_calls: the carrier_id of the call's row
    cdrs,     \* cdrs: the call's rows
    failed,   \* cdrs_failed: the carrier_id of the call's rows
    cps,      \* the htable's count of the current second
    sent,     \* INVITEs relayed to each carrier in the current second
    spilled,  \* those of them that another carrier's failure sent there
    cleanup,  \* the script that runs three seconds after a start
    restarts,
    answered, \* the carrier whose 200 has been relayed
    cutBy     \* the side whose BYE was the first that Kamailio handled

transaction == <<invite, waits, hop, canceled>>
ends == <<up, byes>>
tables == <<active, cdrs, failed>>
gate == <<cps, sent, spilled>>
service == <<cleanup, restarts>>
history == <<answered, cutBy>>
vars == <<transaction, dialog, media, ends, tables, gate, service, history>>

----------------------------------------------------------------------------
\* The dialog is "ended" when dialog:end has run, and "gone" when Kamailio no
\* longer knows it, so that every dlg_var reads as null.
Dialog(state, carrier, byeSeen, hangupBy) ==
    [state |-> state, carrier |-> carrier, byeSeen |-> byeSeen, hangupBy |-> hangupBy]

NoDialog == Dialog("none", None, FALSE, None)

Lost == Dialog("gone", None, FALSE, None)

Row(disposition, carrier, cause) ==
    [disposition |-> disposition, carrier |-> carrier, cause |-> cause]

Init ==
    /\ invite = [c \in Call |-> "new"]
    /\ waits = [c \in Call |-> 0]
    /\ hop = [c \in Call |-> 1]
    /\ canceled = {}
    /\ dialog = [c \in Call |-> NoDialog]
    /\ media = {}
    /\ up = [c \in Call |-> {}]
    /\ byes = [c \in Call |-> {}]
    /\ active = [c \in Call |-> None]
    /\ cdrs = [c \in Call |-> <<>>]
    /\ failed = [c \in Call |-> <<>>]
    /\ cps = [g \in Carrier |-> 0]
    /\ sent = [g \in Carrier |-> 0]
    /\ spilled = [g \in Carrier |-> 0]
    /\ cleanup = "idle"
    /\ restarts = 0
    /\ answered = [c \in Call |-> None]
    /\ cutBy = [c \in Call |-> None]

----------------------------------------------------------------------------
(* INVITE.                                                                 *)

Limited(g) == CpsLimit[g] > 0

Relay(g) == sent' = [sent EXCEPT ![g] = @ + 1]

\* CARRIER_SEND: the dialog begins, with the carrier of SET_CARRIER_DST.
CarrierSend(c, g) ==
    /\ dialog' = [dialog EXCEPT ![c] = Dialog("early", g, FALSE, None)]
    /\ invite' = [invite EXCEPT ![c] = "sent"]
    /\ Relay(g)

\* 402 to a customer in balance_block, or 503 when the group has no carrier:
\* the session, if it was opened, is deleted again.
Reject(c) ==
    /\ invite[c] = "new"
    /\ invite' = [invite EXCEPT ![c] = "done"]
    /\ UNCHANGED <<waits, hop, canceled, dialog, media, ends, tables, gate, service, history>>

\* rtpengine_manage, ds_select_dst, and then CPS_GATE or straight to the carrier.
Invite(c) ==
    /\ invite[c] = "new"
    /\ Gateways[c] # <<>>
    /\ media' = media \cup {c}
    /\ LET g == Head(Gateways[c])
       IN  IF Limited(g)
             THEN invite' = [invite EXCEPT ![c] = "gate"] /\ UNCHANGED <<dialog, sent>>
             ELSE CarrierSend(c, g)
    /\ UNCHANGED <<waits, hop, canceled, ends, tables, cps, spilled, service, history>>

\* Mutant: the comparison lets one call too many in.
RoomForOneMore(g) == cps[g] <= CpsLimit[g]

HasRoom(g) == cps[g] < CpsLimit[g]

CpsAdmit(c) ==
    LET g == Head(Gateways[c])
    IN  /\ invite[c] = "gate"
        /\ HasRoom(g)
        /\ cps' = [cps EXCEPT ![g] = @ + 1]
        /\ CarrierSend(c, g)
        /\ UNCHANGED <<waits, hop, canceled, media, ends, tables, spilled, service, history>>

\* Mutants: cps_waited is kept in a $var, which does not outlive the sleep; it
\* counts milliseconds where the limit counts sleeps.
WaitsForgotten(c) == 0
WaitsInMs(c) == waits[c] + 100

WaitsAfter(c) == waits[c] + 1

\* async_ms_sleep(100), and CPS_GATE again.
CpsWait(c) ==
    /\ invite[c] = "gate"
    /\ ~HasRoom(Head(Gateways[c]))
    /\ waits[c] < MaxWaits
    /\ waits' = [waits EXCEPT ![c] = WaitsAfter(c)]
    /\ UNCHANGED <<invite, hop, canceled, dialog, media, ends, tables, gate, service, history>>

CpsTimeout(c) ==
    /\ invite[c] = "gate"
    /\ ~HasRoom(Head(Gateways[c]))
    /\ waits[c] >= MaxWaits
    /\ invite' = [invite EXCEPT ![c] = "done"]
    /\ media' = media \ {c}
    /\ UNCHANGED <<waits, hop, canceled, dialog, ends, tables, gate, service, history>>

\* The next second has a counter of its own.
Tick ==
    /\ cps' = [g \in Carrier |-> 0]
    /\ sent' = [g \in Carrier |-> 0]
    /\ spilled' = [g \in Carrier |-> 0]
    /\ UNCHANGED <<transaction, dialog, media, ends, tables, service, history>>

----------------------------------------------------------------------------
(* The answer of the carrier.                                              *)

\* 200 OK and dialog:start.
Answer(c) ==
    LET g == Gateways[c][hop[c]]
    IN  /\ invite[c] = "sent"
        /\ invite' = [invite EXCEPT ![c] = "done"]
        /\ dialog' = [dialog EXCEPT ![c] = Dialog("confirmed", @.carrier, FALSE, None)]
        /\ active' = [active EXCEPT ![c] = dialog[c].carrier]
        /\ answered' = [answered EXCEPT ![c] = g]
        /\ up' = [up EXCEPT ![c] = Side]
        /\ UNCHANGED <<waits, hop, canceled, media, byes, cdrs, failed, gate, service, cutBy>>

\* Mutant: the failover does not call SET_CARRIER_DST.
CarrierOfFirstHop(c) == dialog[c].carrier

\* carrier_id in the attributes of the next destination.
NextCarrier(c) == Gateways[c][hop[c] + 1]

\* Mutant: the failure route does not ask whether the call is canceled.
MayRetryAlways(c) == invite[c] = "sent"

\* if (t_is_canceled()) exit;
MayRetry(c) == invite[c] = "sent" /\ c \notin canceled

\* A 5xx, or no answer at all, and the group has another carrier: the INVITE
\* goes straight to it, limited or not.
Failover(c) ==
    /\ MayRetry(c)
    /\ hop[c] < Len(Gateways[c])
    /\ hop' = [hop EXCEPT ![c] = @ + 1]
    /\ dialog' = [dialog EXCEPT ![c] = Dialog("early", NextCarrier(c), FALSE, None)]
    /\ Relay(Gateways[c][hop[c] + 1])
    /\ spilled' = [spilled EXCEPT ![Gateways[c][hop[c] + 1]] = @ + 1]
    /\ UNCHANGED <<invite, waits, canceled, media, ends, tables, cps, service, history>>

\* A 4xx, a failure of the last carrier, or the 487 of a canceled call; then
\* dialog:failed.
Fail(c) ==
    /\ invite[c] = "sent"
    /\ invite' = [invite EXCEPT ![c] = "done"]
    /\ media' = media \ {c}
    /\ dialog' = [dialog EXCEPT ![c] = Dialog("ended", @.carrier, FALSE, None)]
    /\ failed' = [failed EXCEPT ![c] = Append(@, dialog[c].carrier)]
    /\ UNCHANGED <<waits, hop, canceled, ends, active, cdrs, gate, service, history>>

\* Mutant: CANCEL is relayed without freeing the session.
MediaKept(c) == media

MediaAfterCancel(c) == media \ {c}

\* The caller gives up: a call that waits is dropped, one that has been sent
\* waits for the carrier, which may be answering at that moment.
Cancel(c) ==
    /\ c \notin canceled
    /\ invite[c] \in {"gate", "sent"} \/ up[c] = Side
    /\ canceled' = canceled \cup {c}
    /\ media' = MediaAfterCancel(c)
    /\ invite' = [invite EXCEPT ![c] = IF @ = "gate" THEN "done" ELSE @]
    /\ UNCHANGED <<waits, hop, dialog, ends, tables, gate, service, history>>

----------------------------------------------------------------------------
(* The end of the call.                                                    *)

HangUp(c, s) ==
    /\ s \in up[c]
    /\ up' = [up EXCEPT ![c] = @ \ {s}]
    /\ byes' = [byes EXCEPT ![c] = @ \cup {s}]
    /\ UNCHANGED <<transaction, dialog, media, tables, gate, service, history>>

Known(c) == dialog[c].state \in {"confirmed", "ended"}

\* $si == $dlg_var(src_ip), which is null when the dialog is gone.
Cause(c, s) == IF Known(c) THEN s ELSE "CARRIER"

\* A BYE that Kamailio has seen before, or that crosses the other side's.
ByeAgain(c, s) ==
    /\ s \in byes[c]
    /\ Known(c)
    /\ dialog[c].byeSeen
    /\ byes' = [byes EXCEPT ![c] = @ \ {s}]
    /\ UNCHANGED <<transaction, dialog, media, up, tables, gate, service, history>>

\* Mutant: the cause is only kept for dialog:end, which may have run already.
NoUpdate(c, cause) == cdrs[c]

\* UPDATE cdrs SET hangup_cause ... WHERE call_id = ...
Update(c, cause) ==
    [i \in DOMAIN cdrs[c] |-> Row(cdrs[c][i].disposition, cdrs[c][i].carrier, cause)]

\* The first BYE frees the session, notes who cut, and is relayed; its sender
\* may send it again.
Bye(c, s) ==
    /\ s \in byes[c]
    /\ ~(Known(c) /\ dialog[c].byeSeen)
    /\ media' = media \ {c}
    /\ cdrs' = [cdrs EXCEPT ![c] = Update(c, Cause(c, s))]
    /\ dialog' = [dialog EXCEPT ![c] =
          IF Known(c) THEN Dialog(@.state, @.carrier, TRUE, s) ELSE @]
    /\ cutBy' = [cutBy EXCEPT ![c] = IF @ = None THEN s ELSE @]
    /\ up' = [up EXCEPT ![c] = {}]
    /\ \/ byes' = [byes EXCEPT ![c] = @ \ {s}]
       \/ UNCHANGED byes
    /\ UNCHANGED <<transaction, active, failed, gate, service, answered>>

\* dialog:end: before the script sees the BYE that ends the dialog, or after.
DialogEnd(c) ==
    /\ dialog[c].state = "confirmed"
    /\ dialog[c].byeSeen \/ byes[c] # {}
    /\ active' = [active EXCEPT ![c] = None]
    /\ cdrs' = [cdrs EXCEPT ![c] =
                   Append(@, Row("ANSWERED", dialog[c].carrier, dialog[c].hangupBy))]
    /\ dialog' = [dialog EXCEPT ![c] = Dialog("ended", @.carrier, @.byeSeen, @.hangupBy)]
    /\ UNCHANGED <<transaction, media, ends, failed, gate, service, history>>

\* Mutants: default_timeout is never reached; it also ends a call that rings.
NeverExpires(c) == FALSE
ExpiresRinging(c) == dialog[c].state \in {"early", "confirmed"}

Expires(c) == dialog[c].state = "confirmed"

\* dialog:end by default_timeout: nobody has said goodbye.
DialogExpire(c) ==
    /\ Expires(c)
    /\ ~dialog[c].byeSeen
    /\ byes[c] = {}
    /\ active' = [active EXCEPT ![c] = None]
    /\ cdrs' = [cdrs EXCEPT ![c] = Append(@, Row("ANSWERED", dialog[c].carrier, None))]
    /\ dialog' = [dialog EXCEPT ![c] = Lost]
    /\ UNCHANGED <<transaction, media, ends, failed, gate, service, history>>

----------------------------------------------------------------------------
(* Restarts.                                                               *)

\* Dialogs, transactions and counters are in memory only (db_mode 0);
\* rtpengine is another process, and the parties of a call go on talking.
Restart ==
    /\ restarts < MaxRestarts
    /\ restarts' = restarts + 1
    /\ invite' = [c \in Call |-> IF invite[c] = "new" THEN "new" ELSE "done"]
    /\ dialog' = [c \in Call |-> IF invite[c] = "new" THEN NoDialog ELSE Lost]
    /\ cps' = [g \in Carrier |-> 0]
    /\ sent' = [g \in Carrier |-> 0]
    /\ spilled' = [g \in Carrier |-> 0]
    /\ cleanup' = "due"
    /\ UNCHANGED <<waits, hop, canceled, media, ends, tables, history>>

\* Mutant: the rows are only deleted, as before the archive was added.
NotArchived(c) == cdrs[c]

Archived(c) ==
    IF active[c] = None THEN cdrs[c]
    ELSE Append(cdrs[c], Row("RESTART_ORPHANED", active[c], None))

\* SELECT and one autocommitted INSERT for each row of active_calls.
CleanupArchive ==
    /\ cleanup = "due"
    /\ cdrs' = [c \in Call |-> Archived(c)]
    /\ cleanup' = "archived"
    /\ UNCHANGED <<transaction, dialog, media, ends, active, failed, gate, restarts, history>>

\* DELETE FROM active_calls
CleanupDelete ==
    /\ cleanup = "archived"
    /\ active' = [c \in Call |-> None]
    /\ cleanup' = "idle"
    /\ UNCHANGED <<transaction, dialog, media, ends, cdrs, failed, gate, restarts, history>>

----------------------------------------------------------------------------
Gate(c) == CpsAdmit(c) \/ CpsWait(c) \/ CpsTimeout(c)

Replied(c) == Answer(c) \/ Failover(c) \/ Fail(c)

Closed(c) == DialogEnd(c) \/ DialogExpire(c)

Next ==
    \/ \E c \in Call :
          \/ Reject(c) \/ Invite(c) \/ Gate(c) \/ Replied(c) \/ Cancel(c) \/ Closed(c)
          \/ \E s \in Side : HangUp(c, s) \/ Bye(c, s) \/ ByeAgain(c, s)
    \/ Tick \/ Restart \/ CleanupArchive \/ CleanupDelete

Spec == Init /\ [][Next]_vars

\* The async workers resume what sleeps, tm's timers end a transaction that
\* nobody answers, the dialog timer ends a dialog nobody closes, a BYE that was
\* sent arrives, and systemd runs the script.
FairSpec ==
    /\ Spec
    /\ \A c \in Call :
          /\ WF_vars(Gate(c))
          /\ WF_vars(Replied(c))
          /\ WF_vars(Closed(c))
    /\ WF_vars(CleanupArchive)
    /\ WF_vars(CleanupDelete)

----------------------------------------------------------------------------
Dialogs == [state    : {"none", "early", "confirmed", "ended", "gone"},
            carrier  : Carrier \cup {None},
            byeSeen  : BOOLEAN,
            hangupBy : Side \cup {None}]

Rows == [disposition : {"ANSWERED", "RESTART_ORPHANED"},
         carrier     : Carrier,
         cause       : Side \cup {None}]

TypeOK ==
    /\ invite \in [Call -> {"new", "gate", "sent", "done"}]
    /\ waits \in [Call -> 0 .. MaxWaits]
    /\ hop \in [Call -> Nat]
    /\ \A c \in Call : hop[c] \in 1 .. Len(Gateways[c]) \cup {1}
    /\ canceled \subseteq Call
    /\ dialog \in [Call -> Dialogs]
    /\ media \subseteq Call
    /\ up \in [Call -> SUBSET Side]
    /\ byes \in [Call -> SUBSET Side]
    /\ active \in [Call -> Carrier \cup {None}]
    /\ cdrs \in [Call -> Seq(Rows)]
    /\ failed \in [Call -> Seq(Carrier)]
    /\ cps \in [Carrier -> Nat]
    /\ sent \in [Carrier -> Nat]
    /\ spilled \in [Carrier -> Nat]
    /\ cleanup \in {"idle", "due", "archived"}
    /\ restarts \in 0 .. MaxRestarts
    /\ answered \in [Call -> Carrier \cup {None}]
    /\ cutBy \in [Call -> Side \cup {None}]

\* Calls that reach CPS_GATE together, from several workers and whether or not
\* they have slept there, never send a carrier more INVITEs in a second than its
\* limit; what other carriers' failures send it comes on top of that, since
\* the failover asks no gate (kamailio.cfg.j2:505-531, 640-644).
GateRespected == \A g \in Carrier : Limited(g) => sent[g] - spilled[g] <= CpsLimit[g]

\* A carrier with a limit never gets more INVITEs in a second than its limit
\* (kamailio.cfg.j2:131-133).
CpsRespected == \A g \in Carrier : Limited(g) => sent[g] <= CpsLimit[g]

\* The session in rtpengine is freed once the call is over, however it ended:
\* refused, canceled while it waited, given up by the last carrier, or cut
\* (kamailio.cfg.j2:288-293); calls whose dialog Kamailio has lost excepted.
MediaFreed ==
    \A c \in Call : /\ invite[c] = "done"
                    /\ dialog[c].state \in {"none", "ended"}
                    /\ byes[c] = {}
                    => c \notin media

\* A call leaves one record, in cdrs or in cdrs_failed.
RecordedOnce == \A c \in Call : Len(cdrs[c]) + Len(failed[c]) <= 1

\* The same as long as no script has taken the calls of a new Kamailio for
\* those of the old one.
RecordedOnceUntilRestart == restarts = 0 => RecordedOnce

\* The CDR of a call, archived or not, names the carrier that answered it,
\* after any failovers (kamailio.cfg.j2:478-484).
CdrNamesItsCarrier ==
    \A c \in Call : \A i \in 1 .. Len(cdrs[c]) : cdrs[c][i].carrier = answered[c]

\* Whichever of dialog:end and the BYE's script runs first, and whatever BYEs
\* cross or come again, the CDR says who cut first (kamailio.cfg.j2:295-308).
HangupCauseIsTrue ==
    \A c \in Call : dialog[c].state = "ended" /\ byes[c] = {} =>
        \A i \in 1 .. Len(cdrs[c]) :
            cdrs[c][i].disposition = "ANSWERED" => cdrs[c][i].cause = cutBy[c]

\* No call that was answered is forgotten: its dialog is alive, it is in
\* active_calls, or it has a CDR (cleanup_active_calls.py:17-25).  (A second
\* restart may come before the calls of the first are in any table.)
AnsweredIsRecorded ==
    restarts < 2 => \A c \in Call : answered[c] # None =>
        dialog[c].state = "confirmed" \/ active[c] # None \/ cdrs[c] # <<>>

\* A call that has been canceled is not offered to another carrier
\* (kamailio.cfg.j2:625).
NoCarrierAfterCancel == [][\A c \in canceled : hop'[c] = hop[c]]_vars

\* A call that waits for a slot is sent or refused, even if other calls take
\* every slot (kamailio.cfg.j2:500-504).
WaitEnds == \A c \in Call : invite[c] = "gate" ~> invite[c] # "gate"

\* Every call that is answered gets its CDR in the end, with a BYE or without,
\* with Kamailio restarting or not (kamailio.cfg.j2:217-229).
AnsweredGetsCdr == \A c \in Call : answered[c] # None ~> cdrs[c] # <<>>
=============================================================================
