--------------------------- MODULE CallFlowProofs ---------------------------
(***************************************************************************)
(* The records, media sessions, causes and limits of outbound calls, for   *)
(* any number of calls, carriers, failovers, repeated BYEs and restarts.   *)
(***************************************************************************)
EXTENDS CallFlow, TLAPS

USE CallFlowAssumption

\* The INVITE of a call and its dialog go together, and the dialog has the
\* carrier that the INVITE is at.
Routed(c) ==
    /\ invite[c] = "new" => dialog[c].state = "none"
    /\ invite[c] = "gate" => dialog[c].state = "none" /\ Gateways[c] # <<>>
    /\ invite[c] \in {"new", "gate"} => hop[c] = 1
    /\ invite[c] = "sent" => /\ dialog[c].state = "early"
                             /\ hop[c] \in 1 .. Len(Gateways[c])
                             /\ dialog[c].carrier = Gateways[c][hop[c]]
    /\ dialog[c].state = "early" => invite[c] = "sent"

\* What is kept of a call names the carrier that answered it, and nothing is
\* kept, up or cut before.
Named(c) ==
    /\ dialog[c].state \in {"none", "early"} => answered[c] = None
    /\ dialog[c].state = "confirmed" =>
          answered[c] # None /\ dialog[c].carrier = answered[c]
    /\ answered[c] = None =>
          up[c] = {} /\ byes[c] = {} /\ active[c] = None /\ cdrs[c] = <<>> /\ cutBy[c] = None
    /\ active[c] \in {None, answered[c]}
    /\ \A i \in 1 .. Len(cdrs[c]) : cdrs[c][i].carrier = answered[c]

\* Until a restart, a call that is going on has left no record.
Unrecorded(c) ==
    restarts = 0 =>
        /\ dialog[c].state \in {"none", "early", "confirmed"} =>
              cdrs[c] = <<>> /\ failed[c] = <<>>
        /\ Len(cdrs[c]) + Len(failed[c]) <= 1

\* The dialog knows who cut, and so does the record that it leaves.
Cut(c) ==
    /\ dialog[c].state \in {"confirmed", "ended"} =>
          /\ dialog[c].hangupBy = cutBy[c]
          /\ dialog[c].byeSeen <=> cutBy[c] # None
    /\ \A i \in 1 .. Len(cdrs[c]) : cdrs[c][i].disposition = "ANSWERED" =>
          /\ dialog[c].state \in {"ended", "gone"}
          /\ dialog[c].state = "ended" => cdrs[c][i].cause = cutBy[c]

\* The session of a call that has ended is freed by its first BYE.
Freed(c) ==
    /\ invite[c] = "new" => c \notin media
    /\ invite[c] = "done" /\ dialog[c].state = "none" => c \notin media
    /\ dialog[c].state = "ended" => byes[c] # {} \/ c \notin media
    /\ dialog[c].state \in {"confirmed", "ended"} /\ dialog[c].byeSeen => c \notin media

\* What the script is about to forget it has recorded, unless it is alive.
Kept(c) ==
    /\ restarts = 0 /\ dialog[c].state = "confirmed" => active[c] # None
    /\ restarts < 2 /\ answered[c] # None =>
          \/ dialog[c].state = "confirmed"
          \/ cdrs[c] # <<>>
          \/ active[c] # None /\ cleanup # "archived"

Parts(c) == Routed(c) /\ Named(c) /\ Unrecorded(c) /\ Cut(c) /\ Freed(c) /\ Kept(c)

Inv ==
    /\ TypeOK
    /\ restarts = 0 => cleanup = "idle"
    /\ \A c \in Call : Parts(c)

\* The gate and the first relay are for the first carrier of the group.
LEMMA RouteType ==
    /\ \A c \in Call : \A i \in 1 .. Len(Gateways[c]) : Gateways[c][i] \in Carrier
    /\ \A c \in Call : Gateways[c] # <<>> =>
          1 \in 1 .. Len(Gateways[c]) /\ Head(Gateways[c]) = Gateways[c][1]
<1>1. ASSUME NEW c \in Call PROVE Gateways[c] \in Seq(Carrier)
    BY CallFlowAssumption
<1>2. \A c \in Call : Gateways[c] # <<>> =>
         1 \in 1 .. Len(Gateways[c]) /\ Head(Gateways[c]) = Gateways[c][1]
    BY <1>1
<1> QED BY <1>1, <1>2

LEMMA DialogType ==
    \A state \in {"none", "early", "confirmed", "ended", "gone"}, g \in Carrier \cup {None},
       seen \in BOOLEAN, by \in Side \cup {None} : Dialog(state, g, seen, by) \in Dialogs
BY DEF Dialog, Dialogs

LEMMA RowType ==
    \A d \in {"ANSWERED", "RESTART_ORPHANED"}, g \in Carrier, by \in Side \cup {None} :
        Row(d, g, by) \in Rows
BY DEF Row, Rows

LEMMA RowFields ==
    \A d, g, by :
        /\ Row(d, g, by).disposition = d
        /\ Row(d, g, by).carrier = g
        /\ Row(d, g, by).cause = by
BY DEF Row

\* Another row after those of a call.
LEMMA RowAppended ==
    ASSUME NEW rows \in Seq(Rows), NEW row \in Rows
    PROVE  /\ Append(rows, row) \in Seq(Rows)
           /\ Len(Append(rows, row)) = Len(rows) + 1
           /\ \A i \in 1 .. Len(rows) : Append(rows, row)[i] = rows[i]
           /\ Append(rows, row)[Len(rows) + 1] = row
OBVIOUS

\* The rows of a call with another cause.
LEMMA UpdateRows ==
    ASSUME TypeOK, NEW c \in Call, NEW cause \in Side \cup {None}
    PROVE  /\ Update(c, cause) \in Seq(Rows)
           /\ Len(Update(c, cause)) = Len(cdrs[c])
           /\ \A i \in 1 .. Len(cdrs[c]) :
                 /\ Update(c, cause)[i].disposition = cdrs[c][i].disposition
                 /\ Update(c, cause)[i].carrier = cdrs[c][i].carrier
                 /\ Update(c, cause)[i].cause = cause
<1> DEFINE n == Len(cdrs[c])
<1>1. cdrs[c] \in Seq(Rows) /\ n \in Nat /\ DOMAIN cdrs[c] = 1 .. n
    BY DEF TypeOK
<1>2. \A i \in 1 .. n : cdrs[c][i] \in Rows
    BY <1>1
<1>3. \A i \in 1 .. n : Row(cdrs[c][i].disposition, cdrs[c][i].carrier, cause) \in Rows
    BY <1>2, RowType DEF Rows
<1> HIDE DEF n
<1>4. Update(c, cause) = [i \in 1 .. n |-> Row(cdrs[c][i].disposition, cdrs[c][i].carrier, cause)]
    BY <1>1 DEF Update
<1>5. Update(c, cause) \in Seq(Rows) /\ Len(Update(c, cause)) = n
    BY <1>1, <1>3, <1>4
<1>6. \A i \in 1 .. n : Update(c, cause)[i] = Row(cdrs[c][i].disposition, cdrs[c][i].carrier, cause)
    BY <1>4
<1> QED BY <1>5, <1>6, RowFields DEF n

----------------------------------------------------------------------------
LEMMA InvInit == Init => Inv
<1> SUFFICES ASSUME Init PROVE Inv
    OBVIOUS
<1>1. TypeOK
  <2>1. dialog \in [Call -> Dialogs]
    BY DialogType DEF Init, NoDialog
  <2> QED BY <2>1 DEF Init, TypeOK
<1>2. ASSUME NEW c \in Call PROVE Parts(c)
  <2>1. dialog[c] = Dialog("none", None, FALSE, None)
    BY DEF Init, NoDialog
  <2>2. dialog[c].state = "none"
    BY <2>1 DEF Dialog
  <2>3. Len(cdrs[c]) = 0 /\ Len(failed[c]) = 0
    BY DEF Init
  <2> QED BY <2>2, <2>3 DEF Init, Parts, Routed, Named, Unrecorded, Cut, Freed, Kept
<1> QED BY <1>1, <1>2 DEF Init, Inv

LEMMA TypeNext == Inv /\ [Next]_vars => TypeOK'
<1> SUFFICES ASSUME Inv, [Next]_vars PROVE TypeOK'
    OBVIOUS
<1>1. ASSUME NEW c \in Call, Reject(c) PROVE TypeOK'
    BY <1>1 DEF Reject, Inv, TypeOK, transaction, ends, tables, gate, service, history
<1>2. ASSUME NEW c \in Call, Invite(c) PROVE TypeOK'
  <2>1. Head(Gateways[c]) \in Carrier
    BY <1>2, RouteType DEF Invite
  <2>2. CASE Limited(Head(Gateways[c]))
    BY <1>2, <2>2 DEF Invite, Inv, TypeOK, transaction, ends, tables, gate, service, history
  <2>3. CASE ~Limited(Head(Gateways[c]))
    <3>1. CarrierSend(c, Head(Gateways[c]))
        BY <1>2, <2>3 DEF Invite
    <3>2. dialog' \in [Call -> Dialogs]
        BY <2>1, <3>1, DialogType DEF CarrierSend, Inv, TypeOK
    <3>3. sent[Head(Gateways[c])] + 1 \in Nat
        BY <2>1 DEF Inv, TypeOK
    <3>4. sent' \in [Carrier -> Nat]
        BY <3>1, <3>3 DEF CarrierSend, Relay, Inv, TypeOK
    <3>5. invite' \in [Call -> {"new", "gate", "sent", "done"}]
        BY <3>1 DEF CarrierSend, Inv, TypeOK
    <3> QED BY <1>2, <3>2, <3>4, <3>5
        DEF Invite, Inv, TypeOK, transaction, ends, tables, gate, service, history
  <2> QED BY <1>2, <2>1, <2>2, <2>3
    DEF Invite, CarrierSend, Relay, Limited, Inv, TypeOK,
        transaction, ends, tables, gate, service, history
<1>3. ASSUME NEW c \in Call, CpsAdmit(c) PROVE TypeOK'
  <2>1. Head(Gateways[c]) \in Carrier
    BY <1>3, RouteType DEF CpsAdmit, Inv, Parts, Routed
  <2>2. dialog' \in [Call -> Dialogs]
    BY <1>3, <2>1, DialogType DEF CpsAdmit, CarrierSend, Inv, TypeOK
  <2>3. sent[Head(Gateways[c])] + 1 \in Nat /\ cps[Head(Gateways[c])] + 1 \in Nat
    <3>1. sent \in [Carrier -> Nat] /\ cps \in [Carrier -> Nat]
        BY DEF Inv, TypeOK
    <3> QED BY ONLY <2>1, <3>1
  <2>4. sent' \in [Carrier -> Nat] /\ cps' \in [Carrier -> Nat]
    BY <1>3, <2>3 DEF CpsAdmit, CarrierSend, Relay, Inv, TypeOK
  <2>5. invite' \in [Call -> {"new", "gate", "sent", "done"}]
    BY <1>3 DEF CpsAdmit, CarrierSend, Inv, TypeOK
  <2> QED BY <1>3, <2>1, <2>2, <2>3, <2>4, <2>5
    DEF CpsAdmit, CarrierSend, Relay, HasRoom, Inv, TypeOK,
        transaction, ends, tables, gate, service, history
<1>4. ASSUME NEW c \in Call, CpsWait(c) PROVE TypeOK'
  <2>1. waits[c] + 1 \in 0 .. MaxWaits
    BY <1>4, CallFlowAssumption DEF CpsWait, Inv, TypeOK
  <2>2. waits' \in [Call -> 0 .. MaxWaits]
    BY <1>4, <2>1 DEF CpsWait, WaitsAfter, Inv, TypeOK
  <2> QED BY <1>4, <2>1, <2>2
    DEF CpsWait, WaitsAfter, HasRoom, Inv, TypeOK,
        transaction, ends, tables, gate, service, history
<1>5. ASSUME NEW c \in Call, CpsTimeout(c) PROVE TypeOK'
    BY <1>5 DEF CpsTimeout, HasRoom, Inv, TypeOK, transaction, ends, tables, gate, service,
        history
<1>6. ASSUME NEW c \in Call, Answer(c) PROVE TypeOK'
  <2>1. dialog[c].carrier \in Carrier /\ dialog[c].carrier = Gateways[c][hop[c]]
    BY <1>6, RouteType DEF Answer, Inv, Parts, Routed
  <2>2. dialog' \in [Call -> Dialogs]
    BY <1>6, <2>1, DialogType DEF Answer, Inv, TypeOK
  <2> QED BY <1>6, <2>1, <2>2
    DEF Answer, Inv, TypeOK, transaction, ends, tables, gate, service, history
<1>7. ASSUME NEW c \in Call, Failover(c) PROVE TypeOK'
  <2>1. Len(Gateways[c]) \in Nat
    BY <1>7, CallFlowAssumption
  <2>2. hop[c] \in 1 .. Len(Gateways[c]) /\ hop[c] < Len(Gateways[c])
    BY <1>7 DEF Failover, MayRetry, Inv, Parts, Routed
  <2>3. hop[c] + 1 \in 1 .. Len(Gateways[c]) /\ hop[c] + 1 \in Nat
    BY <1>7, <2>1, <2>2
  <2>4. NextCarrier(c) \in Carrier
    BY <1>7, <2>3, RouteType DEF NextCarrier
  <2>5. hop' \in [Call -> Nat] /\ \A d \in Call : hop'[d] \in 1 .. Len(Gateways[d]) \cup {1}
    BY <1>7, <2>3 DEF Failover, Inv, TypeOK
  <2>6. dialog' \in [Call -> Dialogs]
    BY <1>7, <2>4, DialogType DEF Failover, Inv, TypeOK
  <2>7. sent[NextCarrier(c)] + 1 \in Nat
    BY <1>7, <2>4 DEF Inv, TypeOK
  <2>8. sent' \in [Carrier -> Nat]
    BY <1>7, <2>7 DEF Failover, NextCarrier, Relay, Inv, TypeOK
  <2>9. spilled' \in [Carrier -> Nat]
    <3>1. spilled[NextCarrier(c)] + 1 \in Nat
      BY <1>7, <2>4 DEF Inv, TypeOK
    <3> QED BY <1>7, <3>1 DEF Failover, NextCarrier, Inv, TypeOK
  <2> QED BY <1>7, <2>1, <2>2, <2>3, <2>4, <2>5, <2>6, <2>7, <2>8, <2>9
    DEF Failover, MayRetry, NextCarrier, Relay, Inv, TypeOK,
        transaction, ends, tables, gate, service, history
<1>8. ASSUME NEW c \in Call, Fail(c) PROVE TypeOK'
  <2>1. dialog[c].carrier \in Carrier
    BY <1>8, RouteType DEF Fail, Inv, Parts, Routed
  <2>2. failed[c] \in Seq(Carrier)
    BY <1>8 DEF Inv, TypeOK
  <2>3. Append(failed[c], dialog[c].carrier) \in Seq(Carrier)
    BY <1>8, <2>1, <2>2
  <2>4. failed' \in [Call -> Seq(Carrier)]
    BY <1>8, <2>3 DEF Fail, Inv, TypeOK
  <2>5. dialog' \in [Call -> Dialogs]
    BY <1>8, <2>1, DialogType DEF Fail, Inv, TypeOK
  <2> QED BY <1>8, <2>1, <2>2, <2>3, <2>4, <2>5
    DEF Fail, Inv, TypeOK, transaction, ends, tables, gate, service, history
<1>9. ASSUME NEW c \in Call, Cancel(c) PROVE TypeOK'
    BY <1>9 DEF Cancel, MediaAfterCancel, Inv, TypeOK, transaction, ends, tables, gate,
        service, history
<1>10. ASSUME NEW c \in Call, DialogEnd(c) PROVE TypeOK'
  <2>1. dialog[c] \in Dialogs /\ cdrs[c] \in Seq(Rows)
    BY <1>10 DEF Inv, TypeOK
  <2>2. dialog[c].carrier \in Carrier
    BY <1>10, <2>1 DEF DialogEnd, Inv, Parts, Named, TypeOK
  <2>3. Append(cdrs[c], Row("ANSWERED", dialog[c].carrier, dialog[c].hangupBy)) \in Seq(Rows)
    BY <1>10, <2>1, <2>2, RowType, RowAppended DEF Dialogs
  <2>4. cdrs' \in [Call -> Seq(Rows)]
    BY <1>10, <2>3 DEF DialogEnd, Inv, TypeOK
  <2>5. dialog' \in [Call -> Dialogs]
    BY <1>10, <2>1, DialogType DEF DialogEnd, Dialogs, Inv, TypeOK
  <2> QED BY <1>10, <2>1, <2>2, <2>3, <2>4, <2>5
    DEF DialogEnd, Inv, TypeOK, transaction, ends, tables, gate, service, history
<1>11. ASSUME NEW c \in Call, DialogExpire(c) PROVE TypeOK'
  <2>1. dialog[c] \in Dialogs /\ cdrs[c] \in Seq(Rows)
    BY <1>11 DEF Inv, TypeOK
  <2>2. dialog[c].carrier \in Carrier
    BY <1>11, <2>1 DEF DialogExpire, Expires, Inv, Parts, Named, TypeOK
  <2>3. Append(cdrs[c], Row("ANSWERED", dialog[c].carrier, None)) \in Seq(Rows)
    BY <1>11, <2>1, <2>2, RowType, RowAppended
  <2>4. cdrs' \in [Call -> Seq(Rows)]
    BY <1>11, <2>3 DEF DialogExpire, Inv, TypeOK
  <2>5. dialog' \in [Call -> Dialogs]
    BY <1>11, DialogType DEF DialogExpire, Lost, Inv, TypeOK
  <2> QED BY <1>11, <2>1, <2>2, <2>3, <2>4, <2>5
    DEF DialogExpire, Expires, Inv, TypeOK, transaction, ends, tables, gate, service, history
<1>12. ASSUME NEW c \in Call, NEW s \in Side, HangUp(c, s) PROVE TypeOK'
    BY <1>12 DEF HangUp, Inv, TypeOK, transaction, ends, tables, gate, service, history
<1>13. ASSUME NEW c \in Call, NEW s \in Side, Bye(c, s) PROVE TypeOK'
  <2>1. dialog[c] \in Dialogs
    BY <1>13 DEF Inv, TypeOK
  <2>2. cdrs' \in [Call -> Seq(Rows)]
    BY <1>13, UpdateRows DEF Bye, Cause, Side, Inv, TypeOK
  <2>3. Dialog(dialog[c].state, dialog[c].carrier, TRUE, s) \in Dialogs
    <3>1. /\ dialog[c].state \in {"none", "early", "confirmed", "ended", "gone"}
          /\ dialog[c].carrier \in Carrier \cup {None}
        BY ONLY <2>1 DEF Dialogs
    <3>2. TRUE \in BOOLEAN /\ s \in Side \cup {None}
        OBVIOUS
    <3> QED BY <3>1, <3>2, DialogType
  <2>4. dialog' \in [Call -> Dialogs]
    BY <1>13, <2>3 DEF Bye, Inv, TypeOK
  <2>5. up' \in [Call -> SUBSET Side] /\ byes[c] \ {s} \in SUBSET Side
    BY <1>13 DEF Bye, Inv, TypeOK
  <2>6. byes' \in [Call -> SUBSET Side]
    <3>1. byes \in [Call -> SUBSET Side] /\ c \in Call
        BY <1>13 DEF Inv, TypeOK
    <3>2. byes' = [byes EXCEPT ![c] = @ \ {s}] \/ byes' = byes
        BY <1>13 DEF Bye
    <3> QED BY <2>5, <3>1, <3>2
  <2>7. cutBy' \in [Call -> Side \cup {None}]
    BY <1>13 DEF Bye, Inv, TypeOK
  <2> QED BY <1>13, <2>1, <2>2, <2>3, <2>4, <2>5, <2>6, <2>7
    DEF Bye, Known, Update, Cause, Inv, TypeOK,
        transaction, ends, tables, gate, service, history
<1>14. ASSUME NEW c \in Call, NEW s \in Side, ByeAgain(c, s) PROVE TypeOK'
    BY <1>14 DEF ByeAgain, Known, Inv, TypeOK, transaction, ends, tables, gate, service, history
<1>15. ASSUME Tick PROVE TypeOK'
    BY <1>15 DEF Tick, Inv, TypeOK, transaction, ends, tables, gate, service, history
<1>16. ASSUME Restart PROVE TypeOK'
  <2>1. dialog' \in [Call -> Dialogs]
    BY <1>16, DialogType DEF Restart, NoDialog, Lost
  <2>2. restarts' \in 0 .. MaxRestarts
    BY <1>16, CallFlowAssumption DEF Restart, Inv, TypeOK
  <2> QED BY <1>16, <2>1, <2>2
    DEF Restart, Inv, TypeOK, transaction, ends, tables, gate, service, history
<1>17. ASSUME CleanupArchive PROVE TypeOK'
  <2>1. ASSUME NEW c \in Call PROVE Archived(c) \in Seq(Rows)
    <3>1. cdrs[c] \in Seq(Rows) /\ active[c] \in Carrier \cup {None}
        BY DEF Inv, TypeOK
    <3>2. active[c] # None => Append(cdrs[c], Row("RESTART_ORPHANED", active[c], None)) \in Seq(Rows)
        BY <3>1, RowType, RowAppended
    <3> QED BY <3>1, <3>2 DEF Archived
  <2>2. cdrs' \in [Call -> Seq(Rows)]
    BY <1>17, <2>1 DEF CleanupArchive
  <2> QED BY <1>17, <2>1, <2>2
    DEF CleanupArchive, Archived, Inv, TypeOK, transaction, ends, tables, gate, service, history
<1>18. ASSUME CleanupDelete PROVE TypeOK'
    BY <1>18 DEF CleanupDelete, Inv, TypeOK, transaction, ends, tables, gate, service, history
<1>19. ASSUME UNCHANGED vars PROVE TypeOK'
    BY <1>19 DEF vars, Inv, TypeOK, transaction, ends, tables, gate, service, history
<1> QED BY <1>1, <1>2, <1>3, <1>4, <1>5, <1>6, <1>7, <1>8, <1>9, <1>10, <1>11, <1>12, <1>13,
    <1>14, <1>15, <1>16, <1>17, <1>18, <1>19
    DEF Next, Gate, Replied, Closed

\* The steps of a call.
CallStep(c) ==
    \/ Reject(c) \/ Invite(c) \/ Gate(c) \/ Replied(c) \/ Cancel(c) \/ Closed(c)
    \/ \E s \in Side : HangUp(c, s) \/ Bye(c, s) \/ ByeAgain(c, s)

\* The INVITE and the dialog of a call that is sent to a carrier.
LEMMA Sends ==
    ASSUME TypeOK, NEW c \in Call, NEW g, CarrierSend(c, g)
    PROVE  /\ invite'[c] = "sent" /\ dialog'[c].state = "early" /\ dialog'[c].carrier = g
           /\ dialog'[c].byeSeen = FALSE /\ dialog'[c].hangupBy = None
<1>1. invite'[c] = "sent" /\ dialog'[c] = Dialog("early", g, FALSE, None)
    BY DEF CarrierSend, TypeOK
<1> QED BY <1>1 DEF Dialog

\* The steps of a call leave the other calls alone.
LEMMA OthersSame ==
    ASSUME TypeOK, NEW c \in Call, CallStep(c), NEW d \in Call, d # c
    PROVE  /\ invite'[d] = invite[d] /\ hop'[d] = hop[d] /\ dialog'[d] = dialog[d]
           /\ (d \in media') = (d \in media) /\ up'[d] = up[d] /\ byes'[d] = byes[d]
           /\ active'[d] = active[d] /\ cdrs'[d] = cdrs[d] /\ failed'[d] = failed[d]
           /\ answered'[d] = answered[d] /\ cutBy'[d] = cutBy[d]
           /\ restarts' = restarts /\ cleanup' = cleanup
<1> DEFINE Same == /\ invite'[d] = invite[d] /\ hop'[d] = hop[d] /\ dialog'[d] = dialog[d]
                   /\ (d \in media') = (d \in media) /\ up'[d] = up[d] /\ byes'[d] = byes[d]
                   /\ active'[d] = active[d] /\ cdrs'[d] = cdrs[d] /\ failed'[d] = failed[d]
                   /\ answered'[d] = answered[d] /\ cutBy'[d] = cutBy[d]
                   /\ restarts' = restarts /\ cleanup' = cleanup
<1>1. CASE Reject(c)
    BY <1>1 DEF Reject, TypeOK, transaction, ends, tables, gate, service, history
<1>2. CASE Invite(c)
  <2>1. \/ invite' = [invite EXCEPT ![c] = "gate"] /\ dialog' = dialog
        \/ CarrierSend(c, Head(Gateways[c]))
    BY <1>2 DEF Invite
  <2>2. invite'[d] = invite[d] /\ dialog'[d] = dialog[d]
    BY <2>1 DEF CarrierSend, TypeOK
  <2> QED BY <1>2, <2>2 DEF Invite, TypeOK, transaction, ends, tables, gate, service, history
<1>3. CASE CpsAdmit(c)
    BY <1>3 DEF CpsAdmit, CarrierSend, Relay, HasRoom, TypeOK, transaction, ends, tables,
        gate, service, history
<1>4. CASE CpsWait(c)
    BY <1>4 DEF CpsWait, WaitsAfter, HasRoom, TypeOK, transaction, ends, tables, gate,
        service, history
<1>5. CASE CpsTimeout(c)
    BY <1>5 DEF CpsTimeout, HasRoom, TypeOK, transaction, ends, tables, gate, service, history
<1>6. CASE Answer(c)
    BY <1>6 DEF Answer, TypeOK, transaction, ends, tables, gate, service, history
<1>7. CASE Failover(c)
    BY <1>7 DEF Failover, MayRetry, NextCarrier, Relay, TypeOK, transaction, ends, tables,
        gate, service, history
<1>8. CASE Fail(c)
    BY <1>8 DEF Fail, TypeOK, transaction, ends, tables, gate, service, history
<1>9. CASE Cancel(c)
    BY <1>9 DEF Cancel, MediaAfterCancel, TypeOK, transaction, ends, tables, gate, service,
        history
<1>10. CASE DialogEnd(c)
    BY <1>10 DEF DialogEnd, TypeOK, transaction, ends, tables, gate, service, history
<1>11. CASE DialogExpire(c)
    BY <1>11 DEF DialogExpire, Expires, TypeOK, transaction, ends, tables, gate, service,
        history
<1>12. ASSUME NEW s \in Side, HangUp(c, s) PROVE Same
    BY <1>12 DEF HangUp, TypeOK, transaction, ends, tables, gate, service, history
<1>13. ASSUME NEW s \in Side, Bye(c, s) PROVE Same
    BY <1>13 DEF Bye, Known, Update, Cause, TypeOK, transaction, ends, tables, gate,
        service, history
<1>14. ASSUME NEW s \in Side, ByeAgain(c, s) PROVE Same
    BY <1>14 DEF ByeAgain, Known, TypeOK, transaction, ends, tables, gate, service, history
<1> QED BY <1>1, <1>2, <1>3, <1>4, <1>5, <1>6, <1>7, <1>8, <1>9, <1>10, <1>11, <1>12, <1>13,
    <1>14 DEF CallStep, Gate, Replied, Closed

LEMMA RejectParts ==
    ASSUME Inv, NEW c \in Call, Reject(c) PROVE Parts(c)'
<1>1. TypeOK /\ Parts(c)
    BY DEF Inv
<1>2. Routed(c)'
    BY <1>1 DEF Reject, Parts, Routed
<1>3. Named(c)'
    BY <1>1 DEF Reject, ends, tables, history, Parts, Named
<1>4. Unrecorded(c)'
    BY <1>1 DEF Reject, tables, service, Parts, Unrecorded
<1>5. Cut(c)'
    BY <1>1 DEF Reject, tables, history, Parts, Cut
<1>6. Freed(c)'
    BY <1>1 DEF Reject, Parts, Freed
<1>7. Kept(c)'
    BY <1>1 DEF Reject, tables, service, history, Parts, Kept
<1> QED BY <1>2, <1>3, <1>4, <1>5, <1>6, <1>7 DEF Parts

LEMMA InviteParts ==
    ASSUME Inv, NEW c \in Call, Invite(c) PROVE Parts(c)'
<1>1. TypeOK /\ Parts(c)
    BY DEF Inv
<1>2. dialog[c].state = "none" /\ answered[c] = None /\ hop[c] = 1
    BY <1>1 DEF Invite, Parts, Routed, Named
<1>3. 1 \in 1 .. Len(Gateways[c]) /\ Gateways[c] # <<>> /\ Head(Gateways[c]) = Gateways[c][1]
    BY DEF Invite
<1>4. \/ invite' = [invite EXCEPT ![c] = "gate"] /\ dialog' = dialog
      \/ CarrierSend(c, Gateways[c][1])
    BY DEF Invite
<1>5. \/ invite'[c] = "gate" /\ dialog'[c] = dialog[c]
      \/ /\ invite'[c] = "sent" /\ dialog'[c].state = "early" /\ dialog'[c].carrier = Gateways[c][1]
         /\ dialog'[c].byeSeen = FALSE /\ dialog'[c].hangupBy = None
  <2>1. CASE invite' = [invite EXCEPT ![c] = "gate"] /\ dialog' = dialog
    BY <1>1, <2>1 DEF TypeOK
  <2>2. CASE CarrierSend(c, Gateways[c][1])
    BY <1>1, <2>2, Sends
  <2> QED BY <1>4, <2>1, <2>2
<1>6. UNCHANGED <<hop, answered, cdrs, failed, active, up, byes, cutBy, restarts, cleanup>>
    BY DEF Invite, ends, tables, service, history
<1>7. Routed(c)'
    BY <1>2, <1>5 DEF Routed, Invite
<1>8. Named(c)'
    BY <1>1, <1>2, <1>5, <1>6 DEF Parts, Named
<1>9. Unrecorded(c)'
    BY <1>1, <1>2, <1>6 DEF Parts, Unrecorded
<1>10. Cut(c)'
    BY <1>1, <1>2, <1>5, <1>6 DEF Parts, Cut
<1>11. Freed(c)'
    BY <1>2, <1>5 DEF Freed
<1>12. Kept(c)'
    BY <1>2, <1>5, <1>6 DEF Kept
<1> QED BY <1>7, <1>8, <1>9, <1>10, <1>11, <1>12 DEF Parts

LEMMA CpsAdmitParts ==
    ASSUME Inv, NEW c \in Call, CpsAdmit(c) PROVE Parts(c)'
<1>1. TypeOK /\ Parts(c)
    BY DEF Inv
<1>2. dialog[c].state = "none" /\ answered[c] = None /\ hop[c] = 1 /\ Gateways[c] # <<>>
    BY <1>1 DEF CpsAdmit, Parts, Routed, Named
<1>3. 1 \in 1 .. Len(Gateways[c]) /\ CarrierSend(c, Gateways[c][1])
    BY <1>2 DEF CpsAdmit
<1>4. /\ invite'[c] = "sent" /\ dialog'[c].state = "early" /\ dialog'[c].carrier = Gateways[c][1]
      /\ dialog'[c].byeSeen = FALSE /\ dialog'[c].hangupBy = None
    BY <1>1, <1>3, Sends
<1>5. UNCHANGED <<hop, answered, cdrs, failed, active, up, byes, cutBy, restarts, cleanup, media>>
    BY DEF CpsAdmit, ends, tables, service, history
<1>6. Routed(c)'
    BY <1>2, <1>4 DEF Routed, CpsAdmit
<1>7. Named(c)'
    BY <1>1, <1>2, <1>4, <1>5 DEF Parts, Named
<1>8. Unrecorded(c)'
    BY <1>1, <1>2, <1>5 DEF Parts, Unrecorded
<1>9. Cut(c)'
    BY <1>1, <1>2, <1>4, <1>5 DEF Parts, Cut
<1>10. Freed(c)'
    BY <1>4 DEF Freed
<1>11. Kept(c)'
    BY <1>2, <1>4, <1>5 DEF Kept
<1> QED BY <1>6, <1>7, <1>8, <1>9, <1>10, <1>11 DEF Parts

LEMMA CpsWaitParts ==
    ASSUME Inv, NEW c \in Call, CpsWait(c) PROVE Parts(c)'
<1>1. TypeOK /\ Parts(c)
    BY DEF Inv
<1>2. Routed(c)'
    BY <1>1 DEF CpsWait, Parts, Routed
<1>3. Named(c)'
    BY <1>1 DEF CpsWait, ends, tables, history, Parts, Named
<1>4. Unrecorded(c)'
    BY <1>1 DEF CpsWait, tables, service, Parts, Unrecorded
<1>5. Cut(c)'
    BY <1>1 DEF CpsWait, tables, history, Parts, Cut
<1>6. Freed(c)'
    BY <1>1 DEF CpsWait, ends, Parts, Freed
<1>7. Kept(c)'
    BY <1>1 DEF CpsWait, tables, service, history, Parts, Kept
<1> QED BY <1>2, <1>3, <1>4, <1>5, <1>6, <1>7 DEF Parts

LEMMA CpsTimeoutParts ==
    ASSUME Inv, NEW c \in Call, CpsTimeout(c) PROVE Parts(c)'
<1>1. TypeOK /\ Parts(c)
    BY DEF Inv
<1>2. Routed(c)'
    BY <1>1 DEF CpsTimeout, Parts, Routed
<1>3. Named(c)'
    BY <1>1 DEF CpsTimeout, ends, tables, history, Parts, Named
<1>4. Unrecorded(c)'
    BY <1>1 DEF CpsTimeout, tables, service, Parts, Unrecorded
<1>5. Cut(c)'
    BY <1>1 DEF CpsTimeout, tables, history, Parts, Cut
<1>6. Freed(c)'
    BY DEF CpsTimeout, Freed
<1>7. Kept(c)'
    BY <1>1 DEF CpsTimeout, tables, service, history, Parts, Kept
<1> QED BY <1>2, <1>3, <1>4, <1>5, <1>6, <1>7 DEF Parts

LEMMA AnswerParts ==
    ASSUME Inv, NEW c \in Call, Answer(c) PROVE Parts(c)'
<1>1. TypeOK /\ Parts(c)
    BY DEF Inv
<1>2. /\ dialog[c].state = "early" /\ dialog[c].carrier = Gateways[c][hop[c]]
      /\ dialog[c].carrier \in Carrier /\ dialog[c].carrier # None
      /\ cdrs[c] = <<>> /\ Len(cdrs[c]) = 0 /\ cutBy[c] = None
    BY <1>1 DEF Answer, Parts, Routed, Named
<1>3. invite'[c] = "done" /\ dialog'[c] = Dialog("confirmed", dialog[c].carrier, FALSE, None)
    BY <1>1 DEF Answer, TypeOK
<1>4. /\ dialog'[c].state = "confirmed" /\ dialog'[c].carrier = dialog[c].carrier
      /\ dialog'[c].byeSeen = FALSE /\ dialog'[c].hangupBy = None
    BY <1>3 DEF Dialog
<1>5. active'[c] = dialog[c].carrier /\ answered'[c] = dialog[c].carrier /\ Len(cdrs'[c]) = 0
    BY <1>1, <1>2 DEF Answer, TypeOK
<1>6. UNCHANGED <<hop, cdrs, failed, byes, cutBy, restarts, cleanup, media>>
    BY DEF Answer, service
<1>7. Routed(c)'
    BY <1>3, <1>4 DEF Routed
<1>8. Named(c)'
  <2>1. answered'[c] # None /\ dialog'[c].state = "confirmed" /\ dialog'[c].carrier = answered'[c]
    BY <1>2, <1>4, <1>5
  <2>2. active'[c] = answered'[c]
    BY <1>5
  <2>3. \A i \in 1 .. Len(cdrs'[c]) : cdrs'[c][i].carrier = answered'[c]
    BY <1>5
  <2> QED BY <2>1, <2>2, <2>3 DEF Named
<1>9. Unrecorded(c)'
    BY <1>1, <1>2, <1>6 DEF Parts, Unrecorded
<1>10. Cut(c)'
    BY <1>1, <1>2, <1>4, <1>6 DEF Cut
<1>11. Freed(c)'
    BY <1>3, <1>4 DEF Freed
<1>12. Kept(c)'
    BY <1>2, <1>4, <1>5 DEF Kept
<1> QED BY <1>7, <1>8, <1>9, <1>10, <1>11, <1>12 DEF Parts

LEMMA FailoverParts ==
    ASSUME Inv, NEW c \in Call, Failover(c) PROVE Parts(c)'
<1>1. TypeOK /\ Parts(c)
    BY DEF Inv
<1>2. /\ invite[c] = "sent" /\ dialog[c].state = "early" /\ answered[c] = None
      /\ hop[c] \in 1 .. Len(Gateways[c]) /\ hop[c] < Len(Gateways[c])
      /\ Len(Gateways[c]) \in Nat
    BY <1>1 DEF Failover, MayRetry, Parts, Routed, Named
<1>3. hop'[c] = hop[c] + 1 /\ dialog'[c] = Dialog("early", Gateways[c][hop[c] + 1], FALSE, None)
    BY <1>1 DEF Failover, NextCarrier, TypeOK
<1>4. /\ dialog'[c].state = "early" /\ dialog'[c].carrier = Gateways[c][hop[c] + 1]
      /\ dialog'[c].byeSeen = FALSE /\ dialog'[c].hangupBy = None
    BY <1>3 DEF Dialog
<1>5. hop'[c] \in 1 .. Len(Gateways[c])
    BY <1>2, <1>3
<1>6. UNCHANGED <<invite, answered, cdrs, failed, active, up, byes, cutBy, restarts, cleanup, media>>
    BY DEF Failover, ends, tables, service, history
<1>7. Routed(c)'
    BY <1>2, <1>3, <1>4, <1>5 DEF Routed, Failover
<1>8. Named(c)'
    BY <1>1, <1>2, <1>4, <1>6 DEF Parts, Named
<1>9. Unrecorded(c)'
    BY <1>1, <1>2, <1>6 DEF Parts, Unrecorded
<1>10. Cut(c)'
    BY <1>1, <1>2, <1>4, <1>6 DEF Parts, Cut
<1>11. Freed(c)'
    BY <1>2, <1>4 DEF Freed, Failover
<1>12. Kept(c)'
    BY <1>2, <1>4, <1>6 DEF Kept
<1> QED BY <1>7, <1>8, <1>9, <1>10, <1>11, <1>12 DEF Parts

LEMMA FailParts ==
    ASSUME Inv, NEW c \in Call, Fail(c) PROVE Parts(c)'
<1>1. TypeOK /\ Parts(c)
    BY DEF Inv
<1>2. dialog[c].state = "early" /\ answered[c] = None
    BY <1>1 DEF Fail, Parts, Routed, Named
<1>3. invite'[c] = "done" /\ dialog'[c] = Dialog("ended", dialog[c].carrier, FALSE, None)
    BY <1>1 DEF Fail, TypeOK
<1>4. /\ dialog'[c].state = "ended" /\ dialog'[c].carrier = dialog[c].carrier
      /\ dialog'[c].byeSeen = FALSE /\ dialog'[c].hangupBy = None
    BY <1>3 DEF Dialog
<1>5. c \notin media' /\ failed'[c] = Append(failed[c], dialog[c].carrier)
    BY <1>1 DEF Fail, TypeOK
<1>6. /\ restarts = 0 => Len(cdrs[c]) = 0 /\ Len(failed[c]) = 0
      /\ Len(failed'[c]) = Len(failed[c]) + 1 /\ Len(cdrs'[c]) = Len(cdrs[c])
    BY <1>1, <1>2 DEF Fail, Parts, Unrecorded, TypeOK
<1>7. UNCHANGED <<hop, answered, cdrs, active, up, byes, cutBy, restarts, cleanup>>
    BY DEF Fail, ends, service, history
<1>8. Routed(c)'
    BY <1>3, <1>4 DEF Routed
<1>9. Named(c)'
    BY <1>1, <1>4, <1>7 DEF Parts, Named
<1>10. Unrecorded(c)'
  <2>1. dialog'[c].state \notin {"none", "early", "confirmed"}
    BY <1>4
  <2>2. restarts' = 0 => Len(cdrs'[c]) = 0 /\ Len(failed'[c]) = 1
    BY <1>6, <1>7
  <2>3. ASSUME restarts' = 0 PROVE Len(cdrs'[c]) + Len(failed'[c]) <= 1
    <3>1. Len(cdrs'[c]) = 0 /\ Len(failed'[c]) = 1
        BY <2>2, <2>3
    <3> QED BY <3>1
  <2> QED BY <2>1, <2>3 DEF Unrecorded
<1>11. Cut(c)'
    BY <1>1, <1>2, <1>4, <1>7 DEF Parts, Named, Cut
<1>12. Freed(c)'
    BY DEF Freed, Fail
<1>13. Kept(c)'
    BY <1>2, <1>4, <1>7 DEF Kept
<1> QED BY <1>8, <1>9, <1>10, <1>11, <1>12, <1>13 DEF Parts

LEMMA CancelParts ==
    ASSUME Inv, NEW c \in Call, Cancel(c) PROVE Parts(c)'
<1>1. TypeOK /\ Parts(c)
    BY DEF Inv
<1>2. Routed(c)'
    BY <1>1 DEF Cancel, Parts, Routed
<1>3. Named(c)'
    BY <1>1 DEF Cancel, ends, tables, history, Parts, Named
<1>4. Unrecorded(c)'
    BY <1>1 DEF Cancel, tables, service, Parts, Unrecorded
<1>5. Cut(c)'
    BY <1>1 DEF Cancel, tables, history, Parts, Cut
<1>6. Freed(c)'
    BY DEF Cancel, MediaAfterCancel, Freed
<1>7. Kept(c)'
    BY <1>1 DEF Cancel, tables, service, history, Parts, Kept
<1> QED BY <1>2, <1>3, <1>4, <1>5, <1>6, <1>7 DEF Parts

LEMMA DialogEndParts ==
    ASSUME Inv, NEW c \in Call, DialogEnd(c) PROVE Parts(c)'
<1> DEFINE row == Row("ANSWERED", dialog[c].carrier, dialog[c].hangupBy)
<1>1. TypeOK /\ Parts(c)
    BY DEF Inv
<1>2. /\ dialog[c].state = "confirmed" /\ dialog[c].carrier = answered[c]
      /\ answered[c] \in Carrier /\ dialog[c] \in Dialogs /\ cdrs[c] \in Seq(Rows)
      /\ answered[c] # None
    BY <1>1 DEF DialogEnd, Parts, Named, TypeOK
<1>3. dialog'[c] = Dialog("ended", dialog[c].carrier, dialog[c].byeSeen, dialog[c].hangupBy)
    BY <1>1 DEF DialogEnd, TypeOK
<1>4. /\ dialog'[c].state = "ended" /\ dialog'[c].carrier = dialog[c].carrier
      /\ dialog'[c].byeSeen = dialog[c].byeSeen /\ dialog'[c].hangupBy = dialog[c].hangupBy
    BY <1>3 DEF Dialog
<1>5. cdrs'[c] = Append(cdrs[c], row) /\ active'[c] = None
    BY <1>1 DEF DialogEnd, TypeOK
<1>6. /\ row \in Rows /\ row.disposition = "ANSWERED"
      /\ row.carrier = answered[c] /\ row.cause = dialog[c].hangupBy
    BY <1>2, RowType DEF Dialogs, Row
<1>7. /\ Len(cdrs'[c]) = Len(cdrs[c]) + 1 /\ Len(cdrs[c]) \in Nat
      /\ \A i \in 1 .. Len(cdrs[c]) : cdrs'[c][i] = cdrs[c][i]
      /\ cdrs'[c][Len(cdrs[c]) + 1].disposition = "ANSWERED"
      /\ cdrs'[c][Len(cdrs[c]) + 1].carrier = answered[c]
      /\ cdrs'[c][Len(cdrs[c]) + 1].cause = dialog[c].hangupBy
    BY <1>2, <1>5, <1>6, RowAppended
<1>8. /\ cdrs'[c] # <<>>
      /\ \A i \in 1 .. Len(cdrs'[c]) : i \in 1 .. Len(cdrs[c]) \/ i = Len(cdrs[c]) + 1
    BY <1>7
<1>9. restarts' = 0 => Len(cdrs[c]) = 0 /\ Len(failed'[c]) = 0
    BY <1>1 DEF DialogEnd, Parts, Unrecorded, service
<1>10. UNCHANGED <<invite, hop, answered, failed, up, byes, cutBy, restarts, cleanup, media>>
    BY DEF DialogEnd, transaction, ends, service, history
<1>11. Routed(c)'
    BY <1>1, <1>4, <1>10 DEF Parts, Routed, DialogEnd
<1>12. Named(c)'
  <2>1. \A i \in 1 .. Len(cdrs'[c]) : cdrs'[c][i].carrier = answered[c]
    <3>1. \A i \in 1 .. Len(cdrs[c]) : cdrs[c][i].carrier = answered[c]
        BY <1>1 DEF Parts, Named
    <3> QED BY <1>7, <1>8, <3>1
  <2> QED BY <1>2, <1>4, <1>5, <1>10, <2>1 DEF Named
<1>13. Unrecorded(c)'
  <2>1. dialog'[c].state \notin {"none", "early", "confirmed"}
    BY <1>4
  <2>2. ASSUME restarts' = 0 PROVE Len(cdrs'[c]) + Len(failed'[c]) <= 1
    <3>1. Len(cdrs'[c]) = 1 /\ Len(failed'[c]) = 0
        BY <2>2, <1>7, <1>9
    <3> QED BY <3>1
  <2> QED BY <2>1, <2>2 DEF Unrecorded
<1>14. Cut(c)'
    BY <1>1, <1>2, <1>4, <1>7, <1>8, <1>10 DEF Parts, Cut
<1>15. Freed(c)'
    BY <1>1, <1>4, <1>10 DEF Parts, Freed, DialogEnd
<1>16. Kept(c)'
    BY <1>4, <1>8 DEF Kept
<1> QED BY <1>11, <1>12, <1>13, <1>14, <1>15, <1>16 DEF Parts

LEMMA DialogExpireParts ==
    ASSUME Inv, NEW c \in Call, DialogExpire(c) PROVE Parts(c)'
<1> DEFINE row == Row("ANSWERED", dialog[c].carrier, None)
<1>1. TypeOK /\ Parts(c)
    BY DEF Inv
<1>2. /\ dialog[c].state = "confirmed" /\ dialog[c].carrier = answered[c]
      /\ answered[c] \in Carrier /\ dialog[c] \in Dialogs /\ cdrs[c] \in Seq(Rows)
      /\ answered[c] # None
    BY <1>1 DEF DialogExpire, Expires, Parts, Named, TypeOK
<1>3. dialog'[c] = Dialog("gone", None, FALSE, None)
    BY <1>1 DEF DialogExpire, Lost, TypeOK
<1>4. /\ dialog'[c].state = "gone" /\ dialog'[c].carrier = None
      /\ dialog'[c].byeSeen = FALSE /\ dialog'[c].hangupBy = None
    BY <1>3 DEF Dialog
<1>5. cdrs'[c] = Append(cdrs[c], row) /\ active'[c] = None
    BY <1>1 DEF DialogExpire, TypeOK
<1>6. /\ row \in Rows /\ row.disposition = "ANSWERED"
      /\ row.carrier = answered[c] /\ row.cause = None
    BY <1>2, RowType DEF Row
<1>7. /\ Len(cdrs'[c]) = Len(cdrs[c]) + 1 /\ Len(cdrs[c]) \in Nat
      /\ \A i \in 1 .. Len(cdrs[c]) : cdrs'[c][i] = cdrs[c][i]
      /\ cdrs'[c][Len(cdrs[c]) + 1].disposition = "ANSWERED"
      /\ cdrs'[c][Len(cdrs[c]) + 1].carrier = answered[c]
      /\ cdrs'[c][Len(cdrs[c]) + 1].cause = None
    BY <1>2, <1>5, <1>6, RowAppended
<1>8. /\ cdrs'[c] # <<>>
      /\ \A i \in 1 .. Len(cdrs'[c]) : i \in 1 .. Len(cdrs[c]) \/ i = Len(cdrs[c]) + 1
    BY <1>7
<1>9. restarts' = 0 => Len(cdrs[c]) = 0 /\ Len(failed'[c]) = 0
    BY <1>1, <1>2 DEF DialogExpire, Parts, Unrecorded, service
<1>10. UNCHANGED <<invite, hop, answered, failed, up, byes, cutBy, restarts, cleanup, media>>
    BY DEF DialogExpire, transaction, ends, service, history
<1>11. Routed(c)'
    BY <1>1, <1>2, <1>4, <1>10 DEF Parts, Routed
<1>12. Named(c)'
  <2>1. \A i \in 1 .. Len(cdrs'[c]) : cdrs'[c][i].carrier = answered[c]
    <3>1. \A i \in 1 .. Len(cdrs[c]) : cdrs[c][i].carrier = answered[c]
        BY <1>1 DEF Parts, Named
    <3> QED BY <1>7, <1>8, <3>1
  <2> QED BY <1>2, <1>4, <1>5, <1>10, <2>1 DEF Named
<1>13. Unrecorded(c)'
  <2>1. dialog'[c].state \notin {"none", "early", "confirmed"}
    BY <1>4
  <2>2. ASSUME restarts' = 0 PROVE Len(cdrs'[c]) + Len(failed'[c]) <= 1
    <3>1. Len(cdrs'[c]) = 1 /\ Len(failed'[c]) = 0
        BY <2>2, <1>7, <1>9
    <3> QED BY <3>1
  <2> QED BY <2>1, <2>2 DEF Unrecorded
<1>14. Cut(c)'
    BY <1>4 DEF Cut
<1>15. Freed(c)'
    BY <1>1, <1>4, <1>10 DEF Parts, Freed
<1>16. Kept(c)'
    BY <1>4, <1>8 DEF Kept
<1> QED BY <1>11, <1>12, <1>13, <1>14, <1>15, <1>16 DEF Parts

LEMMA HangUpParts ==
    ASSUME Inv, NEW c \in Call, NEW s \in Side, HangUp(c, s) PROVE Parts(c)'
<1>1. TypeOK /\ Parts(c)
    BY DEF Inv
<1>2. Routed(c)'
    BY <1>1 DEF HangUp, transaction, Parts, Routed
<1>3. Named(c)'
    BY <1>1 DEF HangUp, tables, history, Parts, Named
<1>4. Unrecorded(c)'
    BY <1>1 DEF HangUp, tables, service, Parts, Unrecorded
<1>5. Cut(c)'
    BY <1>1 DEF HangUp, tables, history, Parts, Cut
<1>6. Freed(c)'
    BY <1>1 DEF HangUp, transaction, Parts, Freed
<1>7. Kept(c)'
    BY <1>1 DEF HangUp, tables, service, history, Parts, Kept
<1> QED BY <1>2, <1>3, <1>4, <1>5, <1>6, <1>7 DEF Parts

LEMMA ByeAgainParts ==
    ASSUME Inv, NEW c \in Call, NEW s \in Side, ByeAgain(c, s) PROVE Parts(c)'
<1>1. TypeOK /\ Parts(c)
    BY DEF Inv
<1>2. Routed(c)'
    BY <1>1 DEF ByeAgain, transaction, Parts, Routed
<1>3. Named(c)'
    BY <1>1 DEF ByeAgain, tables, history, Parts, Named
<1>4. Unrecorded(c)'
    BY <1>1 DEF ByeAgain, tables, service, Parts, Unrecorded
<1>5. Cut(c)'
    BY <1>1 DEF ByeAgain, tables, history, Parts, Cut
<1>6. Freed(c)'
    BY <1>1 DEF ByeAgain, transaction, Parts, Freed
<1>7. Kept(c)'
    BY <1>1 DEF ByeAgain, tables, service, history, Parts, Kept
<1> QED BY <1>2, <1>3, <1>4, <1>5, <1>6, <1>7 DEF Parts

LEMMA ByeParts ==
    ASSUME Inv, NEW c \in Call, NEW s \in Side, Bye(c, s) PROVE Parts(c)'
<1>1. TypeOK /\ Parts(c)
    BY DEF Inv
<1>2. answered[c] # None /\ s # None
    BY <1>1, CallFlowAssumption DEF Bye, Parts, Named
<1>3. Cause(c, s) \in Side \cup {None} /\ (Known(c) => Cause(c, s) = s)
    BY DEF Cause, Side
<1>4. cdrs'[c] = Update(c, Cause(c, s))
    BY <1>1 DEF Bye, TypeOK
<1>5. /\ Len(cdrs'[c]) = Len(cdrs[c])
      /\ \A i \in 1 .. Len(cdrs[c]) : /\ cdrs'[c][i].disposition = cdrs[c][i].disposition
                                      /\ cdrs'[c][i].carrier = cdrs[c][i].carrier
                                      /\ cdrs'[c][i].cause = Cause(c, s)
    BY <1>1, <1>3, <1>4, UpdateRows
<1>6. cdrs'[c] = <<>> <=> cdrs[c] = <<>>
  <2>1. cdrs[c] \in Seq(Rows) /\ cdrs'[c] \in Seq(Rows)
    BY <1>1, <1>3, <1>4, UpdateRows DEF TypeOK
  <2>2. Len(cdrs'[c]) = Len(cdrs[c])
    BY <1>5
  <2> QED BY ONLY <2>1, <2>2
<1>7. Known(c) => /\ dialog'[c].state = dialog[c].state /\ dialog'[c].carrier = dialog[c].carrier
                  /\ dialog'[c].byeSeen = TRUE /\ dialog'[c].hangupBy = s
  <2>1. Known(c) => dialog'[c] = Dialog(dialog[c].state, dialog[c].carrier, TRUE, s)
    BY <1>1 DEF Bye, TypeOK
  <2> QED BY <2>1 DEF Dialog
<1>8. ~Known(c) => dialog'[c] = dialog[c]
    BY <1>1 DEF Bye, TypeOK
<1>9. Known(c) => cutBy'[c] = s
  <2>1. Known(c) => cutBy[c] = None
    BY <1>1 DEF Bye, Known, Parts, Cut
  <2> QED BY <1>1, <2>1 DEF Bye, TypeOK
<1>10. UNCHANGED <<invite, hop, answered, failed, active, restarts, cleanup>>
    BY DEF Bye, transaction, service
<1>11. Routed(c)'
    BY <1>1, <1>7, <1>8, <1>10 DEF Parts, Routed
<1>12. Named(c)'
    BY <1>1, <1>2, <1>5, <1>7, <1>8, <1>10 DEF Parts, Named
<1>13. Unrecorded(c)'
    BY <1>1, <1>5, <1>6, <1>7, <1>8, <1>10 DEF Parts, Unrecorded
<1>14. Cut(c)'
    BY <1>1, <1>2, <1>3, <1>5, <1>7, <1>8, <1>9 DEF Parts, Cut, Known
<1>15. Freed(c)'
    BY <1>1 DEF Bye, Freed, TypeOK
<1>16. Kept(c)'
    BY <1>1, <1>6, <1>7, <1>8, <1>10 DEF Parts, Kept
<1> QED BY <1>11, <1>12, <1>13, <1>14, <1>15, <1>16 DEF Parts

\* A step of one call leaves what is said of the others as it was.
LEMMA OthersParts ==
    ASSUME Inv, NEW c \in Call, CallStep(c), NEW d \in Call, d # c PROVE Parts(d)'
<1>1. TypeOK /\ Parts(d)
    BY DEF Inv
<1>2. /\ invite'[d] = invite[d] /\ hop'[d] = hop[d] /\ dialog'[d] = dialog[d]
      /\ (d \in media') = (d \in media) /\ up'[d] = up[d] /\ byes'[d] = byes[d]
      /\ active'[d] = active[d] /\ cdrs'[d] = cdrs[d] /\ failed'[d] = failed[d]
      /\ answered'[d] = answered[d] /\ cutBy'[d] = cutBy[d]
      /\ restarts' = restarts /\ cleanup' = cleanup
    BY <1>1, OthersSame
<1>3. Routed(d)' /\ Freed(d)' /\ Kept(d)'
    BY <1>1, <1>2 DEF Parts, Routed, Freed, Kept
<1>4. Named(d)'
    BY <1>1, <1>2 DEF Parts, Named
<1>5. Unrecorded(d)'
    BY <1>1, <1>2 DEF Parts, Unrecorded
<1>6. Cut(d)'
    BY <1>1, <1>2 DEF Parts, Cut
<1> QED BY <1>3, <1>4, <1>5, <1>6 DEF Parts

LEMMA CallStepParts ==
    ASSUME Inv, NEW c \in Call, CallStep(c) PROVE Parts(c)'
BY RejectParts, InviteParts, CpsAdmitParts, CpsWaitParts, CpsTimeoutParts, AnswerParts,
   FailoverParts, FailParts, CancelParts, DialogEndParts, DialogExpireParts, HangUpParts,
   ByeParts, ByeAgainParts DEF CallStep, Gate, Replied, Closed

LEMMA TickParts ==
    ASSUME Inv, Tick, NEW c \in Call PROVE Parts(c)'
BY DEF Inv, Tick, transaction, ends, tables, service, history,
       Parts, Routed, Named, Unrecorded, Cut, Freed, Kept

\* A restart may lose a call that no table has, and then no script has run yet.
LEMMA RestartParts ==
    ASSUME Inv, Restart, NEW c \in Call PROVE Parts(c)'
<1>1. TypeOK /\ Parts(c)
    BY DEF Inv
<1>2. restarts' = restarts + 1 /\ restarts \in Nat /\ cleanup' = "due"
    BY <1>1, CallFlowAssumption DEF Restart, TypeOK
<1>3. restarts' # 0 /\ (restarts' < 2 => restarts = 0)
    BY <1>2
<1>4. UNCHANGED <<hop, media, up, byes, active, cdrs, failed, answered, cutBy>>
    BY DEF Restart, ends, tables, history
<1>5. CASE invite[c] = "new"
  <2>1. invite'[c] = "new" /\ dialog'[c].state = "none"
    BY <1>5 DEF Restart, NoDialog, Dialog
  <2>2. dialog[c].state = "none" /\ answered[c] = None /\ Len(cdrs[c]) = 0
    BY <1>1, <1>5 DEF Parts, Routed, Named
  <2> QED BY <1>1, <1>3, <1>4, <1>5, <2>1, <2>2
    DEF Parts, Routed, Named, Unrecorded, Cut, Freed, Kept
<1>6. CASE invite[c] # "new"
  <2>1. invite'[c] = "done" /\ dialog'[c].state = "gone"
    BY <1>6 DEF Restart, Lost, Dialog
  <2>2. restarts = 0 /\ answered[c] # None => cdrs[c] # <<>> \/ active[c] # None
    BY <1>1 DEF Parts, Kept
  <2>3. Kept(c)'
    BY <1>2, <1>3, <1>4, <2>1, <2>2 DEF Kept
  <2>4. Cut(c)' /\ Freed(c)'
    BY <2>1 DEF Cut, Freed
  <2>5. Routed(c)' /\ Named(c)' /\ Unrecorded(c)'
    BY <1>1, <1>3, <1>4, <2>1 DEF Parts, Routed, Named, Unrecorded
  <2> QED BY <2>3, <2>4, <2>5 DEF Parts
<1> QED BY <1>5, <1>6

LEMMA CleanupArchiveParts ==
    ASSUME Inv, CleanupArchive, NEW c \in Call PROVE Parts(c)'
<1>1. TypeOK /\ Parts(c) /\ restarts # 0
    BY DEF Inv, CleanupArchive
<1>2. UNCHANGED <<invite, hop, dialog, media, up, byes, active, failed, restarts, answered, cutBy>>
    BY DEF CleanupArchive, transaction, ends, history
<1>3. CASE active[c] = None
  <2>1. cdrs'[c] = cdrs[c]
    BY <1>3 DEF CleanupArchive, Archived
  <2> QED BY <1>1, <1>2, <1>3, <2>1 DEF Parts, Routed, Named, Unrecorded, Cut, Freed, Kept
<1>4. CASE active[c] # None
  <2> DEFINE row == Row("RESTART_ORPHANED", active[c], None)
             n == Len(cdrs[c])
  <2>1. active[c] = answered[c] /\ answered[c] # None /\ active[c] \in Carrier
    BY <1>1, <1>4 DEF Parts, Named, TypeOK
  <2>2. row \in Rows /\ row.disposition # "ANSWERED" /\ row.carrier = answered[c]
    BY <2>1, RowType, RowFields DEF Row
  <2>3. cdrs'[c] = Append(cdrs[c], row) /\ cdrs[c] \in Seq(Rows)
    BY <1>1, <1>4 DEF CleanupArchive, Archived, TypeOK
  <2> HIDE DEF row
  <2>4. /\ Len(cdrs'[c]) = n + 1 /\ n \in Nat
        /\ \A i \in 1 .. n : cdrs'[c][i] = cdrs[c][i]
        /\ cdrs'[c][n + 1] = row
    BY <2>2, <2>3, RowAppended
  <2>5. cdrs'[c] # <<>> /\ \A i \in 1 .. Len(cdrs'[c]) : i \in 1 .. n \/ i = n + 1
    BY <2>4
  <2>6. Named(c)'
    BY <1>1, <1>2, <2>1, <2>2, <2>4, <2>5 DEF Parts, Named
  <2>7. Cut(c)'
    BY <1>1, <1>2, <2>2, <2>4, <2>5 DEF Parts, Cut
  <2>8. Routed(c)' /\ Unrecorded(c)' /\ Freed(c)' /\ Kept(c)'
    BY <1>1, <1>2, <2>5 DEF Parts, Routed, Unrecorded, Freed, Kept
  <2> QED BY <2>6, <2>7, <2>8 DEF Parts
<1> QED BY <1>3, <1>4

LEMMA CleanupDeleteParts ==
    ASSUME Inv, CleanupDelete, NEW c \in Call PROVE Parts(c)'
<1>1. TypeOK /\ Parts(c) /\ restarts # 0 /\ cleanup = "archived"
    BY DEF Inv, CleanupDelete
<1>2. UNCHANGED <<invite, hop, dialog, media, up, byes, cdrs, failed, restarts, answered, cutBy>>
    BY DEF CleanupDelete, transaction, ends, history
<1>3. active'[c] = None
    BY DEF CleanupDelete
<1> QED BY <1>1, <1>2, <1>3 DEF Parts, Routed, Named, Unrecorded, Cut, Freed, Kept

\* The script only runs after a restart.
LEMMA IdleNext == Inv /\ [Next]_vars => (restarts = 0 => cleanup = "idle")'
<1> SUFFICES ASSUME Inv, [Next]_vars PROVE (restarts = 0 => cleanup = "idle")'
    OBVIOUS
<1>1. ASSUME NEW c \in Call, CallStep(c) PROVE UNCHANGED <<restarts, cleanup>>
    BY <1>1 DEF CallStep, Gate, Replied, Closed, Reject, Invite, CpsAdmit, CpsWait, CpsTimeout,
        Answer, Failover, Fail, Cancel, DialogEnd, DialogExpire, HangUp, Bye, ByeAgain, service
<1>2. CASE Tick \/ CleanupArchive \/ CleanupDelete \/ UNCHANGED vars
    BY <1>2 DEF Inv, Tick, CleanupArchive, CleanupDelete, vars, service
<1>3. CASE Restart
  <2>1. restarts' = restarts + 1 /\ restarts \in Nat
    BY <1>3, CallFlowAssumption DEF Restart, Inv, TypeOK
  <2> QED BY <2>1
<1> QED BY <1>1, <1>2, <1>3 DEF Inv, Next, CallStep

LEMMA PartsNext == Inv /\ [Next]_vars => \A c \in Call : Parts(c)'
<1> SUFFICES ASSUME Inv, [Next]_vars, NEW c \in Call PROVE Parts(c)'
    OBVIOUS
<1>1. ASSUME NEW d \in Call, CallStep(d) PROVE Parts(c)'
    BY <1>1, CallStepParts, OthersParts
<1>2. CASE UNCHANGED vars
    BY <1>2 DEF Inv, vars, transaction, ends, tables, gate, service, history,
        Parts, Routed, Named, Unrecorded, Cut, Freed, Kept
<1> QED BY <1>1, <1>2, TickParts, RestartParts, CleanupArchiveParts, CleanupDeleteParts
    DEF Next, CallStep

LEMMA Invariance == Spec => []Inv
<1>1. Inv /\ [Next]_vars => Inv'
    BY TypeNext, IdleNext, PartsNext DEF Inv
<1> QED BY InvInit, <1>1, PTL DEF Spec

----------------------------------------------------------------------------
\* Every variable keeps its type: the INVITE is at a carrier of its group, the
\* rows name carriers (kamailio.cfg.j2:336-443, 624-660).
THEOREM CallFlowTypeOK == Spec => []TypeOK
<1>1. Inv => TypeOK
    BY DEF Inv
<1> QED BY Invariance, <1>1, PTL

\* However a call ends, its session in rtpengine does not outlive it
\* (kamailio.cfg.j2:288-293, 322-326, 539-558, 647-660).
THEOREM MediaIsFreed == Spec => []MediaFreed
<1>1. Inv => MediaFreed
    BY DEF Inv, Parts, Freed, MediaFreed
<1> QED BY Invariance, <1>1, PTL

\* As long as Kamailio has not restarted, a call leaves one record at most
\* (kamailio.cfg.j2:709-779).
THEOREM OneRecordUntilRestart == Spec => []RecordedOnceUntilRestart
<1>1. Inv => RecordedOnceUntilRestart
    BY DEF Inv, Parts, Unrecorded, RecordedOnceUntilRestart, RecordedOnce
<1> QED BY Invariance, <1>1, PTL

\* Whatever carriers were tried, the CDR names the one that answered, also when
\* the script of a restart wrote it (kamailio.cfg.j2:478-484).
THEOREM CdrNamesCarrier == Spec => []CdrNamesItsCarrier
<1>1. Inv => CdrNamesItsCarrier
    BY DEF Inv, Parts, Named, CdrNamesItsCarrier
<1> QED BY Invariance, <1>1, PTL

\* Whichever of dialog:end and the BYE's script runs first, the CDR says which
\* side cut (kamailio.cfg.j2:295-308).
THEOREM HangupCauseTrue == Spec => []HangupCauseIsTrue
<1>1. Inv => HangupCauseIsTrue
    BY DEF Inv, Parts, Cut, HangupCauseIsTrue
<1> QED BY Invariance, <1>1, PTL

\* One restart forgets no call that was answered
\* (cleanup_active_calls.py:17-25).
THEOREM AnsweredRecorded == Spec => []AnsweredIsRecorded
<1>1. Inv => AnsweredIsRecorded
    BY DEF Inv, Parts, Kept, AnsweredIsRecorded
<1> QED BY Invariance, <1>1, PTL

----------------------------------------------------------------------------
\* A relay that is no failover is counted in the gate before, so that the count
\* bounds what is sent but for the failovers.
Counted ==
    \A g \in Carrier : Limited(g) => sent[g] - spilled[g] <= cps[g] /\ cps[g] <= CpsLimit[g]

LEMMA CountedNext ==
    ASSUME Inv, Inv', Counted, [Next]_vars PROVE Counted'
<1>1. /\ cps \in [Carrier -> Nat] /\ sent \in [Carrier -> Nat] /\ spilled \in [Carrier -> Nat]
      /\ CpsLimit \in [Carrier -> Nat]
    BY CallFlowAssumption DEF Inv, TypeOK
<1>2. CASE UNCHANGED gate
    BY <1>2 DEF Counted, gate
<1>3. ASSUME NEW c \in Call, Invite(c) PROVE Counted'
  <2>1. Head(Gateways[c]) \in Carrier /\ cps' = cps /\ spilled' = spilled
    BY <1>3, RouteType DEF Invite
  <2>2. \A g \in Carrier : Limited(g) => sent'[g] = sent[g]
    BY <1>1, <1>3, <2>1 DEF Invite, CarrierSend, Relay
  <2> QED BY <2>1, <2>2 DEF Counted
<1>4. ASSUME NEW c \in Call, CpsAdmit(c) PROVE Counted'
  <2> DEFINE h == Head(Gateways[c])
  <2>1. h \in Carrier
    BY <1>4, RouteType DEF CpsAdmit, Inv, Parts, Routed
  <2>2. /\ cps[h] < CpsLimit[h]
        /\ cps' = [cps EXCEPT ![h] = @ + 1]
        /\ sent' = [sent EXCEPT ![h] = @ + 1]
        /\ spilled' = spilled
    BY <1>4 DEF CpsAdmit, HasRoom, CarrierSend, Relay
  <2> HIDE DEF h
  <2>3. cps'[h] = cps[h] + 1 /\ sent'[h] = sent[h] + 1
    BY <1>1, <2>1, <2>2
  <2>4. \A g \in Carrier : g # h => cps'[g] = cps[g] /\ sent'[g] = sent[g]
    BY <1>1, <2>2
  <2>5. Limited(h) => sent[h] - spilled[h] <= cps[h]
    BY <2>1 DEF Counted
  <2>6. /\ cps[h] \in Int /\ sent[h] \in Int /\ spilled[h] \in Int /\ CpsLimit[h] \in Int
    BY <1>1, <2>1
  <2>7. Limited(h) => sent[h] + 1 - spilled[h] <= cps[h] + 1 /\ cps[h] + 1 <= CpsLimit[h]
    BY <2>2, <2>5, <2>6
  <2>8. spilled' = spilled
    BY <2>2
  <2>9. ASSUME NEW g \in Carrier, Limited(g)
        PROVE  sent'[g] - spilled'[g] <= cps'[g] /\ cps'[g] <= CpsLimit[g]
    <3>1. CASE g = h
      <4>1. sent[h] + 1 - spilled[h] <= cps[h] + 1 /\ cps[h] + 1 <= CpsLimit[h]
        BY <2>7, <2>9, <3>1
      <4>2. spilled'[h] = spilled[h] /\ sent'[h] = sent[h] + 1 /\ cps'[h] = cps[h] + 1
        BY <2>3, <2>8
      <4>3. sent'[h] - spilled'[h] <= cps'[h] /\ cps'[h] <= CpsLimit[h]
        BY ONLY <2>6, <4>1, <4>2
      <4> QED BY <3>1, <4>3
    <3>2. CASE g # h
      BY <2>4, <2>8, <2>9, <3>2 DEF Counted
    <3> QED BY <3>1, <3>2
  <2> QED BY <2>9 DEF Counted, Limited
<1>5. ASSUME NEW c \in Call, Failover(c) PROVE Counted'
  <2> DEFINE h == Gateways[c][hop[c] + 1]
  <2>1. /\ hop[c] \in 1 .. Len(Gateways[c]) /\ Len(Gateways[c]) \in Nat
        /\ hop[c] < Len(Gateways[c])
    BY <1>5, CallFlowAssumption DEF Failover, MayRetry, Inv, Parts, Routed
  <2>2. hop[c] + 1 \in 1 .. Len(Gateways[c])
    BY <2>1
  <2>3. h \in Carrier
    BY <2>2, RouteType
  <2>4. /\ sent' = [sent EXCEPT ![h] = @ + 1]
        /\ spilled' = [spilled EXCEPT ![h] = @ + 1]
        /\ cps' = cps
    BY <1>5 DEF Failover, Relay
  <2> HIDE DEF h
  <2>5. \A g \in Carrier : /\ g # h => sent'[g] = sent[g] /\ spilled'[g] = spilled[g]
                           /\ g = h => sent'[g] = sent[g] + 1 /\ spilled'[g] = spilled[g] + 1
    BY <1>1, <2>3, <2>4
  <2>6. \A g \in Carrier : sent'[g] - spilled'[g] = sent[g] - spilled[g]
    <3>1. ASSUME NEW g \in Carrier PROVE sent'[g] - spilled'[g] = sent[g] - spilled[g]
      <4>1. sent[g] \in Int /\ spilled[g] \in Int
        BY <1>1
      <4>2. CASE g = h
        <5>1. sent'[g] = sent[g] + 1 /\ spilled'[g] = spilled[g] + 1
          BY <2>5, <4>2
        <5> QED BY <4>1, <5>1
      <4>3. CASE g # h
        BY <2>5, <4>3
      <4> QED BY <4>2, <4>3
    <3> QED BY <3>1
  <2>7. cps' = cps
    BY <2>4
  <2> QED BY <2>6, <2>7 DEF Counted
<1>6. ASSUME cps' = [g \in Carrier |-> 0], sent' = [g \in Carrier |-> 0],
             spilled' = [g \in Carrier |-> 0]
      PROVE  Counted'
    BY <1>1, <1>6 DEF Counted
<1>7. ASSUME NEW c \in Call, CallStep(c) PROVE Counted'
  <2>1. CASE Invite(c) \/ CpsAdmit(c) \/ Failover(c)
    BY <1>3, <1>4, <1>5, <2>1
  <2>2. CASE ~(Invite(c) \/ CpsAdmit(c) \/ Failover(c))
    BY <1>2, <1>7, <2>2 DEF CallStep, Gate, Replied, Closed, Reject, CpsWait, CpsTimeout,
        Answer, Fail, Cancel, DialogEnd, DialogExpire, HangUp, Bye, ByeAgain
  <2> QED BY <2>1, <2>2
<1> QED BY <1>2, <1>6, <1>7 DEF Next, CallStep, Tick, Restart, CleanupArchive,
    CleanupDelete, vars

\* However many calls reach the gate of a carrier, and wherever in their groups
\* the limited carriers are, no more INVITEs are sent to one in a second than its
\* limit and the failovers that came to it (kamailio.cfg.j2:505-531, 624-646).
THEOREM GateIsRespected == Spec => []GateRespected
<1>1. Init => Counted
    BY CallFlowAssumption DEF Init, Counted, Limited
<1>2. Inv /\ Inv' /\ Counted /\ [Next]_vars => Counted'
    BY CountedNext
<1>3. Inv /\ Counted => GateRespected
  <2> SUFFICES ASSUME Inv, Counted, NEW g \in Carrier, Limited(g)
               PROVE  sent[g] - spilled[g] <= CpsLimit[g]
    BY DEF GateRespected
  <2>1. sent[g] \in Int /\ spilled[g] \in Int /\ cps[g] \in Int /\ CpsLimit[g] \in Int
    BY CallFlowAssumption DEF Inv, TypeOK
  <2> QED BY <2>1 DEF Counted
<1> QED BY Invariance, <1>1, <1>2, <1>3, PTL DEF Spec

\* A canceled call is not offered to another carrier, whenever the CANCEL and
\* the carrier's failure arrive (kamailio.cfg.j2:625).
THEOREM CanceledStays == Spec => NoCarrierAfterCancel
<1>1. Inv /\ [Next]_vars => [\A c \in canceled : hop'[c] = hop[c]]_vars
  <2> SUFFICES ASSUME Inv, [Next]_vars, NEW c \in canceled PROVE hop'[c] = hop[c]
    OBVIOUS
  <2>1. CASE UNCHANGED hop
    BY <2>1
  <2>2. ASSUME NEW d \in Call, Failover(d) PROVE hop'[c] = hop[c]
    BY <2>2 DEF Failover, MayRetry, Inv, TypeOK
  <2>3. ASSUME NEW d \in Call, CallStep(d), ~Failover(d) PROVE UNCHANGED hop
    BY <2>3 DEF CallStep, Gate, Replied, Closed, Reject, Invite, CpsAdmit, CpsWait, CpsTimeout,
        Answer, Fail, Cancel, DialogEnd, DialogExpire, HangUp, Bye, ByeAgain, transaction
  <2>4. CASE Tick \/ Restart \/ CleanupArchive \/ CleanupDelete \/ UNCHANGED vars
    BY <2>1, <2>4 DEF Tick, Restart, CleanupArchive, CleanupDelete, transaction, vars
  <2> QED BY <2>1, <2>2, <2>3, <2>4 DEF Next, CallStep
<1> QED BY Invariance, <1>1, PTL DEF Spec, NoCarrierAfterCancel
=============================================================================
