--------------------------- MODULE ConsoleProofs ----------------------------
(***************************************************************************)
(* What holds on every page that PageKinds can describe, and not only on   *)
(* those of the console: no write of a plain flag is sent again before its *)
(* handler ends, no counter goes past what the user has done, no button is *)
(* disabled by nobody, and no detail shows another row's answer.           *)
(***************************************************************************)
EXTENDS Console, FiniteSetTheorems, SequenceTheorems, WellFoundedInduction, TLAPS

\* The handlers on their way are the page's own.
KnownHandlers == \A r \in reqs : r.op \in page.ops \cup {Reading}

\* A flag that a handler holds is set.
HeldIsSet ==
    \A r \in reqs : r.op.flag # "" /\ ~r.op.slot => flag[r.op.flag] # 0

\* NoTwin alone is not inductive: a second Submit is stopped by the flag, which
\* is set because HeldIsSet, and stays set because nothing else clears it.
FlagInv ==
    /\ page \in Pages
    /\ DOMAIN flag = Flags
    /\ KnownHandlers
    /\ HeldIsSet
    /\ NoTwin

LEMMA ReadingIsFree == Reading.flag = ""
  BY DEF Reading, Run, Write

LEMMA FetchReads == \A n, key : Fetch(n, key).op = Reading /\ NextPage(n).op = Reading
  BY DEF Fetch, Request, NextPage, Step

\* The flag of a handler of the page is one of the page's.
LEMMA FlagOfPage ==
    ASSUME NEW o \in page.ops \cup {Reading}, o.flag # ""
    PROVE  o \in page.ops /\ o.flag \in Flags
  BY ReadingIsFree DEF Flags

\* Two handlers of one flag are both of a row's, or neither is.
LEMMA SameSlot ==
    ASSUME page \in Pages, NEW o \in page.ops, NEW q \in page.ops, o.flag # "", o.flag = q.flag
    PROVE  o.slot = q.slot
  BY PagesAssumption

\* Reads come and go.
LEMMA ReadsKeep ==
    ASSUME FlagInv, UNCHANGED <<page, flag>>,
           \A s \in reqs' : s \in reqs \/ s.op = Reading
    PROVE  FlagInv'
<1>1. page' \in Pages /\ DOMAIN flag' = Flags'
  BY DEF FlagInv, Flags
<1>2. KnownHandlers'
  BY DEF FlagInv, KnownHandlers
<1>3. HeldIsSet'
  BY ReadingIsFree DEF FlagInv, HeldIsSet
<1>4. NoTwin'
  BY ReadingIsFree DEF FlagInv, NoTwin
<1> QED
  BY <1>1, <1>2, <1>3, <1>4 DEF FlagInv

\* A handler goes from one await to the next.
LEMMA HandlersKeep ==
    ASSUME FlagInv, UNCHANGED <<page, flag>>,
           NEW r \in reqs, NEW q, q.op = r.op, reqs' = (reqs \ {r}) \cup {q}
    PROVE  FlagInv'
<1>1. page' \in Pages /\ DOMAIN flag' = Flags'
  BY DEF FlagInv, Flags
<1>2. KnownHandlers'
  BY DEF FlagInv, KnownHandlers
<1>3. HeldIsSet'
  BY DEF FlagInv, HeldIsSet
<1>4. NoTwin'
  <2> SUFFICES ASSUME NEW s \in reqs', NEW t \in reqs',
                      s.op.flag # "", ~s.op.slot, s.op.flag = t.op.flag
               PROVE  s = t
    BY DEF NoTwin
  <2>2. CASE s # q /\ t # q
    BY <2>2 DEF FlagInv, NoTwin
  <2>3. CASE s = q /\ t # q
    <3>1. t \in reqs \ {r} /\ r.op.flag = t.op.flag /\ r.op.flag # "" /\ ~r.op.slot
      BY <2>3
    <3> QED
      BY <3>1 DEF FlagInv, NoTwin
  <2>4. CASE s # q /\ t = q
    <3>1. s \in reqs \ {r} /\ s.op.flag = r.op.flag
      BY <2>4
    <3> QED
      BY <3>1 DEF FlagInv, NoTwin
  <2> QED
    BY <2>2, <2>3, <2>4
<1> QED
  BY <1>1, <1>2, <1>3, <1>4 DEF FlagInv

\* A handler ends and clears its flag, which nobody else held.
LEMMA HandlersEnd ==
    ASSUME FlagInv, page' = page, NEW r \in reqs, flag' = Released(r.op),
           \A s \in reqs' : s \in reqs \ {r} \/ s.op = Reading
    PROVE  FlagInv'
<1>1. page' \in Pages /\ DOMAIN flag' = Flags'
  BY DEF FlagInv, Flags, Released
<1>2. KnownHandlers'
  BY DEF FlagInv, KnownHandlers
<1>3. HeldIsSet'
  <2> SUFFICES ASSUME NEW s \in reqs', s.op.flag # "", ~s.op.slot
               PROVE  flag'[s.op.flag] # 0
    BY DEF HeldIsSet
  <2>1. s \in reqs \ {r} /\ s.op \in page.ops /\ s.op.flag \in Flags
    BY ReadingIsFree, FlagOfPage DEF FlagInv, KnownHandlers
  <2>2. flag[s.op.flag] # 0
    BY <2>1 DEF FlagInv, HeldIsSet
  <2>3. s.op.flag # r.op.flag
    <3> SUFFICES ASSUME s.op.flag = r.op.flag PROVE FALSE
      OBVIOUS
    <3>1. r.op \in page.ops
      BY FlagOfPage DEF FlagInv, KnownHandlers
    <3>2. ~r.op.slot
      BY <2>1, <3>1, SameSlot DEF FlagInv
    <3> QED
      BY <2>1, <3>2 DEF FlagInv, NoTwin
  <2> QED
    BY <2>1, <2>2, <2>3 DEF Released
<1>4. NoTwin'
  BY ReadingIsFree DEF FlagInv, NoTwin
<1> QED
  BY <1>1, <1>2, <1>3, <1>4 DEF FlagInv

\* A handler starts, on a button that is not disabled.
LEMMA HandlersStart ==
    ASSUME FlagInv, NEW o \in page.ops, NEW row \in Row, Submit(o, row)
    PROVE  FlagInv'
<1>a. \A id, form, at, keys : Request(id, o, row, form, "", at, keys).op = o
  BY DEF Request
<1>b. PICK q : q.op = o /\ reqs' = reqs \cup {q}
  BY <1>a DEF Submit
<1>0. page' = page /\ flag' = [f \in Flags |-> IF f = o.flag THEN row ELSE flag[f]]
  BY DEF Submit
<1>1. row # 0
  BY ControlAssumption
<1>2. ASSUME NEW s \in reqs, s.op.flag # "", ~s.op.slot
      PROVE  s.op \in page.ops /\ s.op.flag \in Flags /\ flag[s.op.flag] # 0
  BY <1>2, FlagOfPage DEF FlagInv, KnownHandlers, HeldIsSet
<1>3. ASSUME NEW s \in reqs, s.op.flag # "", ~s.op.slot
      PROVE  s.op.flag # o.flag
  <2> SUFFICES ASSUME s.op.flag = o.flag PROVE FALSE
    OBVIOUS
  <2>1. ~o.slot
    BY <1>2, <1>3, SameSlot DEF FlagInv
  <2>2. flag[o.flag] = 0
    BY <1>3, <2>1 DEF Submit, Offered
  <2> QED
    BY <1>2, <1>3, <2>2
<1>4. page' \in Pages /\ DOMAIN flag' = Flags'
  BY <1>0 DEF FlagInv, Flags
<1>5. KnownHandlers'
  BY <1>0, <1>b DEF FlagInv, KnownHandlers
<1>6. HeldIsSet'
  <2> SUFFICES ASSUME NEW s \in reqs', s.op.flag # "", ~s.op.slot
               PROVE  flag'[s.op.flag] # 0
    BY DEF HeldIsSet
  <2>1. CASE s = q
    BY <1>0, <1>1, <1>b, <2>1 DEF Flags
  <2>2. CASE s \in reqs
    BY <1>0, <1>2, <1>3, <2>2
  <2> QED
    BY <1>b, <2>1, <2>2
<1>7. NoTwin'
  <2> SUFFICES ASSUME NEW s \in reqs', NEW t \in reqs',
                      s.op.flag # "", ~s.op.slot, s.op.flag = t.op.flag
               PROVE  s = t
    BY DEF NoTwin
  <2>1. ~t.op.slot
    <3>1. s.op \in page.ops /\ t.op \in page.ops
      BY <1>b, FlagOfPage DEF FlagInv, KnownHandlers
    <3> QED
      BY <3>1, SameSlot DEF FlagInv
  <2>2. CASE s = q /\ t \in reqs
    BY <1>b, <1>3, <2>1, <2>2
  <2>3. CASE t = q /\ s \in reqs
    BY <1>b, <1>3, <2>3
  <2>4. CASE s \in reqs /\ t \in reqs
    BY <2>4 DEF FlagInv, NoTwin
  <2> QED
    BY <1>b, <2>2, <2>3, <2>4
<1> QED
  BY <1>4, <1>5, <1>6, <1>7 DEF FlagInv

LEMMA FlagInvInit == Init => FlagInv
<1> SUFFICES ASSUME Init PROVE FlagInv
  OBVIOUS
<1>1. \A r \in reqs : r.op = Reading
  BY FetchReads DEF Init
<1> QED
  BY <1>1, ReadingIsFree DEF Init, FlagInv, KnownHandlers, HeldIsSet, NoTwin

\* The loads that a user or a timer starts.
LEMMA AskKeeps ==
    ASSUME NEW l, NEW key, NEW value, Ask(l, key, value)
    PROVE  \A s \in reqs' : s \in reqs \/ s.op = Reading
  BY FetchReads DEF Ask, Uncancelled

\* A handler past its await goes on to its reloads, or ends.
LEMMA ContinueKeeps ==
    ASSUME FlagInv, page' = page, NEW r \in reqs, NEW i, Continue(r, i)
    PROVE  FlagInv'
<1> DEFINE q == Request(r.id, r.op, r.row, r.form, r.op.reloads[i], i, r.keys)
<1>1. reqs' = (reqs \ {r}) \cup {q} /\ flag' = flag
  BY DEF Continue
<1>2. q.op = r.op
  BY DEF Request
<1> HIDE DEF q
<1> QED
  BY <1>1, <1>2, HandlersKeep

LEMMA EndKeeps ==
    ASSUME FlagInv, page' = page, NEW r \in reqs, NEW ns, End(r, ns)
    PROVE  FlagInv'
<1>1. flag' = Released(r.op)
  BY DEF End
<1>2. \A s \in reqs' : s \in reqs \ {r} \/ s.op = Reading
  BY FetchReads DEF End
<1> QED
  BY <1>1, <1>2, HandlersEnd

LEMMA FlagInvNext == FlagInv /\ [Next]_vars => FlagInv'
<1> SUFFICES ASSUME FlagInv, [Next]_vars PROVE FlagInv'
  OBVIOUS
<1>1. ASSUME NEW l \in page.loads, ChangeControl(l) \/ Click(l) \/ Clear(l)
      PROVE  FlagInv'
  <2>1. UNCHANGED <<page, flag>> /\ \E key, value : Ask(l, key, value)
    BY <1>1 DEF ChangeControl, Click, Clear
  <2> QED
    BY <2>1, AskKeeps, ReadsKeep
<1>2. ASSUME NEW l \in page.loads, Poll(l) \/ More(l)
      PROVE  FlagInv'
  <2>1. UNCHANGED <<page, flag>> /\ \A s \in reqs' : s \in reqs \/ s.op = Reading
    BY <1>2, FetchReads DEF Poll, More
  <2> QED
    BY <2>1, ReadsKeep
<1>3. ASSUME NEW l \in page.loads, Close(l)
      PROVE  FlagInv'
  <2>1. UNCHANGED <<page, flag>> /\ reqs' \subseteq reqs
    BY <1>3 DEF Close, Uncancelled
  <2> QED
    BY <2>1, ReadsKeep
<1>4. ASSUME NEW f \in Forms, OpenForm(f) \/ Cancel(f)
      PROVE  FlagInv'
  <2>1. UNCHANGED <<page, flag, reqs>>
    BY <1>4 DEF OpenForm, Cancel
  <2> QED
    BY <2>1, ReadsKeep
<1>5. ASSUME NEW o \in page.ops, NEW row \in IF o.slot THEN Row ELSE {1}, Submit(o, row)
      PROVE  FlagInv'
  BY <1>5, HandlersStart, StartAssumption
<1>6. ASSUME NEW r \in reqs, Serve(r) \/ Refuse(r)
      PROVE  FlagInv'
  <2>1. UNCHANGED <<page, flag>>
        /\ \E phase, ver : reqs' = (reqs \ {r}) \cup {Step(r, phase, ver)}
    BY <1>6 DEF Serve, Refuse
  <2>2. \A phase, ver : Step(r, phase, ver).op = r.op
    BY DEF Step
  <2> QED
    BY <2>1, <2>2, HandlersKeep
<1>7. ASSUME NEW r \in reqs, Written(r) \/ Loaded(r)
      PROVE  FlagInv'
  <2>1. page' = page /\ \E x : Continue(r, x) \/ End(r, x)
    BY <1>7 DEF Written, Loaded
  <2> QED
    BY <2>1, ContinueKeeps, EndKeeps
<1>8. ASSUME NEW r \in reqs, Rejected(r) \/ Lose(r)
      PROVE  FlagInv'
  <2>1. page' = page /\ flag' = Released(r.op) /\ reqs' = reqs \ {r}
    BY <1>8 DEF Rejected, Lose
  <2> QED
    BY <2>1, HandlersEnd
<1>9. CASE UNCHANGED vars
  <2>1. UNCHANGED <<page, flag, reqs>>
    BY <1>9 DEF vars
  <2> QED
    BY <2>1, ReadsKeep
<1> QED
  BY <1>1, <1>2, <1>3, <1>4, <1>5, <1>6, <1>7, <1>8, <1>9 DEF Next, Land

\* On every page, whatever its handlers reload, whatever fails and however many
\* requests are under way, no handler starts while another holds its flag: the
\* setSaving(true) ... finally setSaving(false) of every form is enough.
THEOREM NoTwinAlways == Spec => []NoTwin
<1>1. FlagInv => NoTwin
  BY DEF FlagInv
<1> QED
  BY FlagInvInit, FlagInvNext, <1>1, PTL DEF Spec

----------------------------------------------------------------------------
(* Types.                                                                  *)

\* The least of some numbers is one of them.
LEMMA MinIn ==
    ASSUME NEW S \in SUBSET Nat, S # {}
    PROVE  Min(S) \in S /\ \A y \in S : Min(S) <= y
<1> DEFINE R == OpToRel(<, Nat)
<1>1. IsWellFoundedOn(R, Nat)
  BY NatLessThanWellFounded
<1>2. \A x, y \in Nat : x < y => <<x, y>> \in R
  BY Zenon DEF OpToRel
<1> HIDE DEF R
<1>3. PICK m \in S : \A y \in S : ~(<<y, m>> \in R)
  BY <1>1, WFMin
<1>4. ASSUME NEW y \in S PROVE m <= y
  <2>1. m \in Nat /\ y \in Nat
    OBVIOUS
  <2>2. ~(y < m)
    BY <1>2, <1>3, <2>1, Zenon
  <2> QED
    BY <2>1, <2>2
<1> QED
  BY <1>4 DEF Min

IsWrite(r) == r.fetch = ""

Writes == {r \in reqs : IsWrite(r)}

Sent == {r \in Writes : r.phase = "sent"}

\* A handler is at its write, which has a number of its own, or at one of its
\* reloads.
Placed ==
    \A r \in reqs :
        /\ IsWrite(r) => r.op \in page.ops /\ r.at = 0 /\ r.id # 0
        /\ ~IsWrite(r) => \/ r.op = Reading
                          \/ r.at \in DOMAIN r.op.reloads /\ r.fetch = r.op.reloads[r.at]

Distinct == \A r, s \in reqs : r.id = s.id /\ r.id # 0 => r = s

ReqsTyped ==
    /\ reqs \subseteq InFlight
    /\ IsFiniteSet(Writes)
    /\ \A r \in reqs : r.ver <= 2 * acts /\ r.id <= acts
    /\ Placed
    /\ Distinct

\* No answer knows of more writes than the user has made: each of those that are
\* still to be served has been counted once.
ServerTyped ==
    /\ server \in [LoadNames -> Nat]
    /\ \A n \in LoadNames : server[n] + Cardinality(Sent) <= acts

\* What the page shows is an answer, and perhaps a write that it assumed.
ShownTyped ==
    /\ shown \in [LoadNames -> [key : Control \cup {0}, ver : Nat]]
    /\ \A n \in LoadNames : shown[n].ver <= 2 * acts

ControlsTyped ==
    /\ page \in Pages
    /\ wanted \in [LoadNames -> Control \cup {0}]
    /\ flag \in [Flags -> Row \cup {0}]
    /\ loading \subseteq Spinners
    /\ open \in [Forms -> 0 .. Patience]
    /\ blurred \subseteq LoadNames
    /\ acts \in 0 .. Patience
    /\ failures \in 0 .. MaxFailures

\* TypeOK alone is not inductive: that the counts stay within the number of
\* acts takes that each write is served at most once.
TypeInv == ControlsTyped /\ ReqsTyped /\ ServerTyped /\ ShownTyped

\* A page stays what it is.
LEMMA SamePage ==
    ASSUME page' = page
    PROVE  /\ LoadNames' = LoadNames /\ Flags' = Flags /\ Forms' = Forms
           /\ Spinners' = Spinners /\ Patience' = Patience /\ InFlight' = InFlight
<1>1. LoadNames' = LoadNames /\ Patience' = Patience
  BY DEF LoadNames, Patience
<1> QED
  BY <1>1 DEF Flags, Forms, Spinners, InFlight

LEMMA ReadingFields ==
    /\ Reading.assumes = {} /\ Reading.tells = "" /\ Reading.reloads = <<>>
    /\ Reading.drops = "" /\ Reading.form = "" /\ Reading.flag = ""
    /\ Reading.reselects = "" /\ Reading.undone = FALSE
  BY DEF Reading, Run, Write

\* What the handlers of a page speak of is on the page.
LEMMA OpFacts ==
    ASSUME page \in Pages, NEW o \in page.ops \cup {Reading}
    PROVE  /\ o.assumes \subseteq LoadNames /\ o.tells \in LoadNames \cup {""}
           /\ o.reloads \in Seq(LoadNames)
<1>1. CASE o \in page.ops
  BY <1>1, PagesAssumption DEF LoadNames
<1>2. CASE o = Reading
  <2>1. <<>> \in Seq(LoadNames)
    OBVIOUS
  <2> QED
    BY <1>2, <2>1, ReadingFields
<1> QED
  BY <1>1, <1>2

LEMMA PageFacts ==
    ASSUME page \in Pages
    PROVE  /\ "" \notin LoadNames /\ Patience \in Nat
           /\ \A l \in page.loads : l.name \in LoadNames /\ l \in LoadKind
           /\ page.ops \subseteq WriteKind
<1>1. "" \notin LoadNames /\ page.ops \subseteq WriteKind /\ page.loads \subseteq LoadKind
  BY PagesAssumption DEF LoadNames
<1>2. Patience \in Nat
  BY BoundAssumption DEF Patience
<1> QED
  BY <1>1, <1>2 DEF LoadNames

LEMMA StateFacts ==
    ASSUME TypeInv
    PROVE  /\ page \in Pages /\ Patience \in Nat /\ acts \in Nat /\ acts <= Patience
           /\ "" \notin LoadNames
           /\ \A l \in page.loads : l.name \in LoadNames
           /\ \A n \in LoadNames : server[n] \in Nat /\ shown[n].ver \in Nat
                                   /\ shown[n].key \in Control \cup {0}
                                   /\ wanted[n] \in Control \cup {0}
<1>1. page \in Pages
  BY DEF TypeInv, ControlsTyped
<1>2. Patience \in Nat /\ "" \notin LoadNames /\ \A l \in page.loads : l.name \in LoadNames
  BY <1>1, PageFacts
<1>3. acts \in Nat /\ acts <= Patience
  <2>1. acts \in 0 .. Patience
    BY DEF TypeInv, ControlsTyped
  <2>2. Patience \in Nat
    BY <1>2
  <2> HIDE DEF Patience
  <2> QED
    BY <2>1, <2>2
<1>4. \A n \in LoadNames : server[n] \in Nat
  BY DEF TypeInv, ServerTyped
<1>5. \A n \in LoadNames : shown[n].ver \in Nat /\ shown[n].key \in Control \cup {0}
  BY DEF TypeInv, ShownTyped
<1>6. \A n \in LoadNames : wanted[n] \in Control \cup {0}
  BY DEF TypeInv, ControlsTyped
<1> QED
  BY <1>1, <1>2, <1>3, <1>4, <1>5, <1>6

\* What is known of a request under way.
LEMMA InFlightFields ==
    ASSUME page \in Pages, NEW r \in InFlight
    PROVE  /\ r.id \in Nat /\ r.op \in page.ops \cup {Reading} /\ r.row \in Row
           /\ r.form \in Nat /\ r.fetch \in LoadNames \cup {""} /\ r.at \in Nat
           /\ r.keys \in [LoadNames -> Control \cup {0}]
           /\ r.phase \in {"sent", "done", "refused"} /\ r.ver \in Nat
           /\ r.id \in 0 .. Patience /\ r.form \in 0 .. Patience
<1>2. Patience \in Nat
  BY PageFacts
<1> HIDE DEF Patience
<1>3. 0 .. Patience \subseteq Nat /\ 0 .. 2 * Patience \subseteq Nat
  BY <1>2
<1> QED
  BY <1>3 DEF InFlight

LEMMA RequestFields ==
    ASSUME TypeInv, NEW r \in reqs
    PROVE  /\ r \in InFlight
           /\ r.id \in Nat /\ r.op \in page.ops \cup {Reading} /\ r.row \in Row
           /\ r.form \in 0 .. Patience /\ r.fetch \in LoadNames \cup {""} /\ r.at \in Nat
           /\ r.keys \in [LoadNames -> Control \cup {0}]
           /\ r.phase \in {"sent", "done", "refused"} /\ r.ver \in Nat
           /\ r.id <= acts /\ r.ver <= 2 * acts
<1>1. r \in InFlight /\ page \in Pages
  BY StateFacts DEF TypeInv, ReqsTyped
<1>2. r.id <= acts /\ r.ver <= 2 * acts
  BY DEF TypeInv, ReqsTyped
<1> QED
  BY <1>1, <1>2, InFlightFields

LEMMA TypeInvTypeOK == TypeInv => TypeOK
<1> SUFFICES ASSUME TypeInv PROVE TypeOK
  OBVIOUS
<1>0. Patience \in Nat /\ acts \in Nat /\ acts <= Patience
  BY StateFacts
<1> HIDE DEF Patience
<1>1. Cardinality(Sent) \in Nat
  <2>1. IsFiniteSet(Sent)
    BY FS_Subset DEF TypeInv, ReqsTyped, Sent
  <2> QED
    BY <2>1, FS_CardinalityType
<1>2. \A n \in LoadNames : server[n] \in 0 .. Patience
  <2> TAKE n \in LoadNames
  <2> DEFINE v == server[n]
             c == Cardinality(Sent)
  <2>1. v \in Nat /\ c \in Nat /\ v + c <= acts
    BY <1>1 DEF TypeInv, ServerTyped
  <2> HIDE DEF v, c
  <2>2. v \in 0 .. Patience
    BY <1>0, <2>1
  <2> QED
    BY <2>2 DEF v
<1>3. server \in [LoadNames -> 0 .. Patience]
  BY <1>2 DEF TypeInv, ServerTyped
<1>4. \A n \in LoadNames : shown[n] \in [key : Control \cup {0}, ver : 0 .. 2 * Patience]
  <2> TAKE n \in LoadNames
  <2>1. shown[n] \in [key : Control \cup {0}, ver : Nat] /\ shown[n].ver <= 2 * acts
    BY DEF TypeInv, ShownTyped
  <2> DEFINE v == shown[n].ver
  <2>2. v \in Nat /\ v <= 2 * acts
    BY <2>1
  <2> HIDE DEF v
  <2>3. v \in 0 .. 2 * Patience
    BY <1>0, <2>2
  <2> QED
    BY <2>1, <2>3 DEF v
<1>5. shown \in [LoadNames -> [key : Control \cup {0}, ver : 0 .. 2 * Patience]]
  BY <1>4 DEF TypeInv, ShownTyped
<1> QED
  BY <1>3, <1>5 DEF TypeInv, ControlsTyped, ReqsTyped, TypeOK

LEMMA ReloadsFacts ==
    ASSUME TypeInv, NEW r \in reqs
    PROVE  /\ Reloads(r) \subseteq Nat
           /\ \A i \in Reloads(r) :
                i > r.at /\ i \in DOMAIN r.op.reloads
                /\ r.op.reloads[i] \in LoadNames /\ r.keys[r.op.reloads[i]] # 0
           /\ Reloads(r) # {} => Min(Reloads(r)) \in Reloads(r)
                                   /\ \A i \in Reloads(r) : Min(Reloads(r)) <= i
<1>1. r.op \in page.ops \cup {Reading} /\ page \in Pages
  BY RequestFields, StateFacts
<1>2. r.op.reloads \in Seq(LoadNames)
  BY <1>1, OpFacts
<1>3. Reloads(r) \subseteq Nat /\ \A i \in Reloads(r) : r.op.reloads[i] \in LoadNames
  BY <1>2 DEF Reloads
<1> QED
  BY <1>3, MinIn DEF Reloads

LEMMA FetchType ==
    ASSUME page \in Pages, NEW n \in LoadNames, NEW key \in Control \cup {0}
    PROVE  Fetch(n, key) \in InFlight
<1>1. Patience \in Nat /\ 1 \in Row
  BY PageFacts, StartAssumption
<1>2. [x \in LoadNames |-> IF x = n THEN key ELSE 0] \in [LoadNames -> Control \cup {0}]
  OBVIOUS
<1>3. 0 \in 0 .. Patience /\ 0 \in 0 .. 2 * Patience
  BY <1>1
<1> QED
  BY <1>1, <1>2, <1>3 DEF Fetch, Request, InFlight

LEMMA StepFields ==
    ASSUME page \in Pages, NEW r \in InFlight, NEW phase \in {"sent", "done", "refused"},
           NEW ver \in 0 .. 2 * Patience
    PROVE  /\ Step(r, phase, ver) \in InFlight
           /\ Step(r, phase, ver).id = r.id /\ Step(r, phase, ver).op = r.op
           /\ Step(r, phase, ver).fetch = r.fetch /\ Step(r, phase, ver).at = r.at
           /\ Step(r, phase, ver).phase = phase /\ Step(r, phase, ver).ver = ver
<1> HIDE DEF Patience
<1>1. Step(r, phase, ver) \in InFlight
  BY DEF Step, InFlight
<1> QED
  BY <1>1 DEF Step

\* What a plain load sends, or the button of the next page.
NewRead(s) ==
    \/ \E n \in LoadNames, key \in Control \cup {0} : s = Fetch(n, key)
    \/ \E n \in LoadNames : s = NextPage(n)

LEMMA NewReadFields ==
    ASSUME TypeInv, NEW s, NewRead(s)
    PROVE  /\ s \in InFlight /\ s.fetch \in LoadNames /\ s.op = Reading /\ s.id = 0
           /\ s.ver \in Nat /\ s.ver <= 2 * acts
<1>0. page \in Pages /\ Patience \in Nat /\ acts \in Nat /\ acts <= Patience
  BY StateFacts
<1>1. \A n : /\ Fetch(n, 0).fetch = n /\ Fetch(n, 0).op = Reading /\ Fetch(n, 0).id = 0
  BY DEF Fetch, Request
<1>2. CASE \E n \in LoadNames, key \in Control \cup {0} : s = Fetch(n, key)
  <2>1. PICK n \in LoadNames, key \in Control \cup {0} : s = Fetch(n, key)
    BY <1>2
  <2>2. s \in InFlight
    BY <1>0, <2>1, FetchType
  <2>3. s.fetch = n /\ s.op = Reading /\ s.id = 0 /\ s.ver = 0
    BY <2>1 DEF Fetch, Request
  <2>4. 0 <= 2 * acts
    BY <1>0
  <2> QED
    BY <2>2, <2>3, <2>4
<1>3. CASE \E n \in LoadNames : s = NextPage(n)
  <2>1. PICK n \in LoadNames : s = NextPage(n)
    BY <1>3
  <2> DEFINE v == shown[n].ver
  <2>2. v \in Nat /\ v <= 2 * acts
    BY DEF TypeInv, ShownTyped
  <2>3. Fetch(n, 0) \in InFlight
    BY <1>0, FetchType
  <2>4. s = Step(Fetch(n, 0), "sent", v)
    BY <2>1 DEF NextPage
  <2> HIDE DEF v
  <2>5. v \in 0 .. 2 * Patience
    <3> HIDE DEF Patience
    <3> QED
      BY <1>0, <2>2
  <2>6. /\ s \in InFlight /\ s.id = Fetch(n, 0).id /\ s.op = Fetch(n, 0).op
        /\ s.fetch = Fetch(n, 0).fetch /\ s.ver = v
    <3> DEFINE f == Fetch(n, 0)
    <3>1. f \in InFlight /\ s = Step(f, "sent", v)
      BY <2>3, <2>4
    <3> HIDE DEF f
    <3>2. s \in InFlight /\ s.id = f.id /\ s.op = f.op /\ s.fetch = f.fetch /\ s.ver = v
      BY <1>0, <3>1, <2>5, StepFields
    <3> QED
      BY <3>2 DEF f
  <2> QED
    BY <1>1, <2>2, <2>6
<1> QED
  BY <1>2, <1>3 DEF NewRead

\* Reads come and go, and handlers end.
LEMMA ReadsTyped ==
    ASSUME TypeInv, page' = page, acts' \in {acts, acts + 1},
           \A s \in reqs' : s \in reqs \/ NewRead(s)
    PROVE  ReqsTyped' /\ Sent' \subseteq Sent
<1> USE DEF IsWrite
<1>0. page \in Pages /\ acts \in Nat /\ reqs \subseteq InFlight
  BY StateFacts DEF TypeInv, ReqsTyped
<1>1. \A s \in reqs' \ reqs :
        /\ s \in InFlight /\ s.fetch # "" /\ s.op = Reading /\ s.id = 0
        /\ s.ver \in Nat /\ s.ver <= 2 * acts
  <2>1. "" \notin LoadNames
    BY <1>0, PageFacts
  <2> QED
    BY <2>1, NewReadFields
<1>2. reqs' \subseteq InFlight'
  BY <1>0, <1>1, SamePage
<1>3. Writes' \subseteq Writes
  BY <1>1 DEF Writes
<1>4. IsFiniteSet(Writes)'
  BY <1>3, FS_Subset DEF TypeInv, ReqsTyped
<1>5. Sent' \subseteq Sent
  BY <1>3 DEF Sent
<1>6. \A r \in reqs' : r.ver <= 2 * acts' /\ r.id <= acts'
  <2> TAKE r \in reqs'
  <2> DEFINE v == r.ver
             d == r.id
  <2>1. v \in Nat /\ d \in Nat /\ v <= 2 * acts /\ d <= acts
    <3>1. CASE r \in reqs
      BY <3>1, RequestFields
    <3>2. CASE r \notin reqs
      <4>1. d = 0 /\ v \in Nat /\ v <= 2 * acts
        BY <1>1, <3>2
      <4> HIDE DEF v, d
      <4> QED
        BY <1>0, <4>1
    <3> QED
      BY <3>1, <3>2
  <2> HIDE DEF v, d
  <2>2. acts' = acts \/ acts' = acts + 1
    OBVIOUS
  <2>3. v <= 2 * acts' /\ d <= acts'
    <3>1. CASE acts' = acts
      BY <2>1, <3>1
    <3>2. CASE acts' = acts + 1
      BY <1>0, <2>1, <3>2
    <3> QED
      BY <2>2, <3>1, <3>2
  <2> QED
    BY <2>3 DEF v, d
<1>7. Placed'
  BY <1>1 DEF TypeInv, ReqsTyped, Placed
<1>8. Distinct'
  BY <1>1 DEF TypeInv, ReqsTyped, Distinct
<1> QED
  BY <1>2, <1>4, <1>5, <1>6, <1>7, <1>8 DEF ReqsTyped

\* A handler gets its answer, or goes on to one of its reloads.
LEMMA StepTyped ==
    ASSUME TypeInv, UNCHANGED <<page, acts>>, NEW r \in reqs, NEW q \in InFlight,
           reqs' = (reqs \ {r}) \cup {q}, q.id = r.id, q.ver <= 2 * acts,
           ~(IsWrite(q) /\ q.phase = "sent"),
           IsWrite(q) => IsWrite(r) /\ q.op = r.op /\ q.at = r.at,
           ~IsWrite(q) => \/ q.op = Reading
                          \/ q.at \in DOMAIN q.op.reloads /\ q.fetch = q.op.reloads[q.at]
    PROVE  ReqsTyped' /\ Sent' \subseteq Sent \ {r}
<1>0. page \in Pages /\ acts \in Nat /\ reqs \subseteq InFlight
  BY StateFacts DEF TypeInv, ReqsTyped
<1>1. reqs' \subseteq InFlight'
  BY <1>0, SamePage
<1>2. IsFiniteSet(Writes)'
  <2>1. Writes' \subseteq Writes \cup {q}
    BY DEF Writes, IsWrite
  <2>2. IsFiniteSet(Writes \cup {q})
    BY FS_AddElement DEF TypeInv, ReqsTyped
  <2> QED
    BY <2>1, <2>2, FS_Subset
<1>3. \A s \in reqs' : s.ver <= 2 * acts' /\ s.id <= acts'
  BY DEF TypeInv, ReqsTyped
<1>4. Placed'
  BY DEF TypeInv, ReqsTyped, Placed, IsWrite
<1>5. Distinct'
  BY DEF TypeInv, ReqsTyped, Distinct
<1>6. Sent' \subseteq Sent \ {r}
  BY DEF Sent, Writes, IsWrite
<1> QED
  BY <1>1, <1>2, <1>3, <1>4, <1>5, <1>6 DEF ReqsTyped

LEMMA SentFinite == TypeInv => IsFiniteSet(Sent) /\ Cardinality(Sent) \in Nat
<1> SUFFICES ASSUME TypeInv PROVE IsFiniteSet(Sent) /\ Cardinality(Sent) \in Nat
  OBVIOUS
<1>1. IsFiniteSet(Sent)
  BY FS_Subset DEF TypeInv, ReqsTyped, Sent
<1> QED
  BY <1>1, FS_CardinalityType

\* What the backend has applied, while the requests are served or end.
LEMMA ServerKeeps ==
    ASSUME TypeInv, page' = page, server' = server, acts' \in {acts, acts + 1},
           Sent' \subseteq Sent
    PROVE  ServerTyped'
<1>1. LoadNames' = LoadNames
  BY SamePage
<1>2. Cardinality(Sent') \in Nat /\ Cardinality(Sent') <= Cardinality(Sent)
  BY SentFinite, FS_Subset, FS_CardinalityType
<1>3. Cardinality(Sent) \in Nat /\ acts \in Nat
  BY SentFinite, StateFacts
<1>4. \A n \in LoadNames : server[n] + Cardinality(Sent') <= acts'
  <2> TAKE n \in LoadNames
  <2> DEFINE v == server[n]
             c == Cardinality(Sent)
             d == Cardinality(Sent')
  <2>1. v \in Nat /\ v + c <= acts
    BY DEF TypeInv, ServerTyped
  <2>2. c \in Nat /\ d \in Nat /\ d <= c
    BY <1>2, <1>3
  <2> HIDE DEF v, c, d
  <2>3. v + d <= acts /\ acts <= acts'
    BY <1>3, <2>1, <2>2
  <2>4. v + d \in Nat /\ acts' \in Nat
    BY <1>3, <2>1, <2>2
  <2>5. v + d <= acts'
    BY <1>3, <2>3, <2>4
  <2> QED
    BY <2>5 DEF v, d
<1> QED
  BY <1>1, <1>4 DEF TypeInv, ServerTyped

\* A write is served: it was among those still to be.
LEMMA ServerServes ==
    ASSUME TypeInv, UNCHANGED <<page, acts>>, NEW r \in Sent, Sent' \subseteq Sent \ {r},
           server' = [n \in LoadNames |-> IF n \in r.op.touches THEN server[n] + 1 ELSE server[n]]
    PROVE  ServerTyped' /\ \A n \in LoadNames : server[n] + 1 <= acts
<1>1. LoadNames' = LoadNames
  BY SamePage
<1>2. IsFiniteSet(Sent) /\ Cardinality(Sent) \in Nat /\ acts \in Nat
  BY SentFinite, StateFacts
<1>3. IsFiniteSet(Sent \ {r}) /\ Cardinality(Sent \ {r}) = Cardinality(Sent) - 1
  BY <1>2, FS_RemoveElement
<1>4. Cardinality(Sent \ {r}) \in Nat
  BY <1>3, FS_CardinalityType
<1>5. Cardinality(Sent') \in Nat /\ Cardinality(Sent') <= Cardinality(Sent \ {r})
  BY <1>3, FS_Subset, FS_CardinalityType
<1>6. \A n \in LoadNames : /\ server[n] + 1 <= acts
                           /\ server'[n] \in Nat
                           /\ server'[n] + Cardinality(Sent') <= acts
  <2> TAKE n \in LoadNames
  <2> DEFINE v == server[n]
             w == server'[n]
             c == Cardinality(Sent)
             e == Cardinality(Sent \ {r})
             d == Cardinality(Sent')
  <2>1. v \in Nat /\ v + c <= acts
    BY DEF TypeInv, ServerTyped
  <2>2. w = v \/ w = v + 1
    OBVIOUS
  <2>3. c \in Nat /\ d \in Nat /\ e \in Nat /\ d <= e /\ e = c - 1
    BY <1>2, <1>3, <1>4, <1>5
  <2> HIDE DEF v, w, c, d, e
  <2>4. v + 1 <= acts /\ w \in Nat /\ w + d <= acts
    BY <1>2, <2>1, <2>2, <2>3
  <2> QED
    BY <2>4 DEF v, w, d
<1>7. server' \in [LoadNames -> Nat]
  BY <1>6
<1> QED
  BY <1>1, <1>6, <1>7 DEF ServerTyped

\* What is shown is dropped, taken back or replaced by an answer.
LEMMA ShownKeeps ==
    ASSUME TypeInv, page' = page, acts' \in {acts, acts + 1},
           shown' = [n \in LoadNames |-> shown'[n]],
           \A n \in LoadNames :
             \/ shown'[n] = Nothing
             \/ shown'[n] = shown[n]
             \/ \E key \in Control \cup {0}, v \in Nat :
                   shown'[n] = [key |-> key, ver |-> v] /\ v <= 2 * acts'
    PROVE  ShownTyped'
<1>1. LoadNames' = LoadNames /\ acts \in Nat
  BY SamePage, StateFacts
<1>2. ASSUME NEW n \in LoadNames
      PROVE  shown'[n] \in [key : Control \cup {0}, ver : Nat] /\ shown'[n].ver <= 2 * acts'
  <2>1. CASE shown'[n] = Nothing
    BY <1>1, <2>1 DEF Nothing
  <2>2. CASE shown'[n] = shown[n]
    <3>1. shown[n] \in [key : Control \cup {0}, ver : Nat] /\ shown[n].ver <= 2 * acts
      BY DEF TypeInv, ShownTyped
    <3> DEFINE v == shown[n].ver
    <3>2. v \in Nat /\ v <= 2 * acts
      BY <3>1
    <3> HIDE DEF v
    <3>3. v <= 2 * acts'
      BY <1>1, <3>2
    <3> QED
      BY <2>2, <3>1, <3>3 DEF v
  <2>3. CASE \E key \in Control \cup {0}, v \in Nat :
               shown'[n] = [key |-> key, ver |-> v] /\ v <= 2 * acts'
    BY <2>3
  <2> QED
    BY <1>2, <2>1, <2>2, <2>3
<1> QED
  BY <1>1, <1>2 DEF ShownTyped

\* A handler starts, with the next number.
LEMMA SubmitTyped ==
    ASSUME TypeInv, NEW o \in page.ops, NEW row \in Row, Submit(o, row)
    PROVE  ReqsTyped' /\ ServerTyped'
<1> DEFINE form == IF o.form = "" THEN 0 ELSE open[o.form]
           q == Request(acts', o, row, form, "", 0, Captured(o))
<1>0. Patience \in Nat /\ acts \in Nat
  BY StateFacts
<1>a. acts' = acts + 1 /\ acts < Patience
  BY DEF Submit, Acts
<1>1. page' = page /\ server' = server /\ reqs' = reqs \cup {q} /\ acts' = acts + 1
  BY DEF Submit, Acts
<1>2. q \in InFlight
  <2>1. acts + 1 \in 0 .. Patience /\ 0 \in 0 .. 2 * Patience /\ 0 \in 0 .. Patience
    <3> HIDE DEF Patience
    <3> QED
      BY <1>0, <1>a
  <2>2. form \in 0 .. Patience
    BY <2>1 DEF TypeInv, ControlsTyped, Forms
  <2>3. Captured(o) \in [LoadNames -> Control \cup {0}]
    BY StateFacts, StartAssumption DEF Captured
  <2> HIDE DEF form
  <2> QED
    BY <1>1, <2>1, <2>2, <2>3 DEF Request, InFlight
<1>3. q.op = o /\ q.id = acts + 1 /\ q.ver = 0 /\ q.fetch = "" /\ q.at = 0 /\ q.phase = "sent"
  BY <1>1 DEF Request
<1> HIDE DEF q
<1>4. \A s \in reqs : s.id \in Nat /\ s.ver \in Nat /\ s.id <= acts /\ s.ver <= 2 * acts
  BY RequestFields
<1>b. \A s \in reqs : s.id # q.id
  <2> TAKE s \in reqs
  <2>1. s.id \in Nat /\ s.id <= acts /\ q.id = acts + 1
    BY <1>3, <1>4
  <2> QED
    BY <1>0, <2>1
<1>5. reqs' \subseteq InFlight'
  BY <1>1, <1>2, SamePage DEF TypeInv, ReqsTyped
<1>6. IsFiniteSet(Writes)'
  <2>1. Writes' \subseteq Writes \cup {q}
    BY <1>1 DEF Writes, IsWrite
  <2>2. IsFiniteSet(Writes \cup {q})
    BY FS_AddElement DEF TypeInv, ReqsTyped
  <2> QED
    BY <2>1, <2>2, FS_Subset
<1>7. \A s \in reqs' : s.ver <= 2 * acts' /\ s.id <= acts'
  <2> TAKE s \in reqs'
  <2>1. CASE s \in reqs
    <3> DEFINE v == s.ver
               d == s.id
    <3>1. d \in Nat /\ v \in Nat /\ d <= acts /\ v <= 2 * acts
      BY <1>4, <2>1
    <3> HIDE DEF v, d
    <3>2. v <= 2 * acts' /\ d <= acts'
      BY <1>0, <1>a, <3>1
    <3> QED
      BY <3>2 DEF v, d
  <2>2. CASE s = q
    <3>1. s.id = acts + 1 /\ s.ver = 0
      BY <1>3, <2>2
    <3> QED
      BY <1>0, <1>a, <3>1
  <2> QED
    BY <1>1, <2>1, <2>2
<1>8. Placed'
  <2>1. q.id # 0
    <3>1. q.id = acts + 1
      BY <1>3
    <3> QED
      BY <1>0, <3>1
  <2> QED
    BY <1>1, <1>3, <2>1 DEF TypeInv, ReqsTyped, Placed, IsWrite
<1>9. Distinct'
  <2>1. \A s \in reqs : s.id # q.id
    BY <1>b
  <2> QED
    BY <1>1, <2>1 DEF TypeInv, ReqsTyped, Distinct
<1>10. ServerTyped'
  <2>1. Sent' = Sent \cup {q} /\ q \notin Sent
    <3>1. q \notin reqs
      BY <1>b
    <3> QED
      BY <1>1, <1>3, <3>1 DEF Sent, Writes, IsWrite
  <2>2. Cardinality(Sent') = Cardinality(Sent) + 1 /\ Cardinality(Sent) \in Nat
    BY <2>1, SentFinite, FS_AddElement
  <2>3. \A n \in LoadNames : server[n] + Cardinality(Sent') <= acts + 1
    <3> TAKE n \in LoadNames
    <3> DEFINE v == server[n]
               c == Cardinality(Sent)
               d == Cardinality(Sent')
    <3>1. v \in Nat /\ v + c <= acts
      BY DEF TypeInv, ServerTyped
    <3>2. c \in Nat /\ d = c + 1
      BY <2>2
    <3> HIDE DEF v, c, d
    <3>3. v + d <= acts + 1
      BY <1>0, <3>1, <3>2
    <3> QED
      BY <3>3 DEF v, d
  <2> QED
    BY <1>1, <2>3, SamePage DEF TypeInv, ServerTyped
<1> QED
  BY <1>5, <1>6, <1>7, <1>8, <1>9, <1>10 DEF ReqsTyped

\* What a handler assumes is one write more than what was shown.
LEMMA SubmitShown ==
    ASSUME TypeInv, NEW o \in page.ops, NEW row \in Row, Submit(o, row)
    PROVE  ShownTyped'
<1>1. page' = page /\ acts' = acts + 1
  BY DEF Submit, Acts
<1>2. shown' = [n \in LoadNames |->
                  IF n \in o.assumes THEN [key |-> shown[n].key, ver |-> shown[n].ver + 1]
                  ELSE shown[n]]
  BY DEF Submit
<1>3. acts \in Nat
  BY StateFacts
<1>4. ASSUME NEW n \in LoadNames, n \in o.assumes
      PROVE  /\ shown[n].key \in Control \cup {0} /\ shown[n].ver + 1 \in Nat
             /\ shown[n].ver + 1 <= 2 * acts'
  <2> DEFINE v == shown[n].ver
  <2>1. shown[n].key \in Control \cup {0} /\ v \in Nat /\ v <= 2 * acts
    BY StateFacts DEF TypeInv, ShownTyped
  <2> HIDE DEF v
  <2>2. v + 1 \in Nat /\ v + 1 <= 2 * acts'
    BY <1>1, <1>3, <2>1
  <2> QED
    BY <2>1, <2>2 DEF v
<1>5. shown' = [n \in LoadNames |-> shown'[n]]
  BY <1>2
<1>6. ASSUME NEW n \in LoadNames
      PROVE  \/ shown'[n] = shown[n]
             \/ \E key \in Control \cup {0}, v \in Nat :
                   shown'[n] = [key |-> key, ver |-> v] /\ v <= 2 * acts'
  BY <1>2, <1>4
<1> QED
  BY <1>1, <1>5, <1>6, ShownKeeps

LEMMA SubmitTypeInv ==
    ASSUME TypeInv, NEW o \in page.ops, NEW row \in Row, Submit(o, row)
    PROVE  TypeInv'
<1>1. page' = page /\ acts' = acts + 1 /\ acts < Patience
      /\ UNCHANGED <<wanted, loading, open, failures>>
  BY DEF Submit, Acts
<1>2. Patience \in Nat /\ acts \in Nat
  BY StateFacts
<1>3. acts' \in 0 .. Patience
  <2> HIDE DEF Patience
  <2> QED
    BY <1>1, <1>2
<1>4. flag' \in [Flags -> Row \cup {0}]
  BY DEF Submit, TypeInv, ControlsTyped
<1>5. blurred' \subseteq LoadNames
  <2>1. o.assumes \subseteq LoadNames
    BY StateFacts, OpFacts
  <2> QED
    BY <2>1 DEF Submit, TypeInv, ControlsTyped
<1>6. ControlsTyped'
  BY <1>1, <1>3, <1>4, <1>5, SamePage DEF TypeInv, ControlsTyped
<1> QED
  BY <1>6, SubmitTyped, SubmitShown DEF TypeInv

LEMMA AnswerTyped ==
    ASSUME TypeInv, UNCHANGED <<page, acts>>, NEW r \in reqs, NEW phase \in {"done", "refused"},
           NEW ver \in Nat, ver <= 2 * acts, reqs' = (reqs \ {r}) \cup {Step(r, phase, ver)}
    PROVE  ReqsTyped' /\ Sent' \subseteq Sent \ {r}
<1> DEFINE q == Step(r, phase, ver)
<1>1. Patience \in Nat /\ acts \in Nat /\ acts <= Patience
  BY StateFacts
<1>2. ver \in 0 .. 2 * Patience
  <2> HIDE DEF Patience
  <2> QED
    BY <1>1
<1>3. page \in Pages /\ r \in InFlight
  BY StateFacts, RequestFields
<1>4. q \in InFlight /\ q.id = r.id /\ q.op = r.op /\ q.fetch = r.fetch /\ q.at = r.at
      /\ q.phase = phase /\ q.ver = ver
  BY <1>2, <1>3, StepFields
<1>5. ~IsWrite(r) => r.op = Reading \/ (r.at \in DOMAIN r.op.reloads /\ r.fetch = r.op.reloads[r.at])
  BY DEF TypeInv, ReqsTyped, Placed
<1> HIDE DEF q
<1>6. reqs' = (reqs \ {r}) \cup {q} /\ q.ver <= 2 * acts
  BY <1>4 DEF q
<1>7. ~(IsWrite(q) /\ q.phase = "sent")
  BY <1>4
<1>8. IsWrite(q) => IsWrite(r) /\ q.op = r.op /\ q.at = r.at
  BY <1>4 DEF IsWrite
<1>9. ~IsWrite(q) => \/ q.op = Reading
                     \/ q.at \in DOMAIN q.op.reloads /\ q.fetch = q.op.reloads[q.at]
  BY <1>4, <1>5 DEF IsWrite
<1> QED
  BY <1>4, <1>6, <1>7, <1>8, <1>9, StepTyped

\* Nothing but requests and what the backend has applied changes.
LEMMA ControlsKeep ==
    ASSUME TypeInv, UNCHANGED <<page, wanted, shown, flag, loading, open, blurred, acts>>,
           failures' \in 0 .. MaxFailures
    PROVE  ControlsTyped' /\ ShownTyped'
<1>1. ControlsTyped'
  BY SamePage DEF TypeInv, ControlsTyped
<1>2. ShownTyped'
  BY SamePage DEF TypeInv, ShownTyped
<1> QED
  BY <1>1, <1>2

LEMMA FailsTyped ==
    ASSUME TypeInv, Fails
    PROVE  failures' \in 0 .. MaxFailures
  BY BoundAssumption DEF Fails, TypeInv, ControlsTyped

LEMMA ServeTypeInv ==
    ASSUME TypeInv, NEW r \in reqs, Serve(r)
    PROVE  TypeInv'
<1>1. UNCHANGED <<page, wanted, shown, flag, loading, open, blurred, acts, failures>>
      /\ r.phase = "sent"
  BY DEF Serve
<1>2. ControlsTyped' /\ ShownTyped'
  BY <1>1, ControlsKeep DEF TypeInv, ControlsTyped
<1>3. ASSUME NEW n \in LoadNames
      PROVE  server[n] \in Nat /\ server[n] <= acts
  <2> DEFINE v == server[n]
             c == Cardinality(Sent)
  <2>1. v \in Nat /\ c \in Nat /\ v + c <= acts
    BY SentFinite DEF TypeInv, ServerTyped
  <2>2. acts \in Nat
    BY StateFacts
  <2> HIDE DEF v, c
  <2>3. v <= acts
    BY <2>1, <2>2
  <2> QED
    BY <2>1, <2>3 DEF v
<1>4. CASE r.fetch = ""
  <2> DEFINE ver == IF r.op.tells = "" THEN 0 ELSE server[r.op.tells] + 1
  <2>0. r \in Sent
    BY <1>1, <1>4 DEF Sent, Writes, IsWrite
  <2>1. reqs' = (reqs \ {r}) \cup {Step(r, "done", ver)}
        /\ server' = [n \in LoadNames |->
                        IF n \in r.op.touches THEN server[n] + 1 ELSE server[n]]
    BY <1>4 DEF Serve
  <2>2. \A n \in LoadNames : server[n] + 1 <= acts
    <3> TAKE n \in LoadNames
    <3> DEFINE v == server[n]
               c == Cardinality(Sent)
    <3>1. v \in Nat /\ c \in Nat /\ v + c <= acts
      BY SentFinite DEF TypeInv, ServerTyped
    <3>2. acts \in Nat
      BY StateFacts
    <3>3. c # 0
      BY <2>0, SentFinite, FS_EmptySet
    <3> HIDE DEF v, c
    <3>4. v + 1 <= acts
      BY <3>1, <3>2, <3>3
    <3> QED
      BY <3>4 DEF v
  <2>3. ver \in Nat /\ ver <= acts
    <3>1. r.op.tells \in LoadNames \cup {""} /\ acts \in Nat
      BY RequestFields, StateFacts, OpFacts
    <3>2. CASE r.op.tells = ""
      <4>1. ver = 0
        BY <3>2
      <4>2. acts \in Nat
        BY <3>1
      <4> HIDE DEF ver
      <4> QED
        BY <4>1, <4>2
    <3>3. CASE r.op.tells # ""
      <4>1. server[r.op.tells] \in Nat /\ server[r.op.tells] + 1 <= acts
        BY <1>3, <2>2, <3>1, <3>3
      <4>2. ver = server[r.op.tells] + 1
        BY <3>3
      <4> HIDE DEF ver
      <4> QED
        BY <4>1, <4>2
    <3> QED
      BY <3>2, <3>3
  <2> HIDE DEF ver
  <2>6. ver <= 2 * acts
    <3>1. acts \in Nat
      BY StateFacts
    <3> QED
      BY <2>3, <3>1
  <2>4. ReqsTyped' /\ Sent' \subseteq Sent \ {r}
    BY <1>1, <2>1, <2>3, <2>6, AnswerTyped
  <2>5. ServerTyped'
    BY <1>1, <2>0, <2>1, <2>4, ServerServes
  <2> QED
    BY <1>2, <2>4, <2>5 DEF TypeInv
<1>5. CASE r.fetch # ""
  <2> DEFINE ver == IF Adds(r) THEN r.ver ELSE server[r.fetch]
  <2>1. reqs' = (reqs \ {r}) \cup {Step(r, "done", ver)} /\ server' = server
    BY <1>5 DEF Serve
  <2>2. ver \in Nat /\ ver <= 2 * acts
    <3>1. CASE Adds(r)
      BY <3>1, RequestFields
    <3>2. CASE ~Adds(r)
      <4>1. r.fetch \in LoadNames
        BY <1>5, RequestFields
      <4>2. ver = server[r.fetch]
        BY <3>2
      <4>3. ver \in Nat /\ ver <= acts /\ acts \in Nat
        BY <1>3, <4>1, <4>2, StateFacts
      <4> HIDE DEF ver
      <4> QED
        BY <4>3
    <3> QED
      BY <3>1, <3>2
  <2> HIDE DEF ver
  <2>3. ReqsTyped' /\ Sent' \subseteq Sent \ {r}
    BY <1>1, <2>1, <2>2, AnswerTyped
  <2>4. ServerTyped'
    BY <1>1, <2>1, <2>3, ServerKeeps
  <2> QED
    BY <1>2, <2>3, <2>4 DEF TypeInv
<1> QED
  BY <1>4, <1>5

LEMMA RefuseTypeInv ==
    ASSUME TypeInv, NEW r \in reqs, Refuse(r)
    PROVE  TypeInv'
<1>1. UNCHANGED <<page, wanted, shown, server, flag, loading, open, blurred, acts>>
      /\ reqs' = (reqs \ {r}) \cup {Step(r, "refused", 0)} /\ Fails
  BY DEF Refuse
<1>2. ControlsTyped' /\ ShownTyped'
  BY <1>1, FailsTyped, ControlsKeep
<1>3. ReqsTyped' /\ Sent' \subseteq Sent \ {r}
  <2>0. acts \in Nat
    BY StateFacts
  <2>1. 0 \in Nat /\ 0 <= 2 * acts
    BY <2>0
  <2> QED
    BY <1>1, <2>1, AnswerTyped
<1>4. ServerTyped'
  BY <1>1, <1>3, ServerKeeps
<1> QED
  BY <1>2, <1>3, <1>4 DEF TypeInv

\* The loads that the user and the timers start.
LEMMA AskTypeInv ==
    ASSUME TypeInv, NEW l \in page.loads, NEW key \in Control \cup {0}, NEW value \in Control \cup {0},
           Ask(l, key, value), UNCHANGED <<page, server, flag, failures>>, Acts
    PROVE  TypeInv'
<1>0. Patience \in Nat /\ acts \in Nat
  BY StateFacts
<1>1. acts' = acts + 1 /\ acts < Patience
  BY DEF Acts
<1>2. acts' \in 0 .. Patience
  <2> HIDE DEF Patience
  <2> QED
    BY <1>0, <1>1
<1>3. l.name \in LoadNames
  BY DEF LoadNames
<1>4. ReqsTyped' /\ Sent' \subseteq Sent
  <2>1. \A s \in reqs' : s \in reqs \/ s = Fetch(l.name, key)
    BY DEF Ask, Uncancelled
  <2>2. \A s \in reqs' : s \in reqs \/ NewRead(s)
    BY <1>3, <2>1 DEF NewRead
  <2> QED
    BY <1>1, <2>2, ReadsTyped
<1>5. ServerTyped'
  BY <1>1, <1>4, ServerKeeps
<1>6. ShownTyped'
  <2>1. shown' = [n \in LoadNames |-> shown'[n]]
        /\ \A n \in LoadNames : shown'[n] = Nothing \/ shown'[n] = shown[n]
    BY DEF Ask
  <2> QED
    BY <1>1, <2>1, ShownKeeps
<1>7. ControlsTyped'
  <2>1. wanted' \in [LoadNames -> Control \cup {0}]
    BY StateFacts DEF Ask
  <2>2. open' \in [Forms -> 0 .. Patience]
    <3>1. 0 \in 0 .. Patience
      BY <1>0
    <3> QED
      BY <3>1 DEF Ask, TypeInv, ControlsTyped
  <2>3. loading' \subseteq Spinners /\ blurred' \subseteq LoadNames
    BY <1>3 DEF Ask, Blurred, TypeInv, ControlsTyped
  <2> QED
    BY <1>2, <2>1, <2>2, <2>3, SamePage DEF TypeInv, ControlsTyped
<1> QED
  BY <1>4, <1>5, <1>6, <1>7 DEF TypeInv

LEMMA PollTypeInv ==
    ASSUME TypeInv, NEW l \in page.loads, Poll(l)
    PROVE  TypeInv'
<1> DEFINE key == IF l.frozen THEN 1 ELSE wanted[l.name]
<1>1. UNCHANGED <<page, wanted, shown, server, flag, open, acts, failures>>
  BY DEF Poll
<1>2. l.name \in LoadNames /\ key \in Control \cup {0}
  BY StateFacts, StartAssumption
<1>3. reqs' = reqs \cup {Fetch(l.name, key)}
      /\ loading' = loading \cup ({l.name} \cap Spinners) /\ blurred' \subseteq blurred \cup {l.name}
  BY DEF Poll, Blurred
<1> HIDE DEF key
<1>4. \A s \in reqs' : s \in reqs \/ NewRead(s)
  BY <1>2, <1>3 DEF NewRead
<1>5. ReqsTyped' /\ Sent' \subseteq Sent
  BY <1>1, <1>4, ReadsTyped
<1>6. ServerTyped'
  BY <1>1, <1>5, ServerKeeps
<1>7. ShownTyped'
  BY <1>1, SamePage DEF TypeInv, ShownTyped
<1>8. ControlsTyped'
  BY <1>1, <1>2, <1>3, SamePage DEF TypeInv, ControlsTyped
<1> QED
  BY <1>5, <1>6, <1>7, <1>8 DEF TypeInv

LEMMA MoreTypeInv ==
    ASSUME TypeInv, NEW l \in page.loads, More(l)
    PROVE  TypeInv'
<1>0. Patience \in Nat /\ acts \in Nat
  BY StateFacts
<1>1. /\ UNCHANGED <<page, wanted, shown, server, flag, open, failures>>
      /\ acts' = acts + 1 /\ acts < Patience /\ l.name \in LoadNames
  BY DEF More, Acts, LoadNames
<1>2. acts' \in 0 .. Patience
  <2> HIDE DEF Patience
  <2> QED
    BY <1>0, <1>1
<1>3. \A s \in reqs' : s \in reqs \/ NewRead(s)
  BY <1>1 DEF More, NewRead
<1>4. ReqsTyped' /\ Sent' \subseteq Sent
  BY <1>1, <1>3, ReadsTyped
<1>5. ServerTyped'
  BY <1>1, <1>4, ServerKeeps
<1>6. ShownTyped'
  <2>1. shown' = [n \in LoadNames |-> shown'[n]]
    BY <1>1 DEF TypeInv, ShownTyped
  <2> QED
    BY <1>1, <2>1, ShownKeeps
<1>7. loading' \subseteq Spinners /\ blurred' \subseteq LoadNames
  BY <1>1 DEF More, TypeInv, ControlsTyped
<1>8. ControlsTyped'
  BY <1>1, <1>2, <1>7, SamePage DEF TypeInv, ControlsTyped
<1> QED
  BY <1>4, <1>5, <1>6, <1>8 DEF TypeInv

LEMMA CloseTypeInv ==
    ASSUME TypeInv, NEW l \in page.loads, Close(l)
    PROVE  TypeInv'
<1>1. UNCHANGED <<page, server, flag, loading, open, blurred, acts, failures>>
      /\ reqs' \subseteq reqs
  BY DEF Close, Uncancelled
<1>2. ReqsTyped' /\ Sent' \subseteq Sent
  BY <1>1, ReadsTyped
<1>3. ServerTyped'
  BY <1>1, <1>2, ServerKeeps
<1>4. ShownTyped'
  <2>1. shown' = [n \in LoadNames |-> shown'[n]]
        /\ \A n \in LoadNames : shown'[n] = Nothing \/ shown'[n] = shown[n]
    BY DEF Close, TypeInv, ShownTyped
  <2> QED
    BY <1>1, <2>1, ShownKeeps
<1>5. wanted' \in [LoadNames -> Control \cup {0}]
  BY DEF Close, TypeInv, ControlsTyped
<1>6. ControlsTyped'
  BY <1>1, <1>5, SamePage DEF TypeInv, ControlsTyped
<1> QED
  BY <1>2, <1>3, <1>4, <1>6 DEF TypeInv

LEMMA FormTypeInv ==
    ASSUME TypeInv, NEW f \in Forms, OpenForm(f) \/ Cancel(f)
    PROVE  TypeInv'
<1>1. UNCHANGED <<page, wanted, shown, server, flag, loading, reqs, blurred, failures>>
      /\ (acts' = acts \/ (acts' = acts + 1 /\ acts < Patience))
      /\ (open' = [open EXCEPT ![f] = acts'] \/ open' = [open EXCEPT ![f] = 0])
  BY DEF OpenForm, Cancel, Acts
<1>2. Patience \in Nat /\ acts \in Nat /\ acts <= Patience
  BY StateFacts
<1>3. acts' \in {acts, acts + 1} /\ acts' \in 0 .. Patience /\ 0 \in 0 .. Patience
  <2>1. acts' = acts \/ (acts' = acts + 1 /\ acts < Patience)
    BY <1>1
  <2> HIDE DEF Patience
  <2> QED
    BY <1>2, <2>1
<1>4. ReqsTyped' /\ Sent' \subseteq Sent
  BY <1>1, <1>3, ReadsTyped
<1>5. ServerTyped'
  BY <1>1, <1>3, <1>4, ServerKeeps
<1>6. ShownTyped'
  <2>1. shown' = [n \in LoadNames |-> shown'[n]] /\ \A n \in LoadNames : shown'[n] = shown[n]
    BY <1>1 DEF TypeInv, ShownTyped
  <2> QED
    BY <1>1, <1>3, <2>1, ShownKeeps
<1>7. open' \in [Forms -> 0 .. Patience]
  <2>1. open \in [Forms -> 0 .. Patience]
    BY DEF TypeInv, ControlsTyped
  <2> QED
    BY <1>1, <1>3, <2>1
<1>8. ControlsTyped'
  BY <1>1, <1>3, <1>7, SamePage DEF TypeInv, ControlsTyped
<1> QED
  BY <1>4, <1>5, <1>6, <1>8 DEF TypeInv

\* What taking back an assumed value leaves.
LEMMA UndoFacts ==
    ASSUME TypeInv, UNCHANGED <<page, acts>>, NEW r \in reqs, NEW n \in LoadNames
    PROVE  \/ Undo(TakenBack(r))[n] = shown[n]
           \/ \E key \in Control \cup {0}, v \in Nat :
                 Undo(TakenBack(r))[n] = [key |-> key, ver |-> v] /\ v <= 2 * acts'
<1> DEFINE v == shown[n].ver
<1>1. Undo(TakenBack(r))[n] = IF n \in TakenBack(r) THEN [key |-> shown[n].key, ver |-> v - 1]
                              ELSE shown[n]
  BY DEF Undo
<1>2. n \in TakenBack(r) => v > 0
  BY DEF TakenBack
<1>3. shown[n].key \in Control \cup {0} /\ v \in Nat /\ v <= 2 * acts /\ acts \in Nat /\ acts' = acts
  BY StateFacts DEF TypeInv, ShownTyped
<1> HIDE DEF v
<1>4. v > 0 => v - 1 \in Nat /\ v - 1 <= 2 * acts'
  BY <1>3
<1> QED
  BY <1>1, <1>2, <1>3, <1>4

\* A handler fails, and takes back what it had assumed.
LEMMA FailedTypeInv ==
    ASSUME TypeInv, UNCHANGED <<page, wanted, server, loading, open, acts>>, NEW r \in reqs,
           reqs' = reqs \ {r}, flag' = Released(r.op), shown' = Undo(TakenBack(r)),
           blurred' \subseteq LoadNames, failures' \in 0 .. MaxFailures
    PROVE  TypeInv'
<1>1. ReqsTyped' /\ Sent' \subseteq Sent
  BY ReadsTyped
<1>2. ServerTyped'
  BY <1>1, ServerKeeps
<1>3. ShownTyped'
  <2>1. shown' = [n \in LoadNames |-> shown'[n]]
    BY DEF Undo
  <2>2. ASSUME NEW n \in LoadNames
        PROVE  \/ shown'[n] = shown[n]
               \/ \E key \in Control \cup {0}, v \in Nat :
                     shown'[n] = [key |-> key, ver |-> v] /\ v <= 2 * acts'
    BY UndoFacts
  <2> QED
    BY <2>1, <2>2, ShownKeeps
<1>4. flag' \in [Flags -> Row \cup {0}]
  BY DEF Released, TypeInv, ControlsTyped
<1>5. ControlsTyped'
  BY <1>4, SamePage DEF TypeInv, ControlsTyped
<1> QED
  BY <1>1, <1>2, <1>3, <1>5 DEF TypeInv

LEMMA RejectedTypeInv ==
    ASSUME TypeInv, NEW r \in reqs, Rejected(r)
    PROVE  TypeInv'
<1>1. UNCHANGED <<page, wanted, server, loading, open, acts, failures>>
      /\ reqs' = reqs \ {r} /\ flag' = Released(r.op) /\ shown' = Undo(TakenBack(r))
  BY DEF Rejected
<1>2. r.op.assumes \subseteq LoadNames
  BY RequestFields, StateFacts, OpFacts
<1>3. blurred' \subseteq LoadNames /\ failures' \in 0 .. MaxFailures
  BY <1>1, <1>2 DEF Rejected, TypeInv, ControlsTyped
<1> QED
  BY <1>1, <1>3, FailedTypeInv

LEMMA LoseTypeInv ==
    ASSUME TypeInv, NEW r \in reqs, Lose(r)
    PROVE  TypeInv'
<1>1. UNCHANGED <<page, wanted, server, loading, open, acts>>
      /\ reqs' = reqs \ {r} /\ flag' = Released(r.op) /\ shown' = Undo(TakenBack(r)) /\ Fails
  BY DEF Lose
<1>2. blurred' \subseteq LoadNames
  BY DEF Lose, TypeInv, ControlsTyped
<1> QED
  BY <1>1, <1>2, FailsTyped, FailedTypeInv

\* What the page shows after an answer.
LEMMA ShowsTyped ==
    ASSUME TypeInv, UNCHANGED <<page, acts>>, NEW r \in reqs, NEW closes \in BOOLEAN, Shows(r, closes)
    PROVE  /\ ShownTyped'
           /\ wanted' \in [LoadNames -> Control \cup {0}]
           /\ open' \in [Forms -> 0 .. Patience]
<1>1. r.keys \in [LoadNames -> Control \cup {0}] /\ r.ver \in Nat /\ r.ver <= 2 * acts
  BY RequestFields
<1>2. wanted' \in [LoadNames -> Control \cup {0}]
  BY <1>1, StateFacts DEF Shows
<1>3. open' \in [Forms -> 0 .. Patience]
  <2>1. 0 \in 0 .. Patience
    <3>1. Patience \in Nat
      BY StateFacts
    <3> QED
      BY <3>1
  <2>2. open \in [Forms -> 0 .. Patience]
    BY DEF TypeInv, ControlsTyped
  <2> QED
    BY <2>1, <2>2 DEF Shows
<1>4. r.ver <= 2 * acts'
  BY <1>1
<1>5. shown' = [n \in LoadNames |-> shown'[n]]
  BY DEF Shows
<1>6. ASSUME NEW n \in LoadNames
      PROVE  \/ shown'[n] = Nothing
             \/ shown'[n] = shown[n]
             \/ \E key \in Control \cup {0}, v \in Nat :
                   shown'[n] = [key |-> key, ver |-> v] /\ v <= 2 * acts'
  <2>1. \/ shown'[n] = Nothing
        \/ shown'[n] = shown[n]
        \/ shown'[n] = [key |-> r.keys[n], ver |-> r.ver]
        \/ shown'[n] = [key |-> shown[n].key, ver |-> r.ver]
        \/ shown'[n] = [key |-> 1, ver |-> r.ver]
        \/ shown'[n] = Undo(TakenBack(r))[n]
    BY DEF Shows, Answer
  <2>2. /\ r.keys[n] \in Control \cup {0} /\ 1 \in Control \cup {0}
        /\ shown[n].key \in Control \cup {0}
    BY <1>1, StartAssumption, StateFacts
  <2>3. CASE \E key \in Control \cup {0} : shown'[n] = [key |-> key, ver |-> r.ver]
    BY <1>1, <1>4, <2>3
  <2>4. CASE shown'[n] = Undo(TakenBack(r))[n]
    BY <2>4, UndoFacts
  <2> QED
    BY <2>1, <2>2, <2>3, <2>4
<1>7. ShownTyped'
  BY <1>5, <1>6, ShownKeeps
<1> QED
  BY <1>2, <1>3, <1>7

LEMMA CrossedFacts ==
    ASSUME TypeInv, NEW r \in reqs
    PROVE  Crossed(r) \subseteq LoadNames
<1>1. r.op.assumes \subseteq LoadNames /\ r.fetch \in LoadNames \cup {""}
  BY RequestFields, StateFacts, OpFacts
<1> QED
  BY <1>1 DEF Crossed, TakenBack, SelectedBy

\* A handler past its await goes on to its reloads, or ends.
LEMMA ContinueTyped ==
    ASSUME TypeInv, UNCHANGED <<page, acts>>, NEW r \in reqs, NEW i \in Reloads(r), Continue(r, i)
    PROVE  /\ ReqsTyped' /\ Sent' \subseteq Sent
           /\ flag' \in [Flags -> Row \cup {0}] /\ loading' \subseteq Spinners
           /\ blurred' \subseteq LoadNames
<1> DEFINE n == r.op.reloads[i]
           q == Request(r.id, r.op, r.row, r.form, n, i, r.keys)
<1>1. n \in LoadNames /\ i \in Nat /\ i \in DOMAIN r.op.reloads
  BY ReloadsFacts
<1>2. Patience \in Nat /\ acts \in Nat /\ n # "" /\ page \in Pages /\ r \in InFlight
  BY <1>1, StateFacts, RequestFields
<1>3. 0 \in 0 .. 2 * Patience
  <2>1. Patience \in Nat
    BY <1>2
  <2> HIDE DEF Patience
  <2> QED
    BY <2>1
<1>4. q \in InFlight
  BY <1>1, <1>2, <1>3 DEF Request, InFlight
<1>5. q.id = r.id /\ q.ver = 0 /\ q.fetch = n /\ q.op = r.op /\ q.at = i
  BY DEF Request
<1>6. 0 <= 2 * acts
  <2>1. acts \in Nat
    BY <1>2
  <2> QED
    BY <2>1
<1>7. reqs' = (reqs \ {r}) \cup {q} /\ flag' = flag
      /\ loading' \subseteq loading \cup Spinners /\ blurred' \subseteq blurred \cup {n} \cup Crossed(r)
  BY DEF Continue, Blurred
<1>8. q.fetch = q.op.reloads[q.at] /\ q.at \in DOMAIN q.op.reloads
  BY <1>1, <1>5
<1> HIDE DEF n, q
<1>9. ReqsTyped' /\ Sent' \subseteq Sent \ {r}
  BY <1>2, <1>4, <1>5, <1>6, <1>7, <1>8, StepTyped DEF IsWrite
<1>10. loading' \subseteq Spinners /\ blurred' \subseteq LoadNames
  BY <1>1, <1>7, CrossedFacts DEF TypeInv, ControlsTyped
<1> QED
  BY <1>7, <1>9, <1>10 DEF TypeInv, ControlsTyped

LEMMA EndTyped ==
    ASSUME TypeInv, UNCHANGED <<page, acts>>, NEW r \in reqs, NEW ns \in SUBSET LoadNames, End(r, ns)
    PROVE  /\ ReqsTyped' /\ Sent' \subseteq Sent
           /\ flag' \in [Flags -> Row \cup {0}] /\ loading' \subseteq Spinners
           /\ blurred' \subseteq LoadNames
<1>1. \A n \in ns : r.keys[n] \in Control \cup {0}
  BY RequestFields
<1>2. reqs' = (reqs \ {r}) \cup {Fetch(n, r.keys[n]) : n \in ns}
  BY DEF End
<1>3. \A s \in reqs' : s \in reqs \/ NewRead(s)
  BY <1>1, <1>2 DEF NewRead
<1>4. ReqsTyped' /\ Sent' \subseteq Sent
  BY <1>3, ReadsTyped
<1>5. flag' \in [Flags -> Row \cup {0}]
  BY DEF End, Released, TypeInv, ControlsTyped
<1>6. loading' \subseteq Spinners /\ blurred' \subseteq LoadNames
  BY CrossedFacts DEF End, Blurred, TypeInv, ControlsTyped
<1> QED
  BY <1>4, <1>5, <1>6

LEMMA GoesOnTypeInv ==
    ASSUME TypeInv, NEW r \in reqs, NEW closes \in BOOLEAN, Shows(r, closes),
           UNCHANGED <<page, server, acts, failures>>,
           \/ \E i \in Reloads(r) : Continue(r, i)
           \/ \E ns \in SUBSET LoadNames : End(r, ns)
    PROVE  TypeInv'
<1>1. /\ ReqsTyped' /\ Sent' \subseteq Sent
      /\ flag' \in [Flags -> Row \cup {0}] /\ loading' \subseteq Spinners
      /\ blurred' \subseteq LoadNames
  BY ContinueTyped, EndTyped
<1>2. ShownTyped' /\ wanted' \in [LoadNames -> Control \cup {0}] /\ open' \in [Forms -> 0 .. Patience]
  BY ShowsTyped
<1>3. ServerTyped'
  BY <1>1, ServerKeeps
<1>4. ControlsTyped'
  BY <1>1, <1>2, SamePage DEF TypeInv, ControlsTyped
<1> QED
  BY <1>1, <1>2, <1>3, <1>4 DEF TypeInv

LEMMA LandTypeInv ==
    ASSUME TypeInv, NEW r \in reqs, Written(r) \/ Loaded(r)
    PROVE  TypeInv'
<1>1. UNCHANGED <<page, server, acts, failures>> /\ \E closes \in BOOLEAN : Shows(r, closes)
  <2>1. r.op.last \in BOOLEAN
    <3>1. Reading.last = FALSE
      BY DEF Reading, Run, Write
    <3>2. page.ops \subseteq WriteKind
      BY StateFacts, PageFacts
    <3>3. \A o \in WriteKind : o.last \in BOOLEAN
      BY DEF WriteKind
    <3> QED
      BY <3>1, <3>2, <3>3, RequestFields
  <2>2. (~r.op.last) \in BOOLEAN /\ (Reloads(r) = {} /\ r.op.last) \in BOOLEAN
    OBVIOUS
  <2> QED
    BY <2>2 DEF Written, Loaded
<1>2. {r.op.reloads[i] : i \in Reloads(r)} \subseteq LoadNames
  BY ReloadsFacts
<1>3. \/ \E i \in Reloads(r) : Continue(r, i)
      \/ \E ns \in SUBSET LoadNames : End(r, ns)
  <2>1. CASE Reloads(r) # {} /\ Continue(r, Min(Reloads(r)))
    BY <2>1, ReloadsFacts
  <2>2. CASE End(r, {}) \/ End(r, {r.op.reloads[i] : i \in Reloads(r)})
    BY <1>2, <2>2
  <2> QED
    BY <2>1, <2>2 DEF Written, Loaded
<1> QED
  BY <1>1, <1>3, GoesOnTypeInv

LEMMA TypeInvNext == TypeInv /\ [Next]_vars => TypeInv'
<1> SUFFICES ASSUME TypeInv, [Next]_vars PROVE TypeInv'
  OBVIOUS
<1>1. ASSUME NEW l \in page.loads, ChangeControl(l) \/ Click(l) \/ Clear(l)
      PROVE  TypeInv'
  <2>1. \E key \in Control \cup {0}, value \in Control \cup {0} :
           Ask(l, key, value) /\ Acts /\ UNCHANGED <<page, server, flag, failures>>
    <3>1. CASE ChangeControl(l)
      BY <3>1 DEF ChangeControl
    <3>2. CASE Click(l)
      BY <3>2, StartAssumption DEF Click
    <3>3. CASE Clear(l)
      BY <3>3, StateFacts, StartAssumption DEF Clear
    <3> QED
      BY <1>1, <3>1, <3>2, <3>3
  <2> QED
    BY <2>1, AskTypeInv
<1>2. ASSUME NEW l \in page.loads, Poll(l) \/ More(l)
      PROVE  TypeInv'
  BY <1>2, PollTypeInv, MoreTypeInv
<1>3. ASSUME NEW l \in page.loads, Close(l)
      PROVE  TypeInv'
  BY <1>3, CloseTypeInv
<1>4. ASSUME NEW f \in Forms, OpenForm(f) \/ Cancel(f)
      PROVE  TypeInv'
  BY <1>4, FormTypeInv
<1>5. ASSUME NEW o \in page.ops, NEW row \in IF o.slot THEN Row ELSE {1}, Submit(o, row)
      PROVE  TypeInv'
  BY <1>5, SubmitTypeInv, StartAssumption
<1>6. ASSUME NEW r \in reqs, Serve(r) \/ Refuse(r)
      PROVE  TypeInv'
  BY <1>6, ServeTypeInv, RefuseTypeInv
<1>7. ASSUME NEW r \in reqs, Written(r) \/ Loaded(r)
      PROVE  TypeInv'
  BY <1>7, LandTypeInv
<1>8. ASSUME NEW r \in reqs, Rejected(r) \/ Lose(r)
      PROVE  TypeInv'
  BY <1>8, RejectedTypeInv, LoseTypeInv
<1>9. CASE UNCHANGED vars
  <2>1. UNCHANGED <<page, wanted, shown, server, flag, loading, open, reqs, blurred, acts, failures>>
    BY <1>9 DEF vars
  <2>2. Sent' = Sent /\ Writes' = Writes
    BY <2>1 DEF Sent, Writes
  <2>3. ControlsTyped' /\ ShownTyped' /\ ServerTyped'
    BY <2>1, <2>2, SamePage DEF TypeInv, ControlsTyped, ShownTyped, ServerTyped
  <2>4. ReqsTyped'
    BY <2>1, <2>2, SamePage DEF TypeInv, ReqsTyped, Placed, Distinct
  <2> QED
    BY <2>3, <2>4 DEF TypeInv
<1> QED
  BY <1>1, <1>2, <1>3, <1>4, <1>5, <1>6, <1>7, <1>8, <1>9 DEF Next, Land

LEMMA TypeInvInit == Init => TypeInv
<1> SUFFICES ASSUME Init PROVE TypeInv
  OBVIOUS
<1>0. page \in Pages /\ Patience \in Nat /\ "" \notin LoadNames
  BY PageFacts DEF Init
<1>1. 0 \in 0 .. Patience
  <2>1. Patience \in Nat
    BY <1>0
  <2> QED
    BY <2>1
<1>2. Mounted(page) \subseteq LoadNames
  BY DEF Mounted, LoadNames
<1>3. ControlsTyped
  <2>1. wanted \in [LoadNames -> Control \cup {0}]
    BY StartAssumption DEF Init
  <2>2. flag \in [Flags -> Row \cup {0}] /\ open \in [Forms -> 0 .. Patience]
    BY <1>1 DEF Init
  <2>3. failures \in 0 .. MaxFailures
    <3>1. MaxFailures \in Nat /\ failures = 0
      BY BoundAssumption DEF Init
    <3> QED
      BY <3>1
  <2>4. loading \subseteq Spinners /\ blurred \subseteq LoadNames /\ acts \in 0 .. Patience
    BY <1>1 DEF Init
  <2> QED
    BY <1>0, <2>1, <2>2, <2>3, <2>4 DEF ControlsTyped
<1>4. ShownTyped
  BY DEF Init, ShownTyped, Nothing
<1>5. \A s \in reqs : s \in InFlight /\ s.fetch # "" /\ s.op = Reading /\ s.id = 0 /\ s.ver = 0
  <2> TAKE s \in reqs
  <2>1. PICK n \in Mounted(page) : s = Fetch(n, 1)
    BY DEF Init
  <2>2. n \in LoadNames /\ n # ""
    BY <1>0, <1>2
  <2>3. s \in InFlight
    BY <1>0, <2>1, <2>2, FetchType, StartAssumption
  <2>4. s.fetch = n /\ s.op = Reading /\ s.id = 0 /\ s.ver = 0
    BY <2>1 DEF Fetch, Request
  <2> QED
    BY <2>2, <2>3, <2>4
<1>6. Writes = {} /\ Sent = {}
  BY <1>5 DEF Writes, Sent, IsWrite
<1>7. IsFiniteSet({}) /\ Cardinality({}) = 0
  BY FS_EmptySet
<1>8. ReqsTyped
  <2>1. IsFiniteSet(Writes)
    BY <1>6, <1>7
  <2>2. Placed /\ Distinct
    BY <1>5 DEF Placed, Distinct, IsWrite
  <2>3. reqs \subseteq InFlight /\ acts = 0
    BY <1>5 DEF Init
  <2>4. \A s \in reqs : s.ver <= 2 * acts /\ s.id <= acts
    <3> TAKE s \in reqs
    <3>1. s.ver = 0 /\ s.id = 0
      BY <1>5
    <3>2. acts = 0
      BY <2>3
    <3> QED
      BY <3>1, <3>2
  <2> QED
    BY <2>1, <2>2, <2>3, <2>4 DEF ReqsTyped
<1>9. ServerTyped
  <2>1. Cardinality(Sent) = 0 /\ acts = 0 /\ server = [n \in LoadNames |-> 0]
    BY <1>6, <1>7 DEF Init
  <2> QED
    BY <2>1 DEF ServerTyped
<1> QED
  BY <1>3, <1>4, <1>8, <1>9 DEF TypeInv

\* On every page that PageKinds can describe the counters stay within what the
\* user has done, although handlers, retries and timers go on on their own: no
\* write is applied twice, and no answer tells of one that was never sent.
THEOREM ConsoleTypeOK == Spec => []TypeOK
  BY TypeInvInit, TypeInvNext, TypeInvTypeOK, PTL DEF Spec

----------------------------------------------------------------------------
(* Who disables the buttons.                                               *)

FlagsHeld == \A f \in Flags : flag[f] # 0 => \E r \in reqs : r.op.flag = f /\ r.row = flag[f]

LoadsHeld == \A n \in loading : \E r \in reqs : r.fetch = n

\* No handler of a write loses its place.
LEMMA FlagsStayHeld ==
    ASSUME FlagsHeld, UNCHANGED <<page, flag>>,
           \A r \in reqs : r.op.flag # "" => \E q \in reqs' : q.op = r.op /\ q.row = r.row
    PROVE  FlagsHeld'
<1>1. Flags' = Flags /\ "" \notin Flags
  BY DEF Flags
<1> SUFFICES ASSUME NEW f \in Flags, flag[f] # 0
             PROVE  \E q \in reqs' : q.op.flag = f /\ q.row = flag[f]
  BY <1>1 DEF FlagsHeld
<1>2. PICK r \in reqs : r.op.flag = f /\ r.row = flag[f]
  BY DEF FlagsHeld
<1>3. PICK q \in reqs' : q.op = r.op /\ q.row = r.row
  BY <1>1, <1>2
<1> QED
  BY <1>2, <1>3

\* The handler of r ends: its flag is free, and the others are held by others.
LEMMA FlagsReleased ==
    ASSUME FlagsHeld, page' = page, NEW r \in reqs, flag' = Released(r.op),
           reqs \ {r} \subseteq reqs'
    PROVE  FlagsHeld'
<1>1. Flags' = Flags
  BY DEF Flags
<1> SUFFICES ASSUME NEW f \in Flags, flag'[f] # 0
             PROVE  \E q \in reqs' : q.op.flag = f /\ q.row = flag'[f]
  BY <1>1 DEF FlagsHeld
<1>2. f # r.op.flag /\ flag'[f] = flag[f]
  BY DEF Released
<1>3. PICK q \in reqs : q.op.flag = f /\ q.row = flag[f]
  BY <1>2 DEF FlagsHeld
<1> QED
  BY <1>2, <1>3

\* The cleanup of an effect ends no write and none of its reloads.
LEMMA CancelledReads ==
    ASSUME TypeInv, NEW ns, NEW r \in reqs, r \notin Uncancelled(ns)
    PROVE  r.op = Reading
<1>1. PICK l \in page.loads : l.guarded /\ l.name = r.fetch
  BY DEF Uncancelled
<1>2. page \in Pages /\ r.fetch # "" /\ r.op \in page.ops \cup {Reading}
  BY <1>1, StateFacts, RequestFields
<1>3. r.op = Reading \/ (r.at \in DOMAIN r.op.reloads /\ r.fetch = r.op.reloads[r.at])
  BY <1>2 DEF TypeInv, ReqsTyped, Placed, IsWrite
<1>4. ASSUME r.op \in page.ops, r.at \in DOMAIN r.op.reloads, r.fetch = r.op.reloads[r.at]
      PROVE  FALSE
  <2>1. l.name \notin ToSet(r.op.reloads)
    BY <1>1, <1>2, <1>4, GuardAssumption DEF Detail
  <2> QED
    BY <1>1, <1>4, <2>1 DEF ToSet
<1> QED
  BY <1>2, <1>3, <1>4

\* It cancels no load that has a button.
LEMMA SpinnersStay ==
    ASSUME TypeInv, NEW ns, NEW r \in reqs, r.fetch \in loading
    PROVE  r \in Uncancelled(ns)
<1> SUFFICES ASSUME r \notin Uncancelled(ns) PROVE FALSE
  OBVIOUS
<1>1. PICK l \in page.loads : l.guarded /\ l.name = r.fetch
  BY DEF Uncancelled
<1>2. r.fetch \in Spinners /\ page \in Pages
  BY DEF TypeInv, ControlsTyped
<1>3. PICK m \in page.loads : m.busy /\ m.name = r.fetch
  BY <1>2 DEF Spinners
<1> QED
  BY <1>1, <1>2, <1>3, GuardAssumption DEF Detail

LEMMA CancelledHeld ==
    ASSUME TypeInv, FlagsHeld, LoadsHeld, UNCHANGED <<page, flag>>, NEW ns,
           Uncancelled(ns) \subseteq reqs',
           \A n \in loading' : n \in loading \/ \E q \in reqs' : q.fetch = n
    PROVE  FlagsHeld' /\ LoadsHeld'
<1>1. \A r \in reqs : r.op.flag # "" => r \in reqs'
  BY CancelledReads, ReadingIsFree
<1>2. FlagsHeld'
  BY <1>1, FlagsStayHeld
<1>3. ASSUME NEW n \in loading' PROVE \E q \in reqs' : q.fetch = n
  <2>1. CASE n \in loading
    <3>1. PICK r \in reqs : r.fetch = n
      BY <2>1 DEF LoadsHeld
    <3> QED
      BY <2>1, <3>1, SpinnersStay
  <2> QED
    BY <2>1
<1> QED
  BY <1>2, <1>3 DEF LoadsHeld

\* The user asks for a load.
LEMMA AskHeld ==
    ASSUME TypeInv, FlagsHeld, LoadsHeld, UNCHANGED <<page, flag>>,
           NEW l \in page.loads, NEW key, NEW value, Ask(l, key, value)
    PROVE  FlagsHeld' /\ LoadsHeld'
<1> DEFINE ns == {l.name, l.resets}
           q == Fetch(l.name, key)
<1>1. /\ Uncancelled(ns) \subseteq reqs' /\ q \in reqs'
      /\ loading' \subseteq loading \cup {l.name}
  BY DEF Ask
<1>2. q.fetch = l.name
  BY DEF Fetch, Request
<1> HIDE DEF ns, q
<1> QED
  BY <1>1, <1>2, CancelledHeld

\* A request and its handler, one step further, or the load that it starts.
LEMMA StepHeld ==
    ASSUME FlagsHeld, LoadsHeld, UNCHANGED <<page, flag>>, NEW r \in reqs, NEW q,
           reqs' = (reqs \ {r}) \cup {q}, q.op = r.op, q.row = r.row,
           \A n \in loading' : n = q.fetch \/ (n \in loading /\ n # r.fetch)
    PROVE  FlagsHeld' /\ LoadsHeld'
<1>1. FlagsHeld'
  BY FlagsStayHeld
<1>2. LoadsHeld'
  BY DEF LoadsHeld
<1> QED
  BY <1>1, <1>2

LEMMA EndHeld ==
    ASSUME FlagsHeld, LoadsHeld, page' = page, NEW r \in reqs, flag' = Released(r.op),
           reqs \ {r} \subseteq reqs',
           \A n \in loading' : (n \in loading /\ n # r.fetch) \/ \E q \in reqs' : q.fetch = n
    PROVE  FlagsHeld' /\ LoadsHeld'
<1>1. FlagsHeld'
  BY FlagsReleased
<1>2. LoadsHeld'
  BY DEF LoadsHeld
<1> QED
  BY <1>1, <1>2

LEMMA SubmitHeld ==
    ASSUME FlagsHeld, LoadsHeld, NEW o \in page.ops, NEW row, Submit(o, row)
    PROVE  FlagsHeld' /\ LoadsHeld'
<1>1. \A id, form, at, keys :
         /\ Request(id, o, row, form, "", at, keys).op = o
         /\ Request(id, o, row, form, "", at, keys).row = row
  BY DEF Request
<1>2. PICK q : q.op = o /\ q.row = row /\ reqs' = reqs \cup {q}
  BY <1>1 DEF Submit
<1>3. /\ page' = page /\ loading' = loading
      /\ flag' = [f \in Flags |-> IF f = o.flag THEN row ELSE flag[f]]
  BY DEF Submit
<1>4. Flags' = Flags
  BY <1>3 DEF Flags
<1>5. ASSUME NEW f \in Flags, flag'[f] # 0
      PROVE  \E r \in reqs' : r.op.flag = f /\ r.row = flag'[f]
  <2>1. CASE f = o.flag
    BY <1>2, <1>3, <2>1
  <2>2. CASE f # o.flag
    <3>1. flag'[f] = flag[f]
      BY <1>3, <2>2
    <3>2. PICK r \in reqs : r.op.flag = f /\ r.row = flag[f]
      BY <1>5, <3>1 DEF FlagsHeld
    <3> QED
      BY <1>2, <3>1, <3>2
  <2> QED
    BY <2>1, <2>2
<1>6. LoadsHeld'
  BY <1>2, <1>3 DEF LoadsHeld
<1> QED
  BY <1>4, <1>5, <1>6 DEF FlagsHeld

\* A handler past its await: it awaits its next reload, or ends.
LEMMA GoesOnHeld ==
    ASSUME FlagsHeld, LoadsHeld, page' = page, NEW r \in reqs, NEW x,
           Continue(r, x) \/ End(r, x)
    PROVE  FlagsHeld' /\ LoadsHeld'
<1>1. ASSUME Continue(r, x) PROVE FlagsHeld' /\ LoadsHeld'
  <2> DEFINE n == r.op.reloads[x]
             q == Request(r.id, r.op, r.row, r.form, n, x, r.keys)
  <2>1. /\ reqs' = (reqs \ {r}) \cup {q} /\ flag' = flag
        /\ loading' \subseteq (loading \ {r.fetch}) \cup {n}
    BY <1>1 DEF Continue
  <2>2. q.op = r.op /\ q.row = r.row /\ q.fetch = n
    BY DEF Request
  <2> HIDE DEF n, q
  <2> QED
    BY <2>1, <2>2, StepHeld
<1>2. ASSUME End(r, x) PROVE FlagsHeld' /\ LoadsHeld'
  <2>1. /\ flag' = Released(r.op) /\ reqs \ {r} \subseteq reqs'
        /\ \A n \in x : Fetch(n, r.keys[n]) \in reqs'
        /\ loading' \subseteq (loading \ {r.fetch}) \cup x
    BY <1>2 DEF End
  <2>2. \A n : Fetch(n, r.keys[n]).fetch = n
    BY DEF Fetch, Request
  <2>3. \A n \in x : \E q \in reqs' : q.fetch = n
    BY <2>1, <2>2
  <2> QED
    BY <2>1, <2>3, EndHeld
<1> QED
  BY <1>1, <1>2

LEMMA HeldInit == Init => FlagsHeld /\ LoadsHeld
<1> SUFFICES ASSUME Init PROVE FlagsHeld /\ LoadsHeld
  OBVIOUS
<1>1. FlagsHeld
  BY DEF Init, FlagsHeld
<1>2. \A n : Fetch(n, 1).fetch = n
  BY DEF Fetch, Request
<1>3. \A n \in loading : Fetch(n, 1) \in reqs
  BY DEF Init
<1> QED
  BY <1>1, <1>2, <1>3 DEF LoadsHeld

\* What the page shows and asks for changes with every step; who holds what
\* changes only where a handler starts, goes on or ends.
LEMMA HeldNext ==
    TypeInv /\ FlagsHeld /\ LoadsHeld /\ [Next]_vars => FlagsHeld' /\ LoadsHeld'
<1> SUFFICES ASSUME TypeInv, FlagsHeld, LoadsHeld, [Next]_vars PROVE FlagsHeld' /\ LoadsHeld'
  OBVIOUS
<1>1. ASSUME NEW l \in page.loads, ChangeControl(l) \/ Click(l) \/ Clear(l)
      PROVE  FlagsHeld' /\ LoadsHeld'
  <2>1. UNCHANGED <<page, flag>> /\ \E key, value : Ask(l, key, value)
    BY <1>1 DEF ChangeControl, Click, Clear
  <2> QED
    BY <2>1, AskHeld
<1>2. ASSUME NEW l \in page.loads, Poll(l) \/ More(l)
      PROVE  FlagsHeld' /\ LoadsHeld'
  <2>0. \A n, key : Fetch(n, key).fetch = n /\ NextPage(n).fetch = n
    BY DEF Fetch, Request, NextPage, Step
  <2>1. /\ UNCHANGED <<page, flag>>
        /\ \E q : /\ q.fetch = l.name /\ reqs' = reqs \cup {q}
                  /\ loading' = loading \cup ({l.name} \cap Spinners)
    BY <1>2, <2>0 DEF Poll, More
  <2>2. PICK q : /\ q.fetch = l.name /\ reqs' = reqs \cup {q}
                 /\ loading' = loading \cup ({l.name} \cap Spinners)
    BY <2>1
  <2>3. Uncancelled({}) \subseteq reqs'
    BY <2>2 DEF Uncancelled
  <2>4. \A n \in loading' : n \in loading \/ \E r \in reqs' : r.fetch = n
    BY <2>2
  <2> QED
    BY <2>1, <2>3, <2>4, CancelledHeld
<1>3. ASSUME NEW l \in page.loads, Close(l)
      PROVE  FlagsHeld' /\ LoadsHeld'
  <2>1. UNCHANGED <<page, flag, loading>> /\ reqs' = Uncancelled({l.name})
    BY <1>3 DEF Close
  <2> QED
    BY <2>1, CancelledHeld
<1>4. ASSUME NEW f \in Forms, OpenForm(f) \/ Cancel(f)
      PROVE  FlagsHeld' /\ LoadsHeld'
  <2>1. UNCHANGED <<page, flag, loading, reqs>>
    BY <1>4 DEF OpenForm, Cancel
  <2> QED
    BY <2>1 DEF FlagsHeld, LoadsHeld, Flags
<1>5. ASSUME NEW o \in page.ops, NEW row, Submit(o, row)
      PROVE  FlagsHeld' /\ LoadsHeld'
  BY <1>5, SubmitHeld
<1>6. ASSUME NEW r \in reqs, Serve(r) \/ Refuse(r)
      PROVE  FlagsHeld' /\ LoadsHeld'
  <2>1. UNCHANGED <<page, flag, loading>>
        /\ \E phase, ver : reqs' = (reqs \ {r}) \cup {Step(r, phase, ver)}
    BY <1>6 DEF Serve, Refuse
  <2>2. PICK q : /\ reqs' = (reqs \ {r}) \cup {q}
                 /\ q.op = r.op /\ q.row = r.row /\ q.fetch = r.fetch
    <3>1. \A phase, ver : LET q == Step(r, phase, ver)
                          IN  q.op = r.op /\ q.row = r.row /\ q.fetch = r.fetch
      BY DEF Step
    <3> QED
      BY <2>1, <3>1
  <2> QED
    BY <2>1, <2>2, StepHeld
<1>7. ASSUME NEW r \in reqs, Written(r) \/ Loaded(r)
      PROVE  FlagsHeld' /\ LoadsHeld'
  <2>1. page' = page /\ \E x : Continue(r, x) \/ End(r, x)
    BY <1>7 DEF Written, Loaded
  <2> QED
    BY <2>1, GoesOnHeld
<1>8. ASSUME NEW r \in reqs, Rejected(r) \/ Lose(r)
      PROVE  FlagsHeld' /\ LoadsHeld'
  <2>1. /\ page' = page /\ flag' = Released(r.op) /\ reqs' = reqs \ {r}
        /\ loading' = loading /\ r.fetch = ""
    BY <1>8 DEF Rejected, Lose
  <2>2. loading \subseteq LoadNames /\ "" \notin LoadNames
    BY StateFacts DEF TypeInv, ControlsTyped, Spinners, LoadNames
  <2>3. \A n \in loading' : n \in loading /\ n # r.fetch
    BY <2>1, <2>2
  <2> QED
    BY <2>1, <2>3, EndHeld
<1>9. CASE UNCHANGED vars
  <2>1. UNCHANGED <<page, flag, loading, reqs>>
    BY <1>9 DEF vars
  <2> QED
    BY <2>1 DEF FlagsHeld, LoadsHeld, Flags
<1> QED
  BY <1>1, <1>2, <1>3, <1>4, <1>5, <1>6, <1>7, <1>8, <1>9 DEF Next, Land

\* On every page whose cancelled effects have no button, with any acts, timers,
\* refusals and lost connections, a disabled button is that of a handler that
\* has still to end or of a load under way: none stays disabled on a page at
\* rest, whichever path its handler took to its finally.
THEOREM DisabledByHandlerAlways == Spec => []DisabledByHandler
<1>1. Init => TypeInv /\ FlagsHeld /\ LoadsHeld
  BY TypeInvInit, HeldInit
<1>2. (TypeInv /\ FlagsHeld /\ LoadsHeld) /\ [Next]_vars => (TypeInv /\ FlagsHeld /\ LoadsHeld)'
  BY TypeInvNext, HeldNext
<1>3. TypeInv /\ FlagsHeld /\ LoadsHeld => DisabledByHandler
  BY DEF FlagsHeld, LoadsHeld, DisabledByHandler
<1> QED
  BY <1>1, <1>2, <1>3, PTL DEF Spec

----------------------------------------------------------------------------
(* What the details show.                                                  *)

\* What is shown of n, and every answer about it still to come, is for the value
\* that its control has.
Own(n) ==
    /\ shown[n].key \in {0, wanted[n]}
    /\ \A r \in reqs : r.fetch = n => r.keys[n] = wanted[n]

\* DetailIsOfItsRow alone is not inductive: an answer that lands is of the right
\* row because the cleanup has left no request of another one.
OwnInv == \A l \in page.loads : l.guarded => Own(l.name)

LEMMA GuardFacts ==
    ASSUME page \in Pages, NEW l \in page.loads, l.guarded
    PROVE  /\ Detail(page, l) /\ l.name \in LoadNames /\ l.name # "" /\ ~Selects(l.name)
           /\ \A o \in page.ops \cup {Reading} :
                /\ l.name \notin o.assumes /\ l.name # o.tells /\ l.name # o.drops
                /\ l.name # o.reselects
                /\ \A i \in DOMAIN o.reloads : o.reloads[i] # l.name
<1>1. Detail(page, l)
  BY GuardAssumption
<1>2. l.name \in LoadNames /\ l.name # ""
  BY PageFacts
<1>3. ~Selects(l.name)
  BY <1>1 DEF Detail, Selects
<1>4. ASSUME NEW o \in page.ops \cup {Reading}
      PROVE  /\ l.name \notin o.assumes /\ l.name # o.tells /\ l.name # o.drops
             /\ l.name # o.reselects
             /\ \A i \in DOMAIN o.reloads : o.reloads[i] # l.name
  <2>1. CASE o \in page.ops
    <3>1. l.name \notin o.assumes \cup {o.tells, o.drops, o.reselects} \cup ToSet(o.reloads)
      BY <1>1, <2>1 DEF Detail
    <3>2. \A i \in DOMAIN o.reloads : o.reloads[i] \in ToSet(o.reloads)
      BY DEF ToSet
    <3> QED
      BY <3>1, <3>2
  <2>2. CASE o = Reading
    <3>1. DOMAIN <<>> = {}
      OBVIOUS
    <3>2. DOMAIN o.reloads = {}
      BY <2>2, <3>1, ReadingFields
    <3>3. o.assumes = {} /\ o.tells = "" /\ o.drops = "" /\ o.reselects = ""
      BY <2>2, ReadingFields
    <3> QED
      BY <1>2, <3>2, <3>3
  <2> QED
    BY <2>1, <2>2
<1> QED
  BY <1>1, <1>2, <1>3, <1>4

\* Nothing about n happens.
LEMMA OwnStays ==
    ASSUME NEW n, Own(n), shown'[n].key = shown[n].key, wanted'[n] = wanted[n],
           \A s \in reqs' : s.fetch = n => \E r \in reqs : r.fetch = n /\ r.keys = s.keys
    PROVE  Own(n)'
  BY DEF Own

LEMMA NewReadNames == \A n, key : Fetch(n, key).fetch = n /\ NextPage(n).fetch = n
  BY DEF Fetch, NextPage, Request, Step

\* The detail is opened, or closed by another choice of what resets it.
LEMMA AskOwn ==
    ASSUME TypeInv, OwnInv, page' = page, NEW m \in page.loads, NEW l \in page.loads, l.guarded,
           ChangeControl(m) \/ Click(m) \/ Clear(m)
    PROVE  Own(l.name)'
<1> DEFINE n == l.name
<1>0. /\ page \in Pages /\ Detail(page, l) /\ n \in LoadNames /\ Own(n)
  BY StateFacts, GuardFacts DEF OwnInv
<1>1. PICK key, value : Ask(m, key, value) /\ (ChangeControl(m) => value = key)
  BY DEF ChangeControl, Click, Clear
<1>2. /\ reqs' = Uncancelled({m.name, m.resets}) \cup {Fetch(m.name, key)}
      /\ wanted'[n] = IF n = m.resets THEN 0
                      ELSE IF n = m.name /\ ~m.selecting THEN value ELSE wanted[n]
      /\ shown'[n] = IF n = m.resets THEN Nothing ELSE shown[n]
  BY <1>0, <1>1 DEF Ask
<1>3. \A s \in reqs' : s \in reqs \/ s = Fetch(m.name, key)
  BY <1>2 DEF Uncancelled
<1>8. Fetch(m.name, key).fetch = m.name
  BY NewReadNames
<1>4. n \in {m.name, m.resets} => \A s \in Uncancelled({m.name, m.resets}) : s.fetch # n
  BY DEF Uncancelled
<1>5. CASE n = m.name
  <2>1. m = l /\ m.resets # n
    BY <1>0, <1>5 DEF Detail
  <2>2. ChangeControl(m) /\ ~m.selecting /\ m.covers
    BY <1>0, <2>1 DEF Detail, Click, Clear
  <2>3. wanted[n] = 0 /\ value = key
    BY <1>1, <1>5, <2>2 DEF ChangeControl
  <2>4. wanted'[n] = key /\ shown'[n] = shown[n] /\ shown[n].key = 0
    BY <1>0, <1>2, <1>5, <2>1, <2>2, <2>3 DEF Own
  <2>5. Fetch(n, key).keys[n] = key
    BY <1>0 DEF Fetch, Request
  <2>6. \A s \in reqs' : s.fetch = n => s.keys[n] = wanted'[n]
    BY <1>2, <1>4, <1>5, <2>4, <2>5
  <2> HIDE DEF n
  <2> QED
    BY <2>4, <2>6 DEF Own, n
<1>6. CASE n # m.name /\ n = m.resets
  <2>1. wanted'[n] = 0 /\ shown'[n].key = 0
    BY <1>2, <1>6 DEF Nothing
  <2>2. \A s \in reqs' : s.fetch # n
    BY <1>2, <1>4, <1>6, <1>8
  <2> HIDE DEF n
  <2> QED
    BY <2>1, <2>2 DEF Own, n
<1>7. CASE n # m.name /\ n # m.resets
  <2>1. wanted'[n] = wanted[n] /\ shown'[n] = shown[n]
    BY <1>2, <1>7
  <2>2. \A s \in reqs' : s.fetch = n => s \in reqs
    BY <1>3, <1>7, <1>8
  <2> HIDE DEF n
  <2> QED
    BY <1>0, <2>1, <2>2 DEF Own, n
<1> QED
  BY <1>5, <1>6, <1>7

\* Only its button closes it.
LEMMA CloseOwn ==
    ASSUME TypeInv, OwnInv, NEW m \in page.loads, NEW l \in page.loads, l.guarded, Close(m)
    PROVE  Own(l.name)'
<1> DEFINE n == l.name
<1>0. /\ page \in Pages /\ n \in LoadNames /\ Own(n)
      /\ m.name \in LoadNames
  BY StateFacts, GuardFacts DEF OwnInv
<1>1. reqs' = Uncancelled({m.name})
  BY DEF Close
<1>2. /\ wanted'[n] = IF n = m.name THEN 0 ELSE wanted[n]
      /\ shown'[n] = IF n = m.name THEN Nothing ELSE shown[n]
  BY <1>0 DEF Close, TypeInv, ControlsTyped, ShownTyped
<1>3. CASE n = m.name
  <2>1. \A s \in reqs' : s.fetch # n
    BY <1>1, <1>3 DEF Uncancelled
  <2>2. wanted'[n] = 0 /\ shown'[n].key = 0
    BY <1>2, <1>3 DEF Nothing
  <2> HIDE DEF n
  <2> QED
    BY <2>1, <2>2 DEF Own, n
<1>4. CASE n # m.name
  <2>1. reqs' \subseteq reqs
    BY <1>1 DEF Uncancelled
  <2>2. wanted'[n] = wanted[n] /\ shown'[n] = shown[n]
    BY <1>2, <1>4
  <2> HIDE DEF n
  <2> QED
    BY <1>0, <2>1, <2>2 DEF Own, n
<1> QED
  BY <1>3, <1>4

\* Other loads, and the writes of the page, have nothing to do with it.
LEMMA OthersOwn ==
    ASSUME TypeInv, OwnInv, NEW l \in page.loads, l.guarded,
           \/ \E m \in page.loads : Poll(m) \/ More(m)
           \/ \E o \in page.ops : \E row : Submit(o, row)
    PROVE  Own(l.name)'
<1> DEFINE n == l.name
<1>0. /\ page \in Pages /\ Detail(page, l) /\ n \in LoadNames /\ n # "" /\ Own(n)
      /\ \A o \in page.ops : n \notin o.assumes
  BY StateFacts, GuardFacts DEF OwnInv
<1>1. ASSUME NEW m \in page.loads, Poll(m) \/ More(m) PROVE Own(n)'
  <2>1. m.name # n
    <3>1. m.starts \cap {"more", "poll", "live", "tail"} # {}
      BY <1>1 DEF Poll, More, Timed
    <3>2. l.starts \cap {"more", "poll", "live", "tail"} = {}
      BY <1>0 DEF Detail
    <3> QED
      BY <1>0, <3>1, <3>2 DEF Detail
  <2>2. UNCHANGED <<wanted, shown>> /\ \A s \in reqs' : s \in reqs \/ s.fetch = m.name
    BY <1>1, NewReadNames DEF Poll, More
  <2> HIDE DEF n
  <2> QED
    BY <1>0, <2>1, <2>2 DEF Own
<1>2. ASSUME NEW o \in page.ops, NEW row, Submit(o, row) PROVE Own(n)'
  <2>1. wanted' = wanted /\ shown'[n] = shown[n]
    BY <1>0, <1>2 DEF Submit
  <2>3. \A id, form, at, keys : Request(id, o, row, form, "", at, keys).fetch = ""
    BY DEF Request
  <2>4. \E id, form, keys : reqs' = reqs \cup {Request(id, o, row, form, "", 0, keys)}
    BY <1>2 DEF Submit
  <2>2. \A s \in reqs' : s \in reqs \/ s.fetch = ""
    BY <2>3, <2>4
  <2> HIDE DEF n
  <2> QED
    BY <1>0, <2>1, <2>2 DEF Own
<1> QED
  BY <1>1, <1>2

\* An answer about it is for the row that is open; the others change nothing of it.
LEMMA ShowsOwn ==
    ASSUME TypeInv, OwnInv, NEW l \in page.loads, l.guarded, NEW r \in reqs, NEW closes,
           Shows(r, closes)
    PROVE  wanted'[l.name] = wanted[l.name] /\ shown'[l.name].key \in {0, wanted[l.name]}
<1> DEFINE n == l.name
<1>0. /\ page \in Pages /\ n \in LoadNames /\ n # "" /\ ~Selects(n)
      /\ r.op \in page.ops \cup {Reading}
  BY StateFacts, GuardFacts, RequestFields
<1>1. n \notin r.op.assumes /\ n # r.op.tells /\ n # r.op.drops /\ n # r.op.reselects
  BY <1>0, GuardFacts
<1>2. shown[n].key \in {0, wanted[n]} /\ (r.fetch = n => r.keys[n] = wanted[n])
  BY DEF OwnInv, Own
<1>3. n \notin SelectedBy(r) /\ n \notin TakenBack(r)
  BY <1>0, <1>1 DEF SelectedBy, TakenBack
<1> HIDE DEF n
<1>4. wanted'[n] = wanted[n]
  BY <1>0, <1>1, <1>3 DEF Shows
<1>5. Undo(TakenBack(r))[n] = shown[n]
  BY <1>0, <1>3 DEF Undo
<1>6. \/ shown'[n] = shown[n]
      \/ r.fetch = n /\ shown'[n] = Answer(r)
  BY <1>0, <1>1, <1>5 DEF Shows
<1>7. r.fetch = n => Answer(r).key \in {shown[n].key, r.keys[n]}
  BY DEF Answer
<1> QED
  BY <1>2, <1>4, <1>6, <1>7 DEF n

LEMMA LandOwn ==
    ASSUME TypeInv, OwnInv, NEW l \in page.loads, l.guarded, NEW r \in reqs, Written(r) \/ Loaded(r)
    PROVE  Own(l.name)'
<1> DEFINE n == l.name
<1>0. /\ page \in Pages /\ n \in LoadNames /\ r.op \in page.ops \cup {Reading}
      /\ \A s \in reqs : s.fetch = n => s.keys[n] = wanted[n]
  BY StateFacts, GuardFacts, RequestFields DEF OwnInv, Own
<1>1. wanted'[n] = wanted[n] /\ shown'[n].key \in {0, wanted[n]}
  <2>1. \E closes : Shows(r, closes)
    BY DEF Written, Loaded
  <2> QED
    BY <2>1, ShowsOwn
<1>2. \A i \in Reloads(r) : r.op.reloads[i] # n
  BY <1>0, GuardFacts DEF Reloads
<1>3. \A s \in reqs' : s \in reqs \/ s.fetch # n
  <2>1. ASSUME NEW i \in Reloads(r), Continue(r, i)
        PROVE  \A s \in reqs' : s \in reqs \/ s.fetch # n
    <3>1. \A x : Request(r.id, r.op, r.row, r.form, x, i, r.keys).fetch = x
      BY DEF Request
    <3> QED
      BY <1>2, <2>1, <3>1 DEF Continue
  <2>2. ASSUME NEW ns, \A x \in ns : x # n, End(r, ns)
        PROVE  \A s \in reqs' : s \in reqs \/ s.fetch # n
    <3>1. reqs' = (reqs \ {r}) \cup {Fetch(x, r.keys[x]) : x \in ns}
      BY <2>2 DEF End
    <3> QED
      BY <2>2, <3>1, NewReadNames
  <2>3. CASE Reloads(r) # {} /\ Continue(r, Min(Reloads(r)))
    BY <2>1, <2>3, ReloadsFacts
  <2>4. CASE End(r, {})
    BY <2>2, <2>4
  <2>5. CASE End(r, {r.op.reloads[i] : i \in Reloads(r)})
    <3>1. \A x \in {r.op.reloads[i] : i \in Reloads(r)} : x # n
      BY <1>2
    <3> QED
      BY <2>2, <2>5, <3>1
  <2> QED
    BY <2>3, <2>4, <2>5 DEF Written, Loaded
<1> HIDE DEF n
<1>4. \A s \in reqs' : s.fetch = n => s.keys[n] = wanted'[n]
  BY <1>0, <1>1, <1>3
<1>5. shown'[n].key \in {0, wanted'[n]}
  BY <1>1
<1> QED
  BY <1>4, <1>5 DEF Own, n

\* The backend answers, or a handler fails and takes back what it had assumed.
LEMMA FailedOwn ==
    ASSUME TypeInv, OwnInv, NEW l \in page.loads, l.guarded, NEW r \in reqs,
           Serve(r) \/ Refuse(r) \/ Rejected(r) \/ Lose(r)
    PROVE  Own(l.name)'
<1> DEFINE n == l.name
<1>0. n \in LoadNames /\ Own(n) /\ wanted' = wanted
  BY StateFacts, GuardFacts DEF OwnInv, Serve, Refuse, Rejected, Lose
<1>1. shown'[n].key = shown[n].key
  <2>1. Undo(TakenBack(r))[n].key = shown[n].key
    BY <1>0 DEF Undo
  <2> QED
    BY <2>1 DEF Serve, Refuse, Rejected, Lose
<1>2. \A phase, ver : Step(r, phase, ver).fetch = r.fetch /\ Step(r, phase, ver).keys = r.keys
  BY DEF Step
<1>3. \A s \in reqs' : \E q \in reqs : q.fetch = s.fetch /\ q.keys = s.keys
  <2>1. \/ \E phase, ver : reqs' = (reqs \ {r}) \cup {Step(r, phase, ver)}
        \/ reqs' = reqs \ {r}
    BY DEF Serve, Refuse, Rejected, Lose
  <2> QED
    BY <1>2, <2>1
<1> HIDE DEF n
<1>4. Own(n)'
  BY <1>0, <1>1, <1>3, OwnStays
<1> QED
  BY <1>4 DEF n

LEMMA OwnInit == Init => OwnInv
<1> SUFFICES ASSUME Init, NEW l \in page.loads, l.guarded PROVE Own(l.name)
  BY DEF OwnInv
<1>1. page \in Pages
  BY DEF Init
<1>2. Detail(page, l) /\ l.name \in LoadNames
  BY <1>1, GuardFacts
<1>3. l.name \notin Mounted(page)
  BY <1>2 DEF Detail, Mounted
<1>4. \A r \in reqs : r.fetch # l.name
  BY <1>3, NewReadNames DEF Init
<1>5. shown[l.name].key = 0
  BY <1>2 DEF Init, Nothing
<1> QED
  BY <1>4, <1>5 DEF Own

LEMMA OwnNext == TypeInv /\ OwnInv /\ [Next]_vars => OwnInv'
<1> SUFFICES ASSUME TypeInv, OwnInv, [Next]_vars PROVE OwnInv'
  OBVIOUS
<1>0. page' = page
  BY DEF Next, vars, ChangeControl, Click, Clear, More, Poll, Close, OpenForm, Cancel, Submit,
         Serve, Refuse, Land, Written, Rejected, Loaded, Lose
<1> SUFFICES ASSUME NEW l \in page.loads, l.guarded PROVE Own(l.name)'
  BY <1>0 DEF OwnInv
<1>1. ASSUME NEW m \in page.loads, ChangeControl(m) \/ Click(m) \/ Clear(m)
      PROVE  Own(l.name)'
  BY <1>0, <1>1, AskOwn
<1>2. ASSUME NEW m \in page.loads, Poll(m) \/ More(m)
      PROVE  Own(l.name)'
  BY <1>2, OthersOwn
<1>3. ASSUME NEW m \in page.loads, Close(m)
      PROVE  Own(l.name)'
  BY <1>3, CloseOwn
<1>4. ASSUME UNCHANGED <<wanted, shown, reqs>>
      PROVE  Own(l.name)'
  BY <1>4 DEF OwnInv, Own
<1>5. ASSUME NEW o \in page.ops, NEW row, Submit(o, row)
      PROVE  Own(l.name)'
  BY <1>5, OthersOwn
<1>6. ASSUME NEW r \in reqs, Serve(r) \/ Refuse(r) \/ Rejected(r) \/ Lose(r)
      PROVE  Own(l.name)'
  BY <1>6, FailedOwn
<1>7. ASSUME NEW r \in reqs, Written(r) \/ Loaded(r)
      PROVE  Own(l.name)'
  BY <1>7, LandOwn
<1>8. ASSUME NEW f \in Forms, OpenForm(f) \/ Cancel(f)
      PROVE  Own(l.name)'
  BY <1>4, <1>8 DEF OpenForm, Cancel
<1>9. CASE UNCHANGED vars
  BY <1>4, <1>9 DEF vars
<1> QED
  BY <1>1, <1>2, <1>3, <1>5, <1>6, <1>7, <1>8, <1>9 DEF Next, Land

\* On every page whose effects with a cleanup fill a detail in the place of its
\* list, whatever the user opens, closes and searches and in whatever order the
\* answers land, the detail never shows the answer asked for another row: the
\* cancelled flag of the closure is enough.
THEOREM DetailIsOwn == Spec => []DetailIsOfItsRow
<1>1. Init => TypeInv /\ OwnInv
  BY TypeInvInit, OwnInit
<1>2. (TypeInv /\ OwnInv) /\ [Next]_vars => (TypeInv /\ OwnInv)'
  BY TypeInvNext, OwnNext
<1>3. TypeInv /\ OwnInv => DetailIsOfItsRow
  BY DEF OwnInv, Own, DetailIsOfItsRow
<1> QED
  BY <1>1, <1>2, <1>3, PTL DEF Spec
=============================================================================
