-------------------------- MODULE MiddlewareProofs --------------------------
(***************************************************************************)
(* Proofs about the two middlewares: Updates, for any updates, senders,    *)
(* admins and windows, and Album, for any messages and cap.                *)
(***************************************************************************)
EXTENDS Updates, Album, SequenceTheorems, TLAPS

-----------------------------------------------------------------------------
(* Updates: the throttle, the session and the first contact.               *)

(* The inductive invariant.                                                *)

\* What TypeOK leaves out: the domains, and the histories.
Kinds ==
    /\ writes \in [Ids -> SUBSET {"insert", "admin"}]
    /\ accepted \in [People -> Seq(Nat)]
    /\ noted \in [People -> Seq(Nat)]

Spaced(s, gap) == \A i \in 1 .. Len(s) - 1 : s[i + 1] - s[i] >= gap

\* The key expires Rate after the last update that was accepted, and nothing
\* else sets it.
KeyFits(p) ==
    \/ accepted[p] = <<>> /\ gate[p] = 0
    \/ /\ accepted[p] # <<>> /\ gate[p] = accepted[p][Len(accepted[p])] + Rate
       /\ accepted[p][Len(accepted[p])] <= now

\* The notice's key also holds when the notice could not be sent.
NoteFits(p) == noted[p] # <<>> => noted[p][Len(noted[p])] + NoteWindow <= noteGate[p]

Windows ==
    /\ \A p \in People : /\ Spaced(accepted[p], Rate) /\ KeyFits(p)
                         /\ Spaced(noted[p], NoteWindow) /\ NoteFits(p)
    /\ \A d \in dropped : d.since < Rate

\* Only one transaction has written a sender's row, and an INSERT is of a row
\* that is not there: at its commit there is no second one.  Who has to read
\* again does so because there is a row.
OneWriter ==
    /\ \A u, v \in Ids : u # v /\ who[u] = who[v] => writes[u] = {} \/ writes[v] = {}
    /\ \A u \in Ids : "insert" \in writes[u] => users[who[u]] = "none"
    /\ \A u \in Ids : pc[u] \in {"insert", "reread"} => writes[u] = {}
    /\ \A u \in Ids : pc[u] = "reread" => users[who[u]] # "none"

\* An admin's flag is committed or on its way once SetAdmin has been passed.
Passed(u) == pc[u] \in {"state", "key", "note", "handle", "commit"}
FlagOnItsWay ==
    \A u \in Ids :
        /\ row[u] = "admin" => users[who[u]] = "admin"
        /\ who[u] \in Admins /\ Passed(u) => "admin" \in writes[u] \/ users[who[u]] = "admin"

IInv == TypeOK /\ Kinds /\ Windows /\ OneWriter /\ FlagOnItsWay /\ AdminsGetTheirFlag /\ clash = {}

----------------------------------------------------------------------------

LEMMA Constants ==
    Admins \subseteq People /\ Rate \in Nat \ {0} /\ MaxClock \in Nat \ {0} /\ NoteWindow \in Nat
  BY UpdatesAssumption DEF NoteWindow

LEMMA Updated ==
    ASSUME NEW S, NEW T, NEW f \in [S -> T], NEW x \in S, NEW y \in T
    PROVE  [f EXCEPT ![x] = y] \in [S -> T]
  OBVIOUS

(* One entry more in a history of times. *)
LEMMA OneMore ==
    ASSUME NEW s \in Seq(Nat), NEW x \in Nat, NEW gap \in Nat,
           Spaced(s, gap), s # <<>> => s[Len(s)] + gap <= x
    PROVE  /\ Append(s, x) \in Seq(Nat) /\ Append(s, x) # <<>>
           /\ Append(s, x)[Len(Append(s, x))] = x
           /\ Spaced(Append(s, x), gap)
  <1>a. Append(s, x) \in Seq(Nat) /\ Append(s, x) # <<>>
    BY AppendProperties
  <1>b. Len(Append(s, x)) = Len(s) + 1 /\ Len(s) \in Nat
    BY AppendProperties, LenProperties
  <1>c. \A i \in 1 .. Len(s) : Append(s, x)[i] = s[i]
    BY AppendProperties
  <1>d. Append(s, x)[Len(s) + 1] = x
    BY AppendProperties
  <1>1. /\ Append(s, x) \in Seq(Nat) /\ Append(s, x) # <<>>
        /\ Len(Append(s, x)) = Len(s) + 1 /\ Len(s) \in Nat
        /\ \A i \in 1 .. Len(s) : Append(s, x)[i] = s[i]
        /\ Append(s, x)[Len(s) + 1] = x
    BY <1>a, <1>b, <1>c, <1>d
  <1>2. ASSUME NEW i \in 1 .. Len(s) PROVE Append(s, x)[i + 1] - Append(s, x)[i] >= gap
    <2>1. CASE i = Len(s)
      <3>1. s # <<>> /\ s[i] \in Nat
        BY <1>1, <2>1, ElementOfSeq
      <3>2. s[i] + gap <= x
        BY <2>1, <3>1
      <3> QED BY <1>1, <2>1, <3>1, <3>2
    <2>2. CASE i # Len(s)
      <3>1. i \in 1 .. Len(s) - 1 /\ i + 1 \in 1 .. Len(s)
        BY <1>1, <2>2
      <3> QED BY <1>1, <3>1 DEF Spaced
    <2> QED BY <2>1, <2>2
  <1>3. Spaced(Append(s, x), gap)
    BY <1>1, <1>2 DEF Spaced
  <1> QED BY <1>1, <1>3

LEMMA IInvInit == Init => IInv
  <1> SUFFICES ASSUME Init PROVE IInv
    OBVIOUS
  <1> USE Constants DEF Init
  <1>1. TypeOK
    BY DEF TypeOK, Pcs
  <1>2. Kinds
    BY EmptySeq DEF Kinds
  <1>3. Windows
    BY EmptySeq DEF Windows, Spaced, KeyFits, NoteFits
  <1>4. OneWriter /\ FlagOnItsWay /\ AdminsGetTheirFlag
    BY DEF OneWriter, FlagOnItsWay, Passed, AdminsGetTheirFlag
  <1> QED BY <1>1, <1>2, <1>3, <1>4 DEF IInv

----------------------------------------------------------------------------
(* The types.                                                              *)

(* The part of the types every step but Tick leaves to the updates. *)
LEMMA TypeNext == IInv /\ [Next]_vars => TypeOK' /\ Kinds' /\ clash' = {}
  <1> SUFFICES ASSUME IInv, [Next]_vars PROVE TypeOK' /\ Kinds' /\ clash' = {}
    OBVIOUS
  <1>0. TypeOK /\ Kinds /\ clash = {} /\ now \in Nat
    BY Constants DEF IInv, TypeOK
  <1>k. ASSUME NEW u \in Ids PROVE who[u] \in People /\ users[who[u]] \in {"none", "plain", "admin"}
    BY <1>0 DEF TypeOK
  <1> USE Constants DEF TypeOK, Kinds, throttle, history, To, Pcs, Over
  <1>1. ASSUME NEW u \in Ids, FindUser(u) PROVE TypeOK' /\ Kinds' /\ clash' = {}
    BY <1>0, <1>k, <1>1 DEF FindUser
  <1>2. ASSUME NEW u \in Ids, InsertUser(u) PROVE TypeOK' /\ Kinds' /\ clash' = {}
    <2>1. /\ writes' \in [Ids -> SUBSET {"insert", "admin"}]
          /\ row' \in [Ids -> {"none", "plain", "admin"}]
      <3>1. /\ writes' = writes \/ writes' = [writes EXCEPT ![u] = {"insert"}]
            /\ row' = row \/ row' = [row EXCEPT ![u] = "plain"]
        BY <1>2 DEF InsertUser
      <3>2. row' \in [Ids -> {"none", "plain", "admin"}]
        BY <1>0, <3>1
      <3>3. writes' \in [Ids -> SUBSET {"insert", "admin"}]
        <4>1. writes \in [Ids -> SUBSET {"insert", "admin"}]
          BY <1>0
        <4>2. {"insert"} \in SUBSET {"insert", "admin"}
          OBVIOUS
        <4> QED BY <3>1, <4>1, <4>2, Updated
      <3> QED BY <3>2, <3>3
    <2>2. /\ pc' \in [Ids -> Pcs] /\ \E l \in {"admin", "reread"} : pc' = [pc EXCEPT ![u] = l]
          /\ \A v \in Ids : v # u => writes'[v] = writes[v]
      BY <1>0, <1>2 DEF InsertUser
    <2>3. \A v \in Ids : Over(v)' => writes'[v] = {}
      BY <1>0, <2>2
    <2> QED BY <1>0, <1>2, <2>1, <2>2, <2>3 DEF InsertUser
  <1>13. ASSUME NEW u \in Ids, RereadUser(u) PROVE TypeOK' /\ Kinds' /\ clash' = {}
    <2>1. /\ row' = [row EXCEPT ![u] = users[who[u]]] /\ pc' = [pc EXCEPT ![u] = "admin"]
          /\ UNCHANGED <<now, users, inForm, gate, noteGate, who, writes, clash>>
          /\ UNCHANGED <<accepted, noted, dropped>>
      BY <1>13 DEF RereadUser, IInv, OneWriter
    <2> QED BY <1>0, <1>k, <2>1
  <1>3. ASSUME NEW u \in Ids, SetAdmin(u) PROVE TypeOK' /\ Kinds' /\ clash' = {}
    <2>1. writes' \in [Ids -> SUBSET {"insert", "admin"}]
      BY <1>0, <1>3 DEF SetAdmin
    <2>2. pc' \in [Ids -> Pcs] /\ pc' = [pc EXCEPT ![u] = "state"]
      BY <1>0, <1>3 DEF SetAdmin
    <2>3. \A v \in Ids : Over(v)' => writes'[v] = {}
      BY <1>0, <1>3, <2>2 DEF SetAdmin
    <2> QED BY <1>0, <1>3, <2>1, <2>2, <2>3 DEF SetAdmin
  <1>4. ASSUME NEW u \in Ids, ReadState(u) \/ Unhandled(u) PROVE TypeOK' /\ Kinds' /\ clash' = {}
    BY <1>0, <1>4 DEF ReadState, Unhandled
  <1>5. ASSUME NEW u \in Ids, SetKey(u) PROVE TypeOK' /\ Kinds' /\ clash' = {}
    <2>1. accepted' \in [People -> Seq(Nat)] /\ gate' \in [People -> Nat]
      <3>1. \A p \in People : Append(accepted[p], now) \in Seq(Nat)
        BY <1>0, AppendProperties
      <3>2. \/ /\ gate' = [gate EXCEPT ![who[u]] = now + Rate]
               /\ accepted' = [accepted EXCEPT ![who[u]] = Append(@, now)]
            \/ UNCHANGED <<gate, accepted>>
        BY <1>5 DEF SetKey, Blocked, Expires
      <3>3. accepted' \in [People -> Seq(Nat)]
        <4>1. accepted \in [People -> Seq(Nat)] /\ who[u] \in People
          BY <1>0, <1>k
        <4> QED BY <3>1, <3>2, <4>1, Updated
      <3>4. now + Rate \in Nat
        BY <1>0
      <3>5. gate' \in [People -> Nat]
        BY <1>0, <1>k, <3>2, <3>4
      <3> QED BY <3>3, <3>5
    <2>2. pc' = [pc EXCEPT ![u] = "handle"] \/ pc' = [pc EXCEPT ![u] = "note"]
      BY <1>5 DEF SetKey
    <2>3. pc' \in [Ids -> Pcs] /\ \A v \in Ids : Over(v)' => writes[v] = {}
      BY <1>0, <2>2
    <2>4. UNCHANGED <<now, users, inForm, noteGate, who, writes, row, clash, noted>>
      BY <1>5 DEF SetKey
    <2> QED BY <1>0, <2>1, <2>3, <2>4
  <1>6. ASSUME NEW u \in Ids, Note(u) PROVE TypeOK' /\ Kinds' /\ clash' = {}
    <2>1. noted' \in [People -> Seq(Nat)] /\ noteGate' \in [People -> Nat]
      <3>1. \A p \in People : Append(noted[p], now) \in Seq(Nat)
        BY <1>0, AppendProperties
      <3>2. /\ noteGate' = [noteGate EXCEPT ![who[u]] = now + NoteWindow] \/ UNCHANGED noteGate
            /\ noted' = [noted EXCEPT ![who[u]] = Append(@, now)] \/ UNCHANGED noted
        BY <1>6 DEF Note, Expires
      <3>3. noted' \in [People -> Seq(Nat)]
        <4>1. noted \in [People -> Seq(Nat)] /\ who[u] \in People
          BY <1>0, <1>k
        <4> QED BY <3>1, <3>2, <4>1, Updated
      <3>4. now + NoteWindow \in Nat
        BY <1>0
      <3>5. noteGate' \in [People -> Nat]
        BY <1>0, <1>k, <3>2, <3>4
      <3> QED BY <3>3, <3>5
    <2>2. \/ pc' = [pc EXCEPT ![u] = "commit"] /\ writes' = writes
          \/ pc' = [pc EXCEPT ![u] = "failed"] /\ writes' = [writes EXCEPT ![u] = {}]
      BY <1>6 DEF Note
    <2>3. /\ pc' \in [Ids -> Pcs] /\ writes' \in [Ids -> SUBSET {"insert", "admin"}]
          /\ \A v \in Ids : Over(v)' => writes'[v] = {}
      BY <1>0, <2>2
    <2>4. UNCHANGED <<now, users, inForm, gate, who, row, clash, accepted, dropped>>
      BY <1>6 DEF Note
    <2> QED BY <1>0, <2>1, <2>3, <2>4
  <1>7. ASSUME NEW u \in Ids, Handle(u) PROVE TypeOK' /\ Kinds' /\ clash' = {}
    BY <1>0, <1>k, <1>7 DEF Handle
  <1>8. ASSUME NEW u \in Ids, Commit(u) PROVE TypeOK' /\ Kinds' /\ clash' = {}
    BY <1>0, <1>k, <1>8 DEF Commit
  <1>9. ASSUME NEW u \in Ids, Fail(u) PROVE TypeOK' /\ Kinds' /\ clash' = {}
    BY <1>0, <1>9 DEF Fail
  <1>10. ASSUME NEW p \in People, FormExpires(p) PROVE TypeOK' /\ Kinds' /\ clash' = {}
    BY <1>0, <1>10 DEF FormExpires
  <1>11. CASE Tick
    BY <1>0, <1>11 DEF Tick
  <1>12. CASE UNCHANGED vars
    BY <1>0, <1>12 DEF vars
  <1> QED BY <1>1, <1>2, <1>3, <1>4, <1>5, <1>6, <1>7, <1>8, <1>9, <1>10, <1>11, <1>12, <1>13
          DEF Next, Step

----------------------------------------------------------------------------
(* The throttle.                                                           *)

LEMMA WindowsNext == IInv /\ [Next]_vars => Windows'
  <1> SUFFICES ASSUME IInv, [Next]_vars PROVE Windows'
    OBVIOUS
  <1>0. /\ TypeOK /\ Windows /\ now \in Nat
        /\ accepted \in [People -> Seq(Nat)] /\ noted \in [People -> Seq(Nat)]
    BY Constants DEF IInv, TypeOK, Kinds
  <1>1. ASSUME NEW u \in Ids, SetKey(u) PROVE Windows'
    <2>0. PICK q \in People : q = who[u]
      BY <1>0 DEF TypeOK
    <2>1. gate[q] \in Nat
      BY <1>0 DEF TypeOK
    <2>2. UNCHANGED <<now, noteGate, noted>>
      BY <1>1 DEF SetKey
    <2>3. /\ accepted[q] \in Seq(Nat) /\ Spaced(accepted[q], Rate) /\ KeyFits(q)
      BY <1>0, <2>1 DEF Windows
    <2>4. accepted[q] # <<>> => accepted[q][Len(accepted[q])] \in Nat
      BY <2>3, LenProperties, ElementOfSeq, EmptySeq
    <2>5. CASE /\ now >= gate[q] /\ gate' = [gate EXCEPT ![q] = now + Rate]
               /\ accepted' = [accepted EXCEPT ![q] = Append(@, now)]
               /\ UNCHANGED dropped
      <3>1. accepted[q] # <<>> => accepted[q][Len(accepted[q])] + Rate <= now
        BY <1>0, <2>1, <2>3, <2>4, <2>5, Constants DEF KeyFits
      <3>2. /\ accepted'[q] # <<>> /\ Spaced(accepted'[q], Rate)
            /\ accepted'[q][Len(accepted'[q])] = now
        BY <1>0, <2>1, <2>3, <2>5, <3>1, OneMore, Constants
      <3>3. gate'[q] = now + Rate
        BY <1>0, <2>1, <2>5 DEF TypeOK
      <3>4. \A p \in People : p # q => accepted'[p] = accepted[p] /\ gate'[p] = gate[p]
        BY <1>0, <2>1, <2>5 DEF TypeOK
      <3>5. KeyFits(q)' /\ Spaced(accepted[q], Rate)'
        <4>1. now' = now /\ now <= now
          BY <1>0, <2>2
        <4>2. KeyFits(q)'
          BY <3>2, <3>3, <4>1 DEF KeyFits
        <4> QED BY <3>2, <4>2 DEF Spaced
      <3>6. ASSUME NEW p \in People, p # q PROVE KeyFits(p)' /\ Spaced(accepted[p], Rate)'
        BY <1>0, <2>2, <3>4, <3>6 DEF KeyFits, Spaced, Windows
      <3>7. \A p \in People : Spaced(noted[p], NoteWindow)' /\ NoteFits(p)'
        BY <1>0, <2>2 DEF Windows, NoteFits, Spaced
      <3> QED BY <1>0, <2>5, <3>5, <3>6, <3>7 DEF Windows
    <2>6. CASE /\ now < gate[q] /\ UNCHANGED <<gate, accepted>>
               /\ dropped' = dropped \cup {[id |-> u, since |-> now - accepted[q][Len(accepted[q])]]}
      <3>1. now - accepted[q][Len(accepted[q])] < Rate
        BY <1>0, <2>1, <2>3, <2>4, <2>6, Constants DEF KeyFits
      <3>2. \A d \in dropped' : d.since < Rate
        BY <1>0, <2>6, <3>1 DEF Windows
      <3> QED BY <1>0, <2>2, <2>6, <3>2 DEF Windows, Spaced, KeyFits, NoteFits
    <2> QED BY <1>1, <2>0, <2>5, <2>6 DEF SetKey, Blocked, Expires
  <1>2. ASSUME NEW u \in Ids, Note(u) PROVE Windows'
    <2>0. PICK q \in People : q = who[u]
      BY <1>0 DEF TypeOK
    <2>1. noteGate[q] \in Nat
      BY <1>0 DEF TypeOK
    <2>2. UNCHANGED <<now, gate, accepted, dropped>>
      BY <1>2 DEF Note
    <2>3. noted[q] \in Seq(Nat) /\ Spaced(noted[q], NoteWindow) /\ NoteFits(q)
      BY <1>0, <2>1 DEF Windows
    <2>4. noted[q] # <<>> => noted[q][Len(noted[q])] \in Nat
      BY <2>3, LenProperties, ElementOfSeq, EmptySeq
    <2>a. \A p \in People : Spaced(accepted[p], Rate)' /\ KeyFits(p)'
      BY <1>0, <2>2 DEF Windows, KeyFits, Spaced
    <2>5. CASE /\ now >= noteGate[q] /\ noteGate' = [noteGate EXCEPT ![q] = now + NoteWindow]
               /\ noted' = [noted EXCEPT ![q] = Append(@, now)]
      <3>1. noted[q] # <<>> => noted[q][Len(noted[q])] + NoteWindow <= now
        BY <1>0, <2>1, <2>3, <2>4, <2>5, Constants DEF NoteFits
      <3>2. /\ noted'[q] # <<>> /\ Spaced(noted'[q], NoteWindow)
            /\ noted'[q][Len(noted'[q])] = now
        BY <1>0, <2>1, <2>3, <2>5, <3>1, OneMore, Constants
      <3>3. noteGate'[q] = now + NoteWindow
        BY <1>0, <2>1, <2>5 DEF TypeOK
      <3>4. \A p \in People : p # q => noted'[p] = noted[p] /\ noteGate'[p] = noteGate[p]
        BY <1>0, <2>1, <2>5 DEF TypeOK
      <3>5. NoteFits(q)' /\ Spaced(noted[q], NoteWindow)'
        <4>1. now + NoteWindow <= now + NoteWindow
          BY <1>0, Constants
        <4>2. NoteWindow' = NoteWindow
          BY DEF NoteWindow
        <4> QED BY <3>2, <3>3, <4>1, <4>2 DEF NoteFits, Spaced
      <3>6. ASSUME NEW p \in People, p # q PROVE NoteFits(p)' /\ Spaced(noted[p], NoteWindow)'
        BY <1>0, <3>4, <3>6 DEF NoteFits, Spaced, Windows
      <3> QED BY <1>0, <2>2, <2>a, <3>5, <3>6 DEF Windows
    <2>6. CASE /\ now >= noteGate[q] /\ noteGate' = [noteGate EXCEPT ![q] = now + NoteWindow]
               /\ UNCHANGED noted
      <3>1. \A p \in People : noteGate[p] \in Nat /\ noteGate'[p] \in Nat /\ noteGate[p] <= noteGate'[p]
        BY <1>0, <2>1, <2>6, Constants DEF TypeOK
      <3>2. ASSUME NEW p \in People PROVE NoteFits(p)'
        <4>1. CASE noted[p] = <<>>
          BY <2>6, <4>1 DEF NoteFits
        <4>2. CASE noted[p] # <<>>
          <5>1. noted[p][Len(noted[p])] \in Nat
            BY <1>0, <4>2, LenProperties, ElementOfSeq, EmptySeq
          <5>2. noted[p][Len(noted[p])] + NoteWindow <= noteGate[p]
            BY <1>0, <4>2 DEF Windows, NoteFits
          <5>3. noted[p][Len(noted[p])] + NoteWindow <= noteGate'[p]
            BY <3>1, <5>1, <5>2, Constants
          <5> QED BY <2>6, <5>3 DEF NoteFits
        <4> QED BY <4>1, <4>2
      <3> QED BY <1>0, <2>2, <2>6, <2>a, <3>2 DEF Windows, Spaced
    <2>7. CASE UNCHANGED <<noteGate, noted>>
      BY <1>0, <2>2, <2>7, <2>a DEF Windows, Spaced, NoteFits
    <2> QED BY <1>2, <2>0, <2>5, <2>6, <2>7 DEF Note, Expires
  <1>3. ASSUME UNCHANGED <<throttle, accepted, noted, dropped>>, now' \in Nat, now <= now' PROVE Windows'
    <2>1. ASSUME NEW p \in People PROVE KeyFits(p)'
      <3>1. accepted[p] # <<>> => accepted[p][Len(accepted[p])] \in Nat
        BY <1>0, LenProperties, ElementOfSeq, EmptySeq
      <3> QED BY <1>0, <1>3, <3>1 DEF KeyFits, Windows, throttle
    <2> QED BY <1>0, <1>3, <2>1 DEF Windows, Spaced, NoteFits, throttle
  <1>4. ASSUME NEW u \in Ids, FindUser(u) \/ InsertUser(u) \/ RereadUser(u) \/ SetAdmin(u) \/ ReadState(u)
                              \/ Unhandled(u) \/ Handle(u) \/ Commit(u) \/ Fail(u)
        PROVE  UNCHANGED <<throttle, accepted, noted, dropped, now>>
    BY <1>4 DEF FindUser, InsertUser, RereadUser, SetAdmin, ReadState, Unhandled, Handle,
                Commit, Fail, history
  <1>5. CASE Tick
    BY <1>0, <1>3, <1>5 DEF Tick, history
  <1>6. ASSUME NEW p \in People, FormExpires(p) PROVE UNCHANGED <<throttle, accepted, noted, dropped, now>>
    BY <1>6 DEF FormExpires, history
  <1>7. CASE UNCHANGED vars
    BY <1>0, <1>3, <1>7 DEF vars, history
  <1> QED BY <1>0, <1>1, <1>2, <1>3, <1>4, <1>5, <1>6, <1>7 DEF Next, Step

----------------------------------------------------------------------------
(* The rows of the senders.                                                *)

Rows == OneWriter /\ FlagOnItsWay /\ AdminsGetTheirFlag

(* A step that only lets go of rows, and takes nobody past the user's middleware. *)
LEMMA RowsLeft ==
    ASSUME IInv, UNCHANGED <<users, who, row>>,
           \A v \in Ids : /\ writes'[v] \subseteq writes[v]
                          /\ pc'[v] \in {"insert", "reread"} => pc'[v] = pc[v]
                          /\ pc'[v] = "done" => pc[v] = "done"
                          /\ Passed(v)' => Passed(v) /\ writes'[v] = writes[v]
    PROVE  Rows'
  <1>1. OneWriter'
    <2>1. \A v \in Ids : writes[v] = {} => writes'[v] = {}
      OBVIOUS
    <2> QED BY <2>1 DEF IInv, OneWriter
  <1>2. FlagOnItsWay'
    BY DEF IInv, FlagOnItsWay
  <1>3. AdminsGetTheirFlag'
    BY DEF IInv, AdminsGetTheirFlag
  <1> QED BY <1>1, <1>2, <1>3 DEF Rows

LEMMA RowsNext == IInv /\ [Next]_vars => Rows'
  <1> SUFFICES ASSUME IInv, [Next]_vars PROVE Rows'
    OBVIOUS
  <1>0. TypeOK /\ OneWriter /\ FlagOnItsWay /\ AdminsGetTheirFlag
    BY DEF IInv
  <1>t. /\ pc \in [Ids -> Pcs] /\ writes \in [Ids -> SUBSET {"insert", "admin"}]
        /\ row \in [Ids -> {"none", "plain", "admin"}]
        /\ users \in [People -> {"none", "plain", "admin"}]
        /\ \A u \in Ids : Over(u) => writes[u] = {}
        /\ \A u \in Ids : who[u] \in People
    BY DEF IInv, TypeOK, Kinds
  <1>1. ASSUME NEW u \in Ids, FindUser(u) PROVE Rows'
    <2>1. /\ row' = [row EXCEPT ![u] = users[who[u]]] /\ pc[u] = "new" /\ writes[u] = {}
          /\ \E l \in {"insert", "admin"} : pc' = [pc EXCEPT ![u] = l]
          /\ UNCHANGED <<users, who, writes>>
      BY <1>1, <1>t DEF FindUser, To, Over
    <2>2. /\ row'[u] = users[who[u]] /\ pc'[u] \in {"insert", "admin"}
          /\ \A v \in Ids \ {u} : row'[v] = row[v] /\ pc'[v] = pc[v]
      BY <1>t, <2>1
    <2>3. OneWriter'
      BY <1>0, <2>1, <2>2 DEF OneWriter
    <2>4. FlagOnItsWay' /\ AdminsGetTheirFlag'
      BY <1>0, <2>1, <2>2 DEF FlagOnItsWay, AdminsGetTheirFlag, Passed
    <2> QED BY <2>3, <2>4 DEF Rows
  <1>2. ASSUME NEW u \in Ids, InsertUser(u) PROVE Rows'
    <2>1. /\ pc[u] = "insert" /\ writes[u] = {}
          /\ \A v \in Ids : v # u /\ who[v] = who[u] => writes[v] = {}
          /\ UNCHANGED <<users, who>>
      BY <1>0, <1>2 DEF InsertUser, OneWriter, Locked
    <2>2. \A v \in Ids : who[v] = who[u] => "insert" \notin writes[v]
      BY <2>1
    <2>3. \/ /\ users[who[u]] = "none" /\ writes' = [writes EXCEPT ![u] = {"insert"}]
             /\ row' = [row EXCEPT ![u] = "plain"] /\ pc' = [pc EXCEPT ![u] = "admin"]
          \/ /\ users[who[u]] # "none" /\ UNCHANGED <<writes, row>>
             /\ pc' = [pc EXCEPT ![u] = "reread"]
      BY <1>2, <2>2 DEF InsertUser, Taken, To
    <2>4. /\ pc'[u] \in {"admin", "reread"} /\ \A v \in Ids \ {u} : pc'[v] = pc[v]
          /\ pc'[u] = "reread" => users[who[u]] # "none" /\ writes'[u] = {}
          /\ \A v \in Ids \ {u} : writes'[v] = writes[v] /\ row'[v] = row[v]
          /\ row'[u] = "admin" => row[u] = "admin"
          /\ "insert" \in writes'[u] => users[who[u]] = "none"
      BY <1>t, <2>1, <2>3
    <2>5. OneWriter'
      BY <1>0, <2>1, <2>4 DEF OneWriter
    <2>6. FlagOnItsWay' /\ AdminsGetTheirFlag'
      BY <1>0, <2>1, <2>4 DEF FlagOnItsWay, AdminsGetTheirFlag, Passed
    <2> QED BY <2>5, <2>6 DEF Rows
  <1>10. ASSUME NEW u \in Ids, RereadUser(u) PROVE Rows'
    <2>1. /\ row' = [row EXCEPT ![u] = users[who[u]]] /\ pc' = [pc EXCEPT ![u] = "admin"]
          /\ pc[u] = "reread" /\ UNCHANGED <<users, who, writes>>
      BY <1>0, <1>10 DEF RereadUser, OneWriter, To
    <2>2. /\ row'[u] = users[who[u]] /\ pc'[u] = "admin"
          /\ \A v \in Ids \ {u} : row'[v] = row[v] /\ pc'[v] = pc[v]
      BY <1>t, <2>1
    <2>3. OneWriter'
      BY <1>0, <2>1, <2>2 DEF OneWriter
    <2>4. FlagOnItsWay' /\ AdminsGetTheirFlag'
      BY <1>0, <2>1, <2>2 DEF FlagOnItsWay, AdminsGetTheirFlag, Passed
    <2> QED BY <2>3, <2>4 DEF Rows
  <1>3. ASSUME NEW u \in Ids, SetAdmin(u) PROVE Rows'
    <2>1. /\ pc[u] = "admin" /\ pc' = [pc EXCEPT ![u] = "state"]
          /\ Promotes(u) => \A v \in Ids : v # u /\ who[v] = who[u] => writes[v] = {}
          /\ writes' = [writes EXCEPT ![u] = IF Promotes(u) THEN @ \cup {"admin"} ELSE @]
          /\ UNCHANGED <<users, who, row>>
      BY <1>3 DEF SetAdmin, To, Locked
    <2>2. /\ pc'[u] = "state" /\ \A v \in Ids \ {u} : pc'[v] = pc[v] /\ writes'[v] = writes[v]
          /\ ~Promotes(u) => writes'[u] = writes[u]
          /\ Promotes(u) => writes'[u] = writes[u] \cup {"admin"}
      BY <1>t, <2>1
    <2>3. OneWriter'
      <3>1. \A v, w \in Ids : v # w /\ who[v] = who[w] => writes'[v] = {} \/ writes'[w] = {}
        BY <1>0, <2>1, <2>2 DEF OneWriter
      <3>2. \A v \in Ids : "insert" \in writes'[v] => "insert" \in writes[v]
        BY <2>2
      <3>3. /\ \A v \in Ids : pc'[v] \in {"insert", "reread"} => writes'[v] = {}
            /\ \A v \in Ids : pc'[v] = "reread" => users'[who'[v]] # "none"
        BY <1>0, <2>1, <2>2 DEF OneWriter
      <3> QED BY <1>0, <2>1, <3>1, <3>2, <3>3 DEF OneWriter
    <2>4. who[u] \in Admins => "admin" \in writes'[u] \/ users[who[u]] = "admin"
      BY <1>0, <2>2 DEF FlagOnItsWay, Promotes
    <2>5. FlagOnItsWay' /\ AdminsGetTheirFlag'
      BY <1>0, <2>1, <2>2, <2>4 DEF FlagOnItsWay, AdminsGetTheirFlag, Passed
    <2> QED BY <2>3, <2>5 DEF Rows
  <1>4. ASSUME NEW u \in Ids, ReadState(u) \/ SetKey(u) \/ Handle(u) \/ Unhandled(u) PROVE Rows'
    <2>1. /\ UNCHANGED <<users, who, row, writes>> /\ Passed(u)
          /\ \E l \in {"key", "handle", "note", "commit"} : pc' = [pc EXCEPT ![u] = l]
      BY <1>4 DEF ReadState, SetKey, Handle, Unhandled, To, Passed
    <2>2. \A v \in Ids : /\ pc'[v] \in {"insert", "reread"} => pc'[v] = pc[v]
                         /\ pc'[v] = "done" => pc[v] = "done"
                         /\ Passed(v)' => Passed(v)
      BY <1>t, <2>1 DEF Passed
    <2> QED BY <2>1, <2>2, RowsLeft
  <1>5. ASSUME NEW u \in Ids, Note(u) \/ Fail(u) PROVE Rows'
    <2>1. /\ UNCHANGED <<users, who, row>>
          /\ \/ pc[u] = "note" /\ pc' = [pc EXCEPT ![u] = "commit"] /\ writes' = writes
             \/ pc' = [pc EXCEPT ![u] = "failed"] /\ writes' = [writes EXCEPT ![u] = {}]
      BY <1>5 DEF Note, Fail, To, history
    <2>2. \A v \in Ids : /\ writes'[v] \subseteq writes[v]
                         /\ pc'[v] \in {"insert", "reread"} => pc'[v] = pc[v]
                         /\ pc'[v] = "done" => pc[v] = "done"
                         /\ Passed(v)' => Passed(v) /\ writes'[v] = writes[v]
      BY <1>t, <2>1 DEF Passed
    <2> QED BY <2>1, <2>2, RowsLeft
  <1>6. ASSUME NEW u \in Ids, Commit(u) PROVE Rows'
    <2>1. PICK q \in People : q = who[u]
      BY <1>t
    <2>2. /\ pc[u] = "commit" /\ pc' = [pc EXCEPT ![u] = "done"]
          /\ writes' = [writes EXCEPT ![u] = {}]
          /\ users' = [users EXCEPT ![q] = IF "admin" \in writes[u] THEN "admin"
                                           ELSE IF "insert" \in writes[u] THEN "plain" ELSE @]
          /\ UNCHANGED <<who, row>>
      BY <1>6, <2>1 DEF Commit, To
    <2>3. /\ pc'[u] = "done" /\ writes'[u] = {}
          /\ \A v \in Ids \ {u} : pc'[v] = pc[v] /\ writes'[v] = writes[v]
      BY <1>t, <2>2
    <2>4. \A p \in People : p # q => users'[p] = users[p]
      BY <1>t, <2>2
    <2>5. users[q] = "admin" \/ "admin" \in writes[u] => users'[q] = "admin"
      BY <1>0, <1>t, <2>1, <2>2 DEF OneWriter
    <2>6. writes[u] = {} => users'[q] = users[q]
      BY <1>t, <2>2
    <2>7. OneWriter'
      <3>1. ASSUME NEW v \in Ids, "insert" \in writes'[v] PROVE users'[who[v]] = "none"
        <4>1. v # u /\ writes[v] # {} /\ users[who[v]] = "none"
          BY <1>0, <2>3, <3>1 DEF OneWriter
        <4>2. who[v] = q => writes[u] = {}
          BY <1>0, <2>1, <4>1 DEF OneWriter
        <4> QED BY <1>t, <2>4, <2>6, <4>1, <4>2
      <3> QED BY <1>0, <2>2, <2>3, <3>1 DEF OneWriter
    <2>8. FlagOnItsWay' /\ AdminsGetTheirFlag'
      <3>1. \A v \in Ids : users[who[v]] = "admin" => users'[who[v]] = "admin"
        BY <1>t, <2>4, <2>5
      <3>2. who[u] \in Admins => users'[who[u]] = "admin"
        BY <1>0, <2>1, <2>2, <2>5 DEF FlagOnItsWay, Passed
      <3> QED BY <1>0, <2>2, <2>3, <3>1, <3>2 DEF FlagOnItsWay, AdminsGetTheirFlag, Passed
    <2> QED BY <2>7, <2>8 DEF Rows
  <1>7. ASSUME UNCHANGED <<users, who, row, writes, pc>> PROVE Rows'
    BY <1>7, RowsLeft DEF Passed
  <1>8. ASSUME NEW p \in People, FormExpires(p) PROVE Rows'
    BY <1>7, <1>8 DEF FormExpires
  <1>9. CASE Tick \/ UNCHANGED vars
    BY <1>7, <1>9 DEF Tick, vars
  <1> QED BY <1>1, <1>2, <1>3, <1>4, <1>5, <1>6, <1>8, <1>9, <1>10 DEF Next, Step

LEMMA IInvNext == IInv /\ [Next]_vars => IInv'
  BY TypeNext, WindowsNext, RowsNext DEF IInv, Rows

----------------------------------------------------------------------------

\* Updates on their way through the middlewares keep the inductive invariant.
THEOREM Invariance == Spec => []IInv
  BY IInvInit, IInvNext, PTL DEF Spec

\* Every variable keeps its type.
THEOREM TypeCorrectness == Spec => []TypeOK
  <1>1. IInv => TypeOK
    BY DEF IInv
  <1> QED BY Invariance, <1>1, PTL

\* However many updates are handled at once, no two of a sender outside a form
\* are accepted, and no two notices sent, within one window, and nothing else
\* is dropped than what comes within a window (ThrottlingMiddleware).
THEOREM OneAcceptedPerWindow == Spec => []OnePerWindow
  <1>1. IInv => OnePerWindow
    BY DEF IInv, Windows, Spaced, OnePerWindow
  <1> QED BY Invariance, <1>1, PTL

\* At first contact an INSERT is alone: until its commit there is no other
\* transaction that has written the row, and no row (get_or_create).
THEOREM FirstContacts ==
    Spec => [](/\ FirstContactsDoNotClash
               /\ \A u, v \in Ids : "insert" \in writes[u] /\ who[v] = who[u] =>
                      users[who[u]] = "none" /\ (u # v => writes[v] = {}))
  <1>1. IInv => /\ FirstContactsDoNotClash
                /\ \A u, v \in Ids : "insert" \in writes[u] /\ who[v] = who[u] =>
                      users[who[u]] = "none" /\ (u # v => writes[v] = {})
    BY DEF IInv, OneWriter, FirstContactsDoNotClash
  <1> QED BY Invariance, <1>1, PTL

\* Whichever of an admin's updates made or changed his row, once one was
\* handled to its end the flag is there (UserMiddleware).
THEOREM AdminsFlagged == Spec => []AdminsGetTheirFlag
  <1>1. IInv => AdminsGetTheirFlag
    BY DEF IInv
  <1> QED BY Invariance, <1>1, PTL

-----------------------------------------------------------------------------
(* Album: the buffers.                                                     *)

(* The buffer of an album while its call goes on. *)
BufferFits(g) ==
    /\ (buffer[g] = <<>>) = (call[g] = "none")
    /\ Len(buffer[g]) <= MaxItems
    /\ call[g] # "none" => HasAll(buffer[g], g)
    /\ call[g] = "sleep" =>
          Len(buffer[g]) = IF Len(inTime[g]) < MaxItems THEN Len(inTime[g]) ELSE MaxItems

(* What is in the buffer has arrived and is nowhere else in it. *)
BufferOnce(g) ==
    /\ \A k \in DOMAIN buffer[g] : buffer[g][k] \in Of(g)
    /\ \A k, l \in DOMAIN buffer[g] : buffer[g][k] = buffer[g][l] => k = l

(* The list being worked on is the beginning of the buffer; no other list has a *)
(* message of it.                                                               *)
Current(g, i) == call[g] = "read" /\ i = Len(handed[g])

Working(g, list) ==
    /\ HasAll(list, g) /\ Len(list) <= MaxItems
    /\ Len(list) <= Len(buffer[g])
    /\ \A k \in DOMAIN list : list[k] = buffer[g][k]

Apart(g, list) == \A k \in DOMAIN list, l \in DOMAIN buffer[g] : list[k] # buffer[g][l]

ListsFit(g) ==
    /\ call[g] = "read" => handed[g] # <<>>
    /\ \A i \in DOMAIN handed[g] :
          /\ \A k \in DOMAIN handed[g][i] : handed[g][i][k] \in Of(g)
          /\ Current(g, i) => Working(g, handed[g][i])
          /\ ~Current(g, i) => Apart(g, handed[g][i])

(* No message is in two lists, or twice in one. *)
ListsOnce(g) ==
    \A i, j \in DOMAIN handed[g] :
        \A k \in DOMAIN handed[g][i], l \in DOMAIN handed[g][j] :
            handed[g][i][k] = handed[g][j][l] => i = j /\ k = l

AlbumFits(g) == BufferFits(g) /\ BufferOnce(g) /\ ListsFit(g) /\ ListsOnce(g)

AlbumInv == AlbumTypeOK /\ \A g \in Albums : AlbumFits(g)

LEMMA AlbumInvInit == AlbumInit => AlbumInv
  <1> SUFFICES ASSUME AlbumInit PROVE AlbumInv
    OBVIOUS
  <1> USE AlbumAssumption DEF AlbumInit
  <1>1. AlbumTypeOK
    BY DEF AlbumTypeOK
  <1>2. ASSUME NEW g \in Albums PROVE AlbumFits(g)
    <2>1. buffer[g] = <<>> /\ inTime[g] = <<>> /\ handed[g] = <<>> /\ call[g] = "none"
      OBVIOUS
    <2> QED BY <2>1 DEF AlbumFits, BufferFits, BufferOnce, ListsFit, ListsOnce, HasAll
  <1> QED BY <1>1, <1>2 DEF AlbumInv

(* What happens to one album does not concern the others. *)
LEMMA OthersFit ==
    ASSUME NEW g \in Albums, AlbumFits(g), arrived \subseteq arrived',
           buffer'[g] = buffer[g], call'[g] = call[g],
           handed'[g] = handed[g], inTime'[g] = inTime[g]
    PROVE  AlbumFits(g)'
  <1>1. Of(g) \subseteq Of(g)'
    BY DEF Of
  <1>2. BufferFits(g)'
    BY DEF AlbumFits, BufferFits, HasAll
  <1>3. BufferOnce(g)'
    BY <1>1 DEF AlbumFits, BufferOnce
  <1>4. ListsFit(g)'
    <2>1. ASSUME NEW i \in DOMAIN handed[g]
          PROVE  /\ Current(g, i)' <=> Current(g, i)
                 /\ Working(g, handed[g][i]) => Working(g, handed[g][i])'
                 /\ Apart(g, handed[g][i]) => Apart(g, handed[g][i])'
      BY DEF Current, Working, Apart, HasAll
    <2> QED BY <1>1, <2>1 DEF AlbumFits, ListsFit
  <1>5. ListsOnce(g)'
    BY DEF AlbumFits, ListsOnce
  <1> QED BY <1>2, <1>3, <1>4, <1>5 DEF AlbumFits

LEMMA AppendFacts ==
    ASSUME NEW S, NEW s \in Seq(S), NEW e \in S
    PROVE  /\ Append(s, e) \in Seq(S)
           /\ Len(s) \in Nat /\ DOMAIN s = 1 .. Len(s) /\ Len(Append(s, e)) = Len(s) + 1
           /\ DOMAIN Append(s, e) = 1 .. Len(s) + 1
           /\ \A i \in 1 .. Len(s) : Append(s, e)[i] = s[i]
           /\ Append(s, e)[Len(s) + 1] = e
           /\ Append(s, e) # <<>>
  BY AppendProperties, LenProperties

(* A message is put into the buffer unless it is full. *)
LEMMA PutFacts ==
    ASSUME NEW s \in Seq(Messages), NEW m \in Messages
    PROVE  LET t == Put(s, m)
           IN  /\ t \in Seq(Messages)
               /\ Len(s) \in Nat /\ DOMAIN s = 1 .. Len(s)
               /\ Len(t) = IF Len(s) < MaxItems THEN Len(s) + 1 ELSE Len(s)
               /\ DOMAIN t = 1 .. Len(t)
               /\ \A k \in 1 .. Len(s) : t[k] = s[k]
               /\ Len(s) < MaxItems => t[Len(s) + 1] = m
  <1> MaxItems \in Nat
    BY AlbumAssumption
  <1>1. CASE Len(s) < MaxItems
    BY <1>1, AppendFacts DEF Put
  <1>2. CASE ~(Len(s) < MaxItems)
    BY <1>2, LenProperties DEF Put
  <1> QED BY <1>1, <1>2

LEMMA FirstFits ==
    ASSUME AlbumInv, NEW m \in Messages, First(m)
    PROVE  AlbumInv'
  <1> DEFINE g == AlbumOf[m]
  <1>1. g \in Albums /\ MaxItems \in Nat \ {0}
    BY AlbumAssumption
  <1>2. AlbumTypeOK'
    BY <1>1 DEF First, AlbumInv, AlbumTypeOK
  <1>3. /\ buffer'[g] = <<m>> /\ inTime'[g] = <<m>> /\ call'[g] = "sleep"
        /\ handed'[g] = handed[g] /\ m \in Of(g)' /\ m \notin Of(g) /\ Of(g) \subseteq Of(g)'
        /\ call[g] = "none" /\ AlbumFits(g)
    BY <1>1 DEF First, AlbumInv, AlbumTypeOK, AlbumFits, BufferFits, Of
  <1>4. DOMAIN <<m>> = {1} /\ <<m>>[1] = m /\ Len(<<m>>) = 1 /\ <<m>> # <<>>
    OBVIOUS
  <1>5. BufferFits(g)'
    BY <1>1, <1>3, <1>4 DEF BufferFits, HasAll
  <1>6. BufferOnce(g)'
    BY <1>3, <1>4 DEF BufferOnce
  <1>7. ListsFit(g)'
    <2>1. ASSUME NEW i \in DOMAIN handed[g]
          PROVE  ~Current(g, i)' /\ Apart(g, handed[g][i])'
                 /\ \A k \in DOMAIN handed[g][i] : handed[g][i][k] \in Of(g)
      <3>1. ~Current(g, i) /\ ~Current(g, i)'
        BY <1>3 DEF Current
      <3>2. \A k \in DOMAIN handed[g][i] : handed[g][i][k] \in Of(g)
        BY <1>3 DEF AlbumFits, ListsFit
      <3> QED BY <1>3, <1>4, <3>1, <3>2 DEF Apart
    <2> QED BY <2>1, <1>3 DEF ListsFit
  <1>8. ListsOnce(g)'
    BY <1>3 DEF AlbumFits, ListsOnce
  <1>9. ASSUME NEW h \in Albums \ {g} PROVE AlbumFits(h)'
    <2>1. /\ arrived \subseteq arrived' /\ buffer'[h] = buffer[h] /\ call'[h] = call[h]
          /\ handed'[h] = handed[h] /\ inTime'[h] = inTime[h]
      BY <1>1 DEF First, AlbumInv, AlbumTypeOK
    <2> QED BY <2>1, OthersFit DEF AlbumInv
  <1> QED BY <1>2, <1>5, <1>6, <1>7, <1>8, <1>9 DEF AlbumInv, AlbumFits

LEMMA LaterFits ==
    ASSUME AlbumInv, NEW m \in Messages, Later(m)
    PROVE  AlbumInv'
  <1> DEFINE g == AlbumOf[m]
             n == Len(buffer[g])
  <1>1. g \in Albums /\ MaxItems \in Nat \ {0}
    BY AlbumAssumption
  <1>2. /\ buffer[g] \in Seq(Messages) /\ inTime[g] \in Seq(Messages)
        /\ Put(buffer[g], m) \in Seq(Messages) /\ Append(inTime[g], m) \in Seq(Messages)
    BY <1>1, AppendFacts, PutFacts DEF AlbumInv, AlbumTypeOK
  <1>3. AlbumTypeOK'
    BY <1>1, <1>2 DEF Later, AlbumInv, AlbumTypeOK
  <1>4. /\ buffer'[g] = Put(buffer[g], m) /\ call'[g] = call[g] /\ handed'[g] = handed[g]
        /\ inTime'[g] = IF call[g] = "sleep" THEN Append(inTime[g], m) ELSE inTime[g]
        /\ m \in Of(g)' /\ m \notin Of(g) /\ Of(g) \subseteq Of(g)'
        /\ buffer[g] # <<>> /\ call[g] # "none" /\ AlbumFits(g)
    BY <1>1 DEF Later, AlbumInv, AlbumTypeOK, AlbumFits, BufferFits, Of
  <1>5. ASSUME NEW h \in Albums \ {g} PROVE AlbumFits(h)'
    <2>1. /\ arrived \subseteq arrived' /\ buffer'[h] = buffer[h] /\ call'[h] = call[h]
          /\ handed'[h] = handed[h] /\ inTime'[h] = inTime[h]
      BY <1>1 DEF Later, AlbumInv, AlbumTypeOK
    <2> QED BY <2>1, OthersFit DEF AlbumInv
  <1> HIDE DEF g
  <1>6. /\ n \in Nat /\ DOMAIN buffer[g] = 1 .. n
        /\ Len(buffer'[g]) = IF n < MaxItems THEN n + 1 ELSE n
        /\ DOMAIN buffer'[g] = 1 .. Len(buffer'[g])
        /\ \A k \in 1 .. n : buffer'[g][k] = buffer[g][k]
        /\ n < MaxItems => buffer'[g][n + 1] = m
    <2>1. LET t == Put(buffer[g], m)
          IN  /\ n \in Nat /\ DOMAIN buffer[g] = 1 .. n
              /\ Len(t) = IF n < MaxItems THEN n + 1 ELSE n
              /\ DOMAIN t = 1 .. Len(t)
              /\ \A k \in 1 .. n : t[k] = buffer[g][k]
              /\ n < MaxItems => t[n + 1] = m
      BY <1>2, PutFacts
    <2> QED BY <2>1, <1>4
  <1>7. n # 0
    BY <1>2, <1>4, EmptySeq
  <1>8. /\ Len(inTime[g]) \in Nat /\ DOMAIN inTime[g] = 1 .. Len(inTime[g])
        /\ call[g] = "sleep" => /\ DOMAIN inTime'[g] = 1 .. Len(inTime[g]) + 1
                                /\ Len(inTime'[g]) = Len(inTime[g]) + 1
                                /\ \A k \in 1 .. Len(inTime[g]) : inTime'[g][k] = inTime[g][k]
                                /\ inTime'[g][Len(inTime[g]) + 1] = m
        /\ call[g] # "sleep" => inTime'[g] = inTime[g]
    BY <1>2, <1>4, AppendFacts
  <1> HIDE DEF n
  <1>9. BufferFits(g)'
    <2>1. HasAll(buffer[g], g)'
      <3>1. HasAll(buffer[g], g)
        BY <1>4 DEF AlbumFits, BufferFits
      <3> SUFFICES ASSUME NEW k \in DOMAIN inTime'[g], k <= MaxItems
                   PROVE  k \in DOMAIN buffer'[g] /\ buffer'[g][k] = inTime'[g][k]
        BY DEF HasAll
      <3>2. CASE k \in DOMAIN inTime[g]
        <4>1. k \in 1 .. n /\ buffer[g][k] = inTime[g][k]
          BY <3>1, <3>2, <1>6 DEF HasAll
        <4>2. inTime'[g][k] = inTime[g][k]
          BY <3>2, <1>8
        <4>3. k \in DOMAIN buffer'[g] /\ buffer'[g][k] = buffer[g][k]
          BY <4>1, <1>1, <1>6
        <4> QED BY <4>1, <4>2, <4>3
      <3>3. CASE k \notin DOMAIN inTime[g]
        <4>1. call[g] = "sleep" /\ k = Len(inTime[g]) + 1 /\ inTime'[g][k] = m
          BY <3>3, <1>8
        <4>2. n = Len(inTime[g])
          BY <4>1, <1>1, <1>4, <1>8 DEF AlbumFits, BufferFits, n
        <4> QED BY <4>1, <4>2, <1>1, <1>6, <1>8
      <3> QED BY <3>2, <3>3
    <2>2. buffer'[g] # <<>>
      BY <1>1, <1>6, <1>7
    <2>3. Len(buffer'[g]) <= MaxItems
      BY <1>1, <1>4, <1>6 DEF AlbumFits, BufferFits, n
    <2>4. call[g] = "sleep" =>
             Len(buffer'[g]) = IF Len(inTime'[g]) < MaxItems THEN Len(inTime'[g]) ELSE MaxItems
      BY <1>1, <1>4, <1>6, <1>8 DEF AlbumFits, BufferFits, n
    <2> QED BY <2>1, <2>2, <2>3, <2>4, <1>4 DEF BufferFits
  <1>10. \A k \in DOMAIN buffer'[g] : k \in 1 .. n \/ (k = n + 1 /\ buffer'[g][k] = m)
    <2>1. CASE n < MaxItems
      BY <2>1, <1>6
    <2>2. CASE ~(n < MaxItems)
      BY <2>2, <1>6
    <2> QED BY <2>1, <2>2
  <1>11. BufferOnce(g)'
    <2>1. BufferOnce(g)
      BY <1>4 DEF AlbumFits
    <2> QED BY <2>1, <1>4, <1>6, <1>10 DEF BufferOnce
  <1>12. ListsFit(g)'
    <2>1. ASSUME NEW i \in DOMAIN handed[g]
          PROVE  /\ Current(g, i)' <=> Current(g, i)
                 /\ Current(g, i) => Working(g, handed[g][i])'
                 /\ ~Current(g, i) => Apart(g, handed[g][i])'
                 /\ \A k \in DOMAIN handed[g][i] : handed[g][i][k] \in Of(g)'
      <3>1. Current(g, i)' <=> Current(g, i)
        BY <1>4 DEF Current
      <3>2. \A k \in DOMAIN handed[g][i] : handed[g][i][k] \in Of(g)
        BY <1>4 DEF AlbumFits, ListsFit
      <3>3. ASSUME ~Current(g, i) PROVE Apart(g, handed[g][i])'
        <4>1. Apart(g, handed[g][i])
          BY <3>3, <1>4 DEF AlbumFits, ListsFit
        <4> QED BY <4>1, <3>2, <1>4, <1>6, <1>10 DEF Apart
      <3>4. ASSUME Current(g, i) PROVE Working(g, handed[g][i])'
        <4>1. handed[g][i] \in Seq(Messages) /\ Working(g, handed[g][i])
          BY <3>4, <1>1, <1>4, LenProperties DEF AlbumInv, AlbumTypeOK, AlbumFits, ListsFit
        <4>2. Len(handed[g][i]) \in Nat /\ DOMAIN handed[g][i] = 1 .. Len(handed[g][i])
          BY <4>1, LenProperties
        <4>3. inTime'[g] = inTime[g]
          BY <3>4, <1>8 DEF Current
        <4>4. HasAll(handed[g][i], g)' /\ Len(handed[g][i]) <= MaxItems /\ Len(handed[g][i]) <= n
          BY <4>1, <4>3, <1>4 DEF Working, HasAll, n
        <4>5. n <= Len(buffer'[g])
          BY <1>1, <1>6
        <4>6. \A k \in DOMAIN handed[g][i] : k \in 1 .. n /\ handed[g][i][k] = buffer[g][k]
          BY <4>1, <4>2, <4>4, <1>6 DEF Working
        <4>7. Len(handed[g][i]) <= Len(buffer'[g])
          BY <4>2, <4>4, <4>5, <1>6, <1>1
        <4> QED BY <4>4, <4>6, <4>7, <1>4, <1>6 DEF Working
      <3> QED BY <3>1, <3>2, <3>3, <3>4, <1>4
    <2> QED BY <2>1, <1>4 DEF AlbumFits, ListsFit
  <1>13. ListsOnce(g)'
    BY <1>4 DEF AlbumFits, ListsOnce
  <1> QED BY <1>3, <1>5, <1>9, <1>11, <1>12, <1>13 DEF AlbumInv, AlbumFits

LEMMA WakeFits ==
    ASSUME AlbumInv, NEW g \in Albums, Wake(g)
    PROVE  AlbumInv'
  <1>1. AlbumTypeOK'
    BY DEF Wake, AlbumInv, AlbumTypeOK
  <1>2. AlbumFits(g)'
    <2>1. /\ buffer' = buffer /\ inTime' = inTime /\ handed' = handed /\ arrived' = arrived
          /\ call[g] = "sleep" /\ call'[g] = "handler" /\ AlbumFits(g)
      BY DEF Wake, AlbumInv, AlbumTypeOK
    <2>2. BufferFits(g)' /\ BufferOnce(g)' /\ ListsOnce(g)'
      BY <2>1 DEF AlbumFits, BufferFits, BufferOnce, ListsOnce, Of, HasAll
    <2>3. ListsFit(g)'
      BY <2>1 DEF AlbumFits, ListsFit, Current, Apart, Of
    <2> QED BY <2>2, <2>3 DEF AlbumFits
  <1>3. ASSUME NEW h \in Albums \ {g} PROVE AlbumFits(h)'
    <2>1. /\ arrived \subseteq arrived' /\ buffer'[h] = buffer[h] /\ call'[h] = call[h]
          /\ handed'[h] = handed[h] /\ inTime'[h] = inTime[h]
      BY DEF Wake, AlbumInv, AlbumTypeOK
    <2> QED BY <2>1, OthersFit DEF AlbumInv
  <1> QED BY <1>1, <1>2, <1>3 DEF AlbumInv

LEMMA ReadFits ==
    ASSUME AlbumInv, NEW g \in Albums, ReadList(g)
    PROVE  AlbumInv'
  <1>0. PICK n : n = Len(handed[g])
    OBVIOUS
  <1>1. /\ handed[g] \in Seq(Seq(Messages)) /\ buffer[g] \in Seq(Messages)
        /\ Append(handed[g], buffer[g]) \in Seq(Seq(Messages))
        /\ n \in Nat /\ DOMAIN handed[g] = 1 .. n
        /\ Len(buffer[g]) \in Nat /\ DOMAIN buffer[g] = 1 .. Len(buffer[g])
    BY <1>0, AppendFacts, LenProperties DEF AlbumInv, AlbumTypeOK
  <1>2. AlbumTypeOK'
    BY <1>1 DEF ReadList, List, AlbumInv, AlbumTypeOK
  <1>3. /\ handed'[g] = Append(handed[g], buffer[g]) /\ call'[g] = "read"
        /\ buffer' = buffer /\ inTime' = inTime /\ arrived' = arrived
        /\ call[g] = "handler" /\ AlbumFits(g)
    BY DEF ReadList, List, AlbumInv, AlbumTypeOK
  <1>4. /\ DOMAIN handed'[g] = 1 .. n + 1 /\ Len(handed'[g]) = n + 1
        /\ \A i \in 1 .. n : handed'[g][i] = handed[g][i]
        /\ handed'[g][n + 1] = buffer[g]
        /\ handed'[g] # <<>>
    BY <1>0, <1>1, <1>3, AppendFacts
  <1>5. BufferFits(g)' /\ BufferOnce(g)'
    BY <1>3 DEF AlbumFits, BufferFits, BufferOnce, HasAll, Of
  <1>6. ASSUME NEW i \in 1 .. n
        PROVE  /\ ~Current(g, i) /\ ~Current(g, i)'
               /\ Apart(g, handed[g][i])
               /\ \A k \in DOMAIN handed[g][i] : handed[g][i][k] \in Of(g)
    <2>1. ~Current(g, i) /\ ~Current(g, i)'
      BY <1>0, <1>1, <1>3, <1>4 DEF Current
    <2> QED BY <2>1, <1>1, <1>3 DEF AlbumFits, ListsFit
  <1>7. ListsFit(g)'
    <2>1. ASSUME NEW i \in 1 .. n
          PROVE  /\ ~Current(g, i)' /\ Apart(g, handed[g][i])'
                 /\ \A k \in DOMAIN handed'[g][i] : handed'[g][i][k] \in Of(g)'
      <3>1. handed'[g][i] = handed[g][i]
        BY <1>4
      <3>2. /\ ~Current(g, i)' /\ Apart(g, handed[g][i])
            /\ \A k \in DOMAIN handed[g][i] : handed[g][i][k] \in Of(g)
        BY <1>6
      <3> QED BY <3>1, <3>2, <1>3 DEF Apart, Of
    <2>2. /\ Current(g, n + 1)' /\ Working(g, buffer[g])'
          /\ \A k \in DOMAIN buffer[g] : buffer[g][k] \in Of(g)'
      <3>1. Current(g, n + 1)'
        BY <1>3, <1>4 DEF Current
      <3>2. HasAll(buffer[g], g)' /\ Len(buffer[g]) <= MaxItems
        BY <1>3, <1>5 DEF BufferFits, HasAll
      <3>3. Working(g, buffer[g])'
        BY <3>2, <1>1, <1>3 DEF Working
      <3> QED BY <3>1, <3>3, <1>3, <1>5 DEF BufferOnce
    <2>3. \A i \in DOMAIN handed'[g] : i \in 1 .. n \/ (i = n + 1 /\ handed'[g][i] = buffer[g])
      BY <1>1, <1>4
    <2>4. ASSUME NEW i \in DOMAIN handed'[g]
          PROVE  /\ \A k \in DOMAIN handed'[g][i] : handed'[g][i][k] \in Of(g)'
                 /\ Current(g, i)' => Working(g, handed[g][i])'
                 /\ ~Current(g, i)' => Apart(g, handed[g][i])'
      <3>1. CASE i \in 1 .. n
        BY <3>1, <2>1
      <3>2. CASE i = n + 1 /\ handed'[g][i] = buffer[g]
        BY <3>2, <2>2, <1>3
      <3> QED BY <3>1, <3>2, <2>3
    <2> QED BY <2>4, <1>3, <1>4 DEF ListsFit
  <1>8. ListsOnce(g)'
    <2> SUFFICES ASSUME NEW i \in DOMAIN handed'[g], NEW j \in DOMAIN handed'[g],
                        NEW k \in DOMAIN handed'[g][i], NEW l \in DOMAIN handed'[g][j],
                        handed'[g][i][k] = handed'[g][j][l]
                 PROVE  i = j /\ k = l
      BY DEF ListsOnce
    <2>1. CASE i # n + 1 /\ j # n + 1
      <3>1. i \in 1 .. n /\ j \in 1 .. n
        BY <2>1, <1>1, <1>4
      <3> QED BY <3>1, <1>1, <1>3, <1>4 DEF AlbumFits, ListsOnce
    <2>2. CASE i = n + 1 /\ j = n + 1
      BY <2>2, <1>3, <1>4 DEF AlbumFits, BufferOnce
    <2>3. CASE i = n + 1 /\ j # n + 1
      <3>1. j \in 1 .. n
        BY <2>3, <1>1, <1>4
      <3> QED BY <3>1, <2>3, <1>4, <1>6 DEF Apart
    <2>4. CASE i # n + 1 /\ j = n + 1
      <3>1. i \in 1 .. n
        BY <2>4, <1>1, <1>4
      <3> QED BY <3>1, <2>4, <1>4, <1>6 DEF Apart
    <2> QED BY <2>1, <2>2, <2>3, <2>4
  <1>9. ASSUME NEW h \in Albums \ {g} PROVE AlbumFits(h)'
    <2>1. /\ arrived \subseteq arrived' /\ buffer'[h] = buffer[h] /\ call'[h] = call[h]
          /\ handed'[h] = handed[h] /\ inTime'[h] = inTime[h]
      BY DEF ReadList, AlbumInv, AlbumTypeOK
    <2> QED BY <2>1, OthersFit DEF AlbumInv
  <1> QED BY <1>2, <1>5, <1>7, <1>8, <1>9 DEF AlbumFits, AlbumInv

LEMMA ReturnFits ==
    ASSUME AlbumInv, NEW g \in Albums, Return(g)
    PROVE  AlbumInv'
  <1>1. AlbumTypeOK'
    BY EmptySeq DEF Return, AlbumInv, AlbumTypeOK
  <1>2. AlbumFits(g)'
    <2>1. /\ buffer'[g] = <<>> /\ inTime' = inTime /\ handed' = handed /\ arrived' = arrived
          /\ call'[g] = "none" /\ DOMAIN buffer'[g] = {} /\ Len(buffer'[g]) = 0
          /\ AlbumFits(g)
      BY DEF Return, AlbumInv, AlbumTypeOK
    <2>2. BufferFits(g)' /\ BufferOnce(g)' /\ ListsOnce(g)'
      BY <2>1, AlbumAssumption DEF AlbumFits, BufferFits, BufferOnce, ListsOnce
    <2>3. ListsFit(g)'
      BY <2>1 DEF AlbumFits, ListsFit, Current, Apart, Of
    <2> QED BY <2>2, <2>3 DEF AlbumFits
  <1>3. ASSUME NEW h \in Albums \ {g} PROVE AlbumFits(h)'
    <2>1. /\ arrived \subseteq arrived' /\ buffer'[h] = buffer[h] /\ call'[h] = call[h]
          /\ handed'[h] = handed[h] /\ inTime'[h] = inTime[h]
      BY DEF Return, AlbumInv, AlbumTypeOK
    <2> QED BY <2>1, OthersFit DEF AlbumInv
  <1> QED BY <1>1, <1>2, <1>3 DEF AlbumInv

LEMMA AlbumInvNext == AlbumInv /\ [AlbumNext]_albumVars => AlbumInv'
  <1> SUFFICES ASSUME AlbumInv, [AlbumNext]_albumVars PROVE AlbumInv'
    OBVIOUS
  <1>1. CASE UNCHANGED albumVars
    <2>1. ASSUME NEW g \in Albums PROVE AlbumFits(g)'
      BY <1>1, OthersFit DEF albumVars, AlbumInv
    <2> QED BY <1>1, <2>1 DEF albumVars, AlbumInv, AlbumTypeOK
  <1> QED BY <1>1, FirstFits, LaterFits, WakeFits, ReadFits, ReturnFits DEF AlbumNext

(* The buffers of any albums, of any size, at any cap. *)
THEOREM AlbumInvariance == AlbumSpec => []AlbumInv
  BY AlbumInvInit, AlbumInvNext, PTL DEF AlbumSpec

(* Buffers and lists are of messages, and a call is where its code can be. *)
THEOREM AlbumTypes == AlbumSpec => []AlbumTypeOK
  <1>1. AlbumInv => AlbumTypeOK
    BY DEF AlbumInv
  <1> QED BY AlbumInvariance, <1>1, PTL

(* The handler gets what came in time, in its order, up to max_items; and the  *)
(* buffer is there as long as the call (MediaGroupMiddleware.__call__).        *)
THEOREM AlbumsHandedOver == AlbumSpec => []AlbumHandedOver
  <1>1. AlbumInv => AlbumHandedOver
    <2> SUFFICES ASSUME AlbumInv, NEW g \in Albums
                 PROVE  /\ (buffer[g] = <<>>) = (call[g] = "none")
                        /\ call[g] = "read" =>
                             /\ HasAll(handed[g][Len(handed[g])], g)
                             /\ Len(handed[g][Len(handed[g])]) <= MaxItems
      BY DEF AlbumHandedOver
    <2>1. AlbumFits(g) /\ handed[g] \in Seq(Seq(Messages))
      BY DEF AlbumInv, AlbumTypeOK
    <2>2. handed[g] # <<>> => Len(handed[g]) \in DOMAIN handed[g]
      BY <2>1
    <2>3. CASE call[g] = "read"
      <3>1. Current(g, Len(handed[g]))
        BY <2>3 DEF Current
      <3>2. Working(g, handed[g][Len(handed[g])])
        BY <2>1, <2>2, <2>3, <3>1 DEF AlbumFits, ListsFit
      <3> QED BY <2>1, <3>2 DEF AlbumFits, BufferFits, Working
    <2> QED BY <2>1, <2>3 DEF AlbumFits, BufferFits
  <1> QED BY AlbumInvariance, <1>1, PTL

(* No message is handed over twice, late ones included. *)
THEOREM AlbumsNoneTwice == AlbumSpec => []NoneTwice
  <1>1. AlbumInv => NoneTwice
    BY DEF AlbumInv, AlbumFits, ListsOnce, NoneTwice
  <1> QED BY AlbumInvariance, <1>1, PTL

=============================================================================
