--------------------------- MODULE SimP2pMatching ----------------------------
(***************************************************************************)
(* Every message of SimP2p is received once.  The invariant follows a      *)
(* match through its section: the receive is finished first, so between    *)
(* its completion and that of the send the key is one receive ahead.       *)
(***************************************************************************)
EXTENDS SimP2pProofs

(* The map mutex: one submission of a channel is in its section.           *)
OneHolder ==
  \A g, h \in Op :
    /\ call[g].pc \in InSection /\ call[h].pc \in InSection
    /\ call[g].req.chan = call[h].req.chan
    => g = h

(* Only a submission in its section leaves handles to be finished.         *)
ClosingHeld ==
  \A h \in closing :
    \E g \in Op : call[g].pc \in InSection /\ KeyOf(call[g]) = KeyOf(call[h])

(* What a match still has to finish is the receive and the send, then the  *)
(* send alone.                                                             *)
PairShape ==
  \A g \in Op : call[g].pc = "matched" =>
    /\ \A h, i \in Slots(g) : call[h].req.role = call[i].req.role => h = i
    /\ \A h \in Slots(g) : call[h].req.role = "recv" =>
         \E i \in Slots(g) : call[i].req.role = "send"

(* The receive of a match under key k has finished, its send has not.      *)
HalfDone(k) ==
  /\ \E g \in Op : call[g].pc = "matched" /\ KeyOf(call[g]) = k
  /\ \E h \in closing : KeyOf(call[h]) = k
  /\ \A h \in closing : KeyOf(call[h]) = k => call[h].req.role = "send"

Balanced ==
  \A k : Cardinality(Succeeded("recv", k))
           = Cardinality(Succeeded("send", k)) + IF HalfDone(k) THEN 1 ELSE 0

MInv == OneHolder /\ ClosingHeld /\ PairShape /\ Balanced
-----------------------------------------------------------------------------
LEMMA KeyChan ==
  ASSUME NEW x, NEW y, KeyOf(x) = KeyOf(y)
  PROVE  x.req.chan = y.req.chan
BY DEF KeyOf

LEMMA RoleType == TypeOK => \A x \in Op : call[x].req.role \in {"send", "recv"}
BY SimP2pAssumption DEF TypeOK, Call, Role

(* Succeeded calls are finitely many.                                      *)
LEMMA SucceededFinite ==
  ASSUME NEW role, NEW k
  PROVE  /\ IsFiniteSet(Succeeded(role, k))
         /\ Cardinality(Succeeded(role, k)) \in Nat
<1>1. Succeeded(role, k) \subseteq Op
  BY DEF Succeeded
<1>2. IsFiniteSet(Succeeded(role, k))
  BY <1>1, FS_Subset, SimP2pAssumption
<1> QED BY <1>2, FS_CardinalityType

(* The calls that have succeeded are the same, with the same arguments.    *)
SameSuccess ==
  \A x \in Op : /\ io'[x].status = "OK" <=> io[x].status = "OK"
                /\ io[x].status = "OK" => /\ call'[x].req = call[x].req
                                          /\ KeyOf(call'[x]) = KeyOf(call[x])

LEMMA SameSuccessCount ==
  ASSUME SameSuccess, NEW role, NEW k
  PROVE  Succeeded(role, k)' = Succeeded(role, k)
BY DEF SameSuccess, Succeeded

LEMMA BalancedFrame ==
  ASSUME Balanced, SameSuccess, \A k : HalfDone(k)' <=> HalfDone(k)
  PROVE  Balanced'
<1> SUFFICES ASSUME NEW k
             PROVE  Cardinality(Succeeded("recv", k)')
                      = Cardinality(Succeeded("send", k)')
                          + IF HalfDone(k)' THEN 1 ELSE 0
  BY DEF Balanced
<1>1. /\ Succeeded("recv", k)' = Succeeded("recv", k)
      /\ Succeeded("send", k)' = Succeeded("send", k)
  BY SameSuccessCount
<1>2. Cardinality(Succeeded("recv", k))
        = Cardinality(Succeeded("send", k)) + IF HalfDone(k) THEN 1 ELSE 0
  BY DEF Balanced
<1> QED BY <1>1, <1>2

LEMMA InitMInv == Init => MInv
<1> SUFFICES ASSUME Init PROVE MInv
  OBVIOUS
<1>1. OneHolder /\ ClosingHeld /\ PairShape
  BY DEF Init, NoCall, InSection, OneHolder, ClosingHeld, PairShape
<1>2. \A k : ~HalfDone(k)
  BY DEF Init, HalfDone
<1>3. \A k : Succeeded("recv", k) = {} /\ Succeeded("send", k) = {}
  BY DEF Init, Succeeded
<1>4. Balanced
  BY <1>2, <1>3, FS_EmptySet DEF Balanced
<1> QED BY <1>1, <1>4 DEF MInv

(* A step outside the sections.                                            *)
LEMMA QuietMInv ==
  ASSUME MInv, TypeOK, SameSuccess, closing' = closing,
         \A x \in Op :
           /\ call'[x].pc \in InSection <=> call[x].pc \in InSection
           /\ call[x].pc \in InSection \/ x \in closing =>
                /\ call'[x].pc = call[x].pc /\ call'[x].req = call[x].req
                /\ KeyOf(call'[x]) = KeyOf(call[x])
  PROVE  MInv'
<1> USE DEF MInv
<1>a. closing \subseteq Op
  BY DEF TypeOK
<1>1. OneHolder'
  BY DEF OneHolder
<1>2. ClosingHeld'
  BY <1>a DEF ClosingHeld
<1>3. \A g \in Op : call'[g].pc = "matched" =>
        call[g].pc = "matched" /\ Slots(g)' = Slots(g)
  BY <1>a DEF Slots, InSection
<1>4. PairShape'
  <2>1. \A g \in Op : Slots(g) \subseteq closing
    BY DEF Slots
  <2> QED BY <1>a, <1>3, <2>1 DEF PairShape
<1>5. \A k : HalfDone(k)' <=> HalfDone(k)
  <2>1. \A g \in Op : /\ call'[g].pc = "matched" <=> call[g].pc = "matched"
                      /\ call[g].pc = "matched" => KeyOf(call'[g]) = KeyOf(call[g])
    BY DEF InSection
  <2> QED BY <1>a, <2>1 DEF HalfDone
<1>6. Balanced'
  BY <1>5, BalancedFrame
<1> QED BY <1>1, <1>2, <1>4, <1>6
-----------------------------------------------------------------------------
(* The section of o takes the entry p; o is closed too when they match.    *)
LEMMA CloseEntryMInv ==
  ASSUME IInv, MInv, NEW o \in Op, call[o].pc = "numbered",
         MutexFree(call[o].req.chan),
         NEW p \in waiting, Entry(o) = {p}, NEW D \in {{p}, {o, p}},
         o \in D => call[p].req.role # call[o].req.role,
         Goto(o, IF o \in D THEN "matched" ELSE "rejected"),
         closing' = closing \cup D,
         \A x \in Op : io'[x].status = io[x].status
  PROVE  MInv'
<1> USE DEF MInv
<1> DEFINE pc == IF o \in D THEN "matched" ELSE "rejected"
<1>a. /\ p \in Op /\ p # o /\ p \in D /\ D \subseteq {o, p}
      /\ KeyOf(call[p]) = KeyOf(call[o]) /\ closing \subseteq Op
  BY AtRendezvous DEF Entry, IInv, TypeOK
<1>b. /\ call'[o].pc = pc /\ pc \in InSection
      /\ \A x \in Op : /\ call'[x].req = call[x].req
                       /\ KeyOf(call'[x]) = KeyOf(call[x])
                       /\ x # o => call'[x] = call[x]
  <2>1. pc \in {"returned"} \cup InSection /\ pc \in InSection
    BY DEF InSection
  <2> HIDE DEF pc
  <2> QED BY <2>1, GotoFrame DEF pc, IInv
<1>c. call[o].pc \notin InSection
  BY DEF InSection
<1>d. \A g \in Op : call[g].pc \in InSection => KeyOf(call[g]) # KeyOf(call[o])
  BY KeyChan DEF MutexFree
<1>e. \A h \in closing : KeyOf(call[h]) # KeyOf(call[o])
  BY <1>d DEF ClosingHeld
<1>f. \A h \in D : h \in Op /\ KeyOf(call[h]) = KeyOf(call[o])
  BY <1>a
<1>g. pc = "matched" <=> o \in D
  OBVIOUS
<1> HIDE DEF pc
<1>1. OneHolder'
  <2>1. \A g \in Op : g # o /\ call'[g].pc \in InSection =>
          call[g].pc \in InSection /\ call'[g].req.chan # call[o].req.chan
    BY <1>b DEF MutexFree
  <2> QED BY <1>b, <2>1 DEF OneHolder
<1>2. ClosingHeld'
  <2>1. ASSUME NEW h \in closing
        PROVE  \E g \in Op : /\ call'[g].pc \in InSection
                             /\ KeyOf(call'[g]) = KeyOf(call'[h])
    <3>1. PICK g \in Op : /\ call[g].pc \in InSection
                          /\ KeyOf(call[g]) = KeyOf(call[h])
      BY DEF ClosingHeld
    <3> QED BY <1>a, <1>b, <1>c, <3>1
  <2>2. \A h \in D : KeyOf(call'[o]) = KeyOf(call'[h])
    BY <1>b, <1>f
  <2> QED BY <1>b, <2>1, <2>2 DEF ClosingHeld
<1>3. PairShape'
  <2> SUFFICES ASSUME NEW g \in Op, call'[g].pc = "matched"
               PROVE  /\ \A h, i \in Slots(g)' :
                           call'[h].req.role = call'[i].req.role => h = i
                      /\ \A h \in Slots(g)' : call'[h].req.role = "recv" =>
                           \E i \in Slots(g)' : call'[i].req.role = "send"
    BY DEF PairShape
  <2>1. CASE g = o
    <3>1. o \in D
      BY <1>b, <1>g, <2>1
    <3>2. Slots(g)' = {o, p}
      BY <1>a, <1>b, <1>e, <1>f, <2>1, <3>1 DEF Slots
    <3>3. call[o].req.role \in {"send", "recv"} /\ call[p].req.role \in {"send", "recv"}
      BY <1>a, RoleType DEF IInv
    <3> QED BY <1>a, <1>b, <3>1, <3>2, <3>3
  <2>2. CASE g # o
    <3>1. call[g].pc = "matched" /\ KeyOf(call[g]) # KeyOf(call[o])
      BY <1>b, <1>d, <2>2 DEF InSection
    <3>2. Slots(g)' = Slots(g) /\ Slots(g) \subseteq Op
      BY <1>a, <1>b, <1>f, <3>1 DEF Slots
    <3> QED BY <1>b, <3>1, <3>2 DEF PairShape
  <2> QED BY <2>1, <2>2
<1>4. ASSUME NEW k
      PROVE  HalfDone(k)' <=> HalfDone(k)
  <2>1. CASE k = KeyOf(call[o])
    <3>1. ~HalfDone(k)
      BY <1>e, <2>1 DEF HalfDone
    <3>2. CASE o \in D
      <4>1. \E h \in closing' : KeyOf(call'[h]) = k /\ call'[h].req.role # "send"
        BY <1>a, <1>b, <2>1, <3>2
      <4> QED BY <3>1, <4>1 DEF HalfDone
    <3>3. CASE o \notin D
      <4>1. \A g \in Op : call'[g].pc = "matched" => KeyOf(call'[g]) # k
        BY <1>b, <1>d, <1>g, <2>1, <3>3 DEF InSection
      <4> QED BY <3>1, <4>1 DEF HalfDone
    <3> QED BY <3>2, <3>3
  <2>2. CASE k # KeyOf(call[o])
    <3>1. \A h \in Op : KeyOf(call'[h]) = k =>
            /\ h # o
            /\ h \in closing' <=> h \in closing
      BY <1>a, <1>b, <1>f, <2>2
    <3>2. \A h \in Op : KeyOf(call[h]) = k => h # o
      BY <2>2
    <3>3. closing' \subseteq Op
      BY <1>a
    <3> QED BY <1>a, <1>b, <3>1, <3>2, <3>3 DEF HalfDone
  <2> QED BY <2>1, <2>2
<1>5. SameSuccess
  BY <1>b DEF SameSuccess
<1>6. Balanced'
  BY <1>4, <1>5, BalancedFrame
<1> QED BY <1>1, <1>2, <1>3, <1>6

LEMMA RendezvousMInv ==
  ASSUME IInv, MInv, NEW o \in Op, Rendezvous(o)
  PROVE  MInv'
<1>a. call[o].pc = "numbered" /\ MutexFree(call[o].req.chan)
  BY DEF Rendezvous
<1>1. CASE Enqueue(o)
  <2>1. /\ call'[o].pc = "returned"
        /\ \A x \in Op : /\ call'[x].req = call[x].req
                         /\ KeyOf(call'[x]) = KeyOf(call[x])
                         /\ x # o => call'[x] = call[x]
    BY <1>1, GotoFrame DEF Enqueue, IInv
  <2>2. closing' = closing /\ \A x \in Op : io'[x].status = io[x].status
    BY <1>1 DEF Enqueue, IInv, TypeOK, Io
  <2>3. SameSuccess
    BY <2>1, <2>2 DEF SameSuccess
  <2>4. o \notin closing /\ call'[o].pc \notin InSection /\ call[o].pc \notin InSection
    BY <1>a, <2>1, AtRendezvous DEF InSection
  <2> QED BY <2>1, <2>2, <2>3, <2>4, QuietMInv DEF IInv
<1>2. CASE \E p \in waiting : Reject(o, p)
  <2>1. PICK p \in waiting : Reject(o, p)
    BY <1>2
  <2> DEFINE D == {p}
  <2>2. /\ D \in {{p}, {o, p}} /\ o \notin D
        /\ closing' = closing \cup D /\ io' = io /\ Goto(o, "rejected")
        /\ Entry(o) = {p}
    BY <1>a, <2>1, AtRendezvous DEF Reject
  <2> HIDE DEF D
  <2> QED BY <1>a, <2>2, CloseEntryMInv
<1>3. CASE \E p \in waiting : Deliver(o, p)
  <2>1. PICK p \in waiting : Deliver(o, p)
    BY <1>3
  <2> DEFINE D == {o, p}
  <2>2. /\ D \in {{p}, {o, p}} /\ o \in D
        /\ closing' = closing \cup D /\ Goto(o, "matched") /\ Entry(o) = {p}
        /\ call[p].req.role # call[o].req.role
    BY <2>1 DEF Deliver, Mismatch, CloseMatched
  <2>3. \A x \in Op : io'[x].status = io[x].status
    BY <2>1 DEF Deliver, CloseMatched, IInv, TypeOK, Io
  <2> HIDE DEF D
  <2> QED BY <1>a, <2>2, <2>3, CloseEntryMInv
<1> QED BY <1>1, <1>2, <1>3 DEF Rendezvous
-----------------------------------------------------------------------------
(* One handle finishes.  Its key gains a receive, or the send that makes   *)
(* up for it; a rejected entry gains neither.                              *)
LEMMA FinishSlotMInv ==
  ASSUME IInv, MInv, NEW o \in Op, FinishSlot(o)
  PROVE  MInv'
<1> USE DEF MInv
<1>a. PICK h \in Slots(o) :
        /\ call[h].req.role = "recv" \/ \A g \in Slots(o) : call[g].req.role = "send"
        /\ io' = [io EXCEPT ![h].status = Verdict(o), ![h].ref = @ - 1]
        /\ closing' = closing \ {h}
        /\ call' = call
  BY DEF FinishSlot
<1>b. /\ call[o].pc \in InSection /\ h \in closing /\ h \in Op /\ closing \subseteq Op
      /\ KeyOf(call[h]) = KeyOf(call[o]) /\ io[h].status = "PENDING"
  BY DEF FinishSlot, Slots, IInv, TypeOK, EntriesAlive
<1>c. /\ \A x \in Op : x # h => io'[x] = io[x]
      /\ io'[h].status = Verdict(o)
  BY <1>a, <1>b DEF IInv, TypeOK, Io
<1>d. \A g \in Op : call[g].pc \in InSection /\ KeyOf(call[g]) = KeyOf(call[o]) => g = o
  BY <1>b, KeyChan DEF OneHolder
<1>e. \A x \in Op : call[x].req.role \in {"send", "recv"}
  BY RoleType DEF IInv
<1>f. \A g \in Op : /\ Slots(g) \subseteq Op
                    /\ Slots(g)' = Slots(g) \ {h}
                    /\ h \in Slots(g) => KeyOf(call[g]) = KeyOf(call[o])
  BY <1>a, <1>b DEF Slots
<1>1. OneHolder' /\ ClosingHeld'
  <2>1. OneHolder'
    BY <1>a DEF OneHolder
  <2>2. ClosingHeld'
    BY <1>a DEF ClosingHeld
  <2> QED BY <2>1, <2>2
<1>2. PairShape'
  <2> SUFFICES ASSUME NEW g \in Op, call[g].pc = "matched"
               PROVE  /\ \A x, i \in Slots(g) \ {h} :
                           call[x].req.role = call[i].req.role => x = i
                      /\ \A x \in Slots(g) \ {h} : call[x].req.role = "recv" =>
                           \E i \in Slots(g) \ {h} : call[i].req.role = "send"
    BY <1>a, <1>f DEF PairShape
  <2>1. /\ \A x, i \in Slots(g) : call[x].req.role = call[i].req.role => x = i
        /\ \A x \in Slots(g) : call[x].req.role = "recv" =>
             \E i \in Slots(g) : call[i].req.role = "send"
    BY DEF PairShape
  <2>2. CASE h \in Slots(g)
    <3>1. g = o
      BY <1>d, <1>f, <2>2 DEF InSection
    <3>2. \A x \in Slots(g) \ {h} : call[x].req.role # "recv"
      BY <1>a, <2>1, <2>2, <3>1
    <3> QED BY <2>1, <3>2
  <2>3. CASE h \notin Slots(g)
    BY <2>1, <2>3
  <2> QED BY <2>2, <2>3
<1>3. CASE call[o].pc = "rejected"
  <2>1. SameSuccess
    <3>1. io[h].status # "OK" /\ io'[h].status # "OK" /\ call' = call
      BY <1>a, <1>b, <1>c, <1>3 DEF Verdict
    <3> QED BY <1>c, <3>1 DEF SameSuccess
  <2>2. ASSUME NEW k PROVE HalfDone(k)' <=> HalfDone(k)
    <3>1. CASE k = KeyOf(call[o])
      <4>1. \A g \in Op : call[g].pc = "matched" => KeyOf(call[g]) # k
        BY <1>d, <1>3, <3>1 DEF InSection
      <4> QED BY <1>a, <4>1 DEF HalfDone
    <3>2. CASE k # KeyOf(call[o])
      BY <1>a, <1>b, <3>2 DEF HalfDone
    <3> QED BY <3>1, <3>2
  <2>3. Balanced'
    BY <2>1, <2>2, BalancedFrame
  <2> QED BY <1>1, <1>2, <2>3
<1>4. CASE call[o].pc = "matched"
  <2>a. /\ \A x, i \in Slots(o) : call[x].req.role = call[i].req.role => x = i
        /\ \A x \in Slots(o) : call[x].req.role = "recv" =>
             \E i \in Slots(o) : call[i].req.role = "send"
    BY <1>4 DEF PairShape
  <2>b. io'[h].status = "OK"
    BY <1>c, <1>4 DEF Verdict
  <2>c. \A x \in closing : KeyOf(call[x]) = KeyOf(call[o]) <=> x \in Slots(o)
    BY DEF Slots
  <2> SUFFICES ASSUME NEW k
               PROVE  Cardinality(Succeeded("recv", k)')
                        = Cardinality(Succeeded("send", k)')
                            + IF HalfDone(k)' THEN 1 ELSE 0
    BY <1>1, <1>2 DEF Balanced
  <2>d. /\ Cardinality(Succeeded("recv", k))
             = Cardinality(Succeeded("send", k)) + IF HalfDone(k) THEN 1 ELSE 0
        /\ IsFiniteSet(Succeeded("recv", k)) /\ IsFiniteSet(Succeeded("send", k))
        /\ Cardinality(Succeeded("recv", k)) \in Nat
        /\ Cardinality(Succeeded("send", k)) \in Nat
    BY SucceededFinite DEF Balanced
  <2>e. h \notin Succeeded("recv", k) /\ h \notin Succeeded("send", k)
    BY <1>b DEF Succeeded
  <2>f. ASSUME NEW role
        PROVE  Succeeded(role, k)' =
                 IF k = KeyOf(call[o]) /\ call[h].req.role = role
                   THEN Succeeded(role, k) \cup {h} ELSE Succeeded(role, k)
    <3>1. \A x \in Op : x \in Succeeded(role, k)' <=>
            \/ x \in Succeeded(role, k)
            \/ x = h /\ k = KeyOf(call[o]) /\ call[h].req.role = role
      <4>1. \A x \in Op : x # h =>
              (x \in Succeeded(role, k)' <=> x \in Succeeded(role, k))
        BY <1>a, <1>c DEF Succeeded
      <4>2. h \in Succeeded(role, k)' <=>
              k = KeyOf(call[o]) /\ call[h].req.role = role
        BY <1>a, <1>b, <2>b DEF Succeeded
      <4>3. h \notin Succeeded(role, k)
        BY <1>b DEF Succeeded
      <4> QED BY <4>1, <4>2, <4>3
    <3>2. Succeeded(role, k) \subseteq Op /\ Succeeded(role, k)' \subseteq Op
      BY DEF Succeeded
    <3> QED BY <1>b, <3>1, <3>2
  <2>1. CASE k # KeyOf(call[o])
    <3>1. HalfDone(k)' <=> HalfDone(k)
      BY <1>a, <1>b, <2>1 DEF HalfDone
    <3> QED BY <2>1, <2>d, <2>f, <3>1
  <2>2. CASE k = KeyOf(call[o]) /\ call[h].req.role = "recv"
    <3>1. ~HalfDone(k)
      BY <1>b, <2>2 DEF HalfDone
    <3>2. \E i \in closing' : KeyOf(call[i]) = k
      BY <1>a, <2>2, <2>a, <2>c DEF Slots
    <3>3. \A i \in closing' : KeyOf(call[i]) = k => call[i].req.role = "send"
      BY <1>a, <1>b, <1>e, <2>2, <2>a, <2>c
    <3>4. HalfDone(k)'
      BY <1>a, <1>4, <2>2, <3>2, <3>3 DEF HalfDone
    <3>5. /\ Succeeded("recv", k)' = Succeeded("recv", k) \cup {h}
          /\ Succeeded("send", k)' = Succeeded("send", k)
      BY <2>2, <2>f
    <3>6. Cardinality(Succeeded("recv", k)') = Cardinality(Succeeded("recv", k)) + 1
      BY <2>d, <2>e, <3>5, CountAdd
    <3> QED BY <2>d, <3>1, <3>4, <3>5, <3>6
  <2>3. CASE k = KeyOf(call[o]) /\ call[h].req.role = "send"
    <3>1. \A x \in Slots(o) : call[x].req.role = "send" /\ x = h
      BY <1>a, <2>3, <2>a
    <3>2. HalfDone(k)
      BY <1>b, <1>4, <2>3, <2>c, <3>1 DEF HalfDone
    <3>3. ~HalfDone(k)'
      <4>1. \A x \in closing' : KeyOf(call[x]) # k
        BY <1>a, <2>3, <2>c, <3>1
      <4> QED BY <1>a, <4>1 DEF HalfDone
    <3>4. /\ Succeeded("send", k)' = Succeeded("send", k) \cup {h}
          /\ Succeeded("recv", k)' = Succeeded("recv", k)
      BY <2>3, <2>f
    <3>5. Cardinality(Succeeded("send", k)') = Cardinality(Succeeded("send", k)) + 1
      BY <2>d, <2>e, <3>4, CountAdd
    <3> QED BY <2>d, <3>2, <3>3, <3>4, <3>5
  <2> QED BY <1>b, <1>e, <2>1, <2>2, <2>3
<1> QED BY <1>b, <1>3, <1>4 DEF InSection

(* The section ends with nothing left to finish.                           *)
LEMMA LeaveMInv ==
  ASSUME IInv, MInv, NEW o \in Op, Leave(o)
  PROVE  MInv'
<1> USE DEF MInv
<1>a. /\ call[o].pc \in InSection /\ Slots(o) = {} /\ closing' = closing
      /\ io' = IF call[o].pc = "rejected"
                 THEN [io EXCEPT ![o].status = "INVALID"] ELSE io
      /\ closing \subseteq Op
  BY DEF Leave, IInv, TypeOK
<1>b. /\ call'[o].pc = "returned"
      /\ \A x \in Op : /\ call'[x].req = call[x].req
                       /\ KeyOf(call'[x]) = KeyOf(call[x])
                       /\ x # o => call'[x] = call[x]
  BY GotoFrame DEF IInv, Leave
<1>c. call[o].pc = "rejected" => io[o].status = "PENDING"
  BY DEF IInv, HandlesFollowCalls
<1>d. \A h \in closing : KeyOf(call[h]) # KeyOf(call[o])
  BY <1>a DEF Slots
<1>1. OneHolder'
  BY <1>b DEF OneHolder, InSection
<1>2. ClosingHeld'
  <2> SUFFICES ASSUME NEW h \in closing
               PROVE  \E g \in Op : /\ call'[g].pc \in InSection
                                    /\ KeyOf(call'[g]) = KeyOf(call'[h])
    BY <1>a DEF ClosingHeld
  <2>1. PICK g \in Op : /\ call[g].pc \in InSection
                        /\ KeyOf(call[g]) = KeyOf(call[h])
    BY DEF ClosingHeld
  <2>2. g # o
    BY <1>d, <2>1
  <2> QED BY <1>a, <1>b, <2>1, <2>2
<1>3. PairShape'
  <2>1. \A g \in Op : Slots(g)' = Slots(g) /\ Slots(g) \subseteq Op
    BY <1>a, <1>b DEF Slots
  <2>2. \A g \in Op : call'[g].pc = "matched" => call[g].pc = "matched"
    BY <1>b
  <2> QED BY <1>b, <2>1, <2>2 DEF PairShape
<1>4. ASSUME NEW k PROVE HalfDone(k)' <=> HalfDone(k)
  <2>1. CASE k = KeyOf(call[o])
    BY <1>a, <1>b, <1>d, <2>1 DEF HalfDone
  <2>2. CASE k # KeyOf(call[o])
    <3>1. \A g \in Op : KeyOf(call[g]) = k => g # o
      BY <2>2
    <3> QED BY <1>a, <1>b, <3>1 DEF HalfDone
  <2> QED BY <2>1, <2>2
<1>5. SameSuccess
  <2>1. \A x \in Op : io'[x].status = "OK" <=> io[x].status = "OK"
    BY <1>a, <1>c DEF IInv, TypeOK, Io
  <2> QED BY <1>b, <2>1 DEF SameSuccess
<1>6. Balanced'
  BY <1>4, <1>5, BalancedFrame
<1> QED BY <1>1, <1>2, <1>3, <1>6

(* A call that begins, or takes its number, has not succeeded and is in no *)
(* section.                                                                *)
LEMMA BeginMInv ==
  ASSUME IInv, MInv, NEW o \in Op, call[o].pc \in {"unused", "snapshot"},
         closing' = closing,
         \A x \in Op : x # o => call'[x] = call[x] /\ io'[x] = io[x],
         call'[o].pc \notin InSection, io'[o].status # "OK"
  PROVE  MInv'
<1>a. o \notin closing /\ io[o].status # "OK" /\ call[o].pc \notin InSection
  BY DEF IInv, EntriesAlive, HandlesFollowCalls, InSection
<1>1. SameSuccess
  BY <1>a DEF SameSuccess
<1> QED BY <1>a, <1>1, QuietMInv DEF IInv

(* A step that changes no call and no verdict.                             *)
LEMMA SilentMInv ==
  ASSUME IInv, MInv, UNCHANGED <<call, closing>>,
         \A x \in Op : io'[x].status = io[x].status
  PROVE  MInv'
<1>1. SameSuccess
  BY DEF SameSuccess
<1> QED BY <1>1, QuietMInv DEF IInv

LEMMA NextMInv == IInv /\ MInv /\ [Next]_vars => MInv'
<1> SUFFICES ASSUME IInv, MInv, [Next]_vars PROVE MInv'
  OBVIOUS
<1>1. CASE \E w \in World : flume_attach_sim_comm(w)
  <2>1. UNCHANGED <<call, closing, io>>
    BY <1>1 DEF flume_attach_sim_comm
  <2> QED BY <2>1, SilentMInv
<1>2. CASE \E o \in Op, q \in Request : Begin(o, q)
  <2>1. PICK o \in Op, q \in Request : Begin(o, q)
    BY <1>2
  <2> DEFINE outcome == BeginOutcome(q, comm[q.client])
  <2>2. /\ call[o].pc = "unused" /\ closing' = closing
        /\ call' = [call EXCEPT ![o] =
             IF outcome = "proceed"
             THEN [@ EXCEPT !.pc = "snapshot", !.req = q,
                            !.comm = comm[q.client]]
             ELSE [@ EXCEPT !.pc = "returned"]]
        /\ io' = IF outcome = "unsupported"
                   THEN [io EXCEPT ![o] = FinishedIo("UNSUPPORTED")]
                   ELSE io
    BY <2>1 DEF Begin
  <2> HIDE DEF outcome
  <2>3. \A x \in Op : x # o => call'[x] = call[x] /\ io'[x] = io[x]
    BY <2>2 DEF IInv, TypeOK
  <2>4. call'[o].pc \notin InSection
    BY <2>2 DEF IInv, TypeOK, Call, InSection
  <2>5. io[o].status = "PENDING"
    BY <2>2 DEF IInv, HandlesFollowCalls
  <2>6. io'[o].status # "OK"
    BY <2>2, <2>5 DEF FinishedIo, IInv, TypeOK
  <2> QED BY <2>2, <2>3, <2>4, <2>6, BeginMInv
<1>3. CASE \E o \in Op : TakeSeq(o)
  <2>1. PICK o \in Op : TakeSeq(o)
    BY <1>3
  <2>2. /\ call[o].pc = "snapshot" /\ closing' = closing
        /\ call'[o].pc \notin InSection
    BY <2>1 DEF TakeSeq, IInv, TypeOK, Call, InSection
  <2>3. \A x \in Op : x # o => call'[x] = call[x] /\ io'[x] = io[x]
    BY <2>1 DEF TakeSeq, IInv, TypeOK
  <2>4. io'[o].status # "OK"
    BY <2>1 DEF TakeSeq, IInv, TypeOK
  <2> QED BY <2>2, <2>3, <2>4, BeginMInv
<1>4. CASE \E o \in Op : Rendezvous(o)
  BY <1>4, RendezvousMInv
<1>5. CASE \E o \in Op : FinishSlot(o)
  BY <1>5, FinishSlotMInv
<1>6. CASE \E o \in Op : Leave(o)
  BY <1>6, LeaveMInv
<1>7. CASE \E o \in Op : flume_io_release(o)
  <2>1. UNCHANGED <<call, closing>>
    BY <1>7 DEF flume_io_release
  <2>2. \A x \in Op : io'[x].status = io[x].status
    BY <1>7 DEF flume_io_release, IInv, TypeOK, Io
  <2> QED BY <2>1, <2>2, SilentMInv
<1>8. CASE \E b \in Buffer : flume_buffer_release(b)
  <2>1. UNCHANGED <<call, closing, io>>
    BY <1>8 DEF flume_buffer_release
  <2> QED BY <2>1, SilentMInv
<1>9. CASE \E w \in Write : AppWrite(w)
  <2>1. UNCHANGED <<call, closing, io>>
    BY <1>9 DEF AppWrite
  <2> QED BY <2>1, SilentMInv
<1>10. CASE UNCHANGED vars
  <2>1. UNCHANGED <<call, closing, io>>
    BY <1>10 DEF vars
  <2> QED BY <2>1, SilentMInv
<1> QED BY <1>1, <1>2, <1>3, <1>4, <1>5, <1>6, <1>7, <1>8, <1>9, <1>10
        DEF Next, Step

LEMMA BalancedIsOnce == MInv => EachMessageOnce
<1> SUFFICES ASSUME MInv, NEW o \in Op, MutexFree(call[o].req.chan)
             PROVE  Cardinality(Succeeded("recv", KeyOf(call[o])))
                      = Cardinality(Succeeded("send", KeyOf(call[o])))
  BY DEF EachMessageOnce
<1>1. \A g \in Op : call[g].pc = "matched" => KeyOf(call[g]) # KeyOf(call[o])
  BY KeyChan DEF MutexFree, InSection
<1>2. ~HalfDone(KeyOf(call[o]))
  BY <1>1 DEF HalfDone
<1>3. Cardinality(Succeeded("send", KeyOf(call[o]))) \in Nat
  BY SucceededFinite
<1> QED BY <1>2, <1>3 DEF MInv, Balanced

(* Under every key as many receives as sends have succeeded, however often  *)
(* clients attach again and reuse their sequence numbers: no message is     *)
(* received twice, none succeeds without its receive.                       *)
THEOREM MessagesMatchOnce == Spec => []EachMessageOnce
<1>1. Spec => [](IInv /\ MInv)
  <2>1. Init => IInv /\ MInv
    BY InitIInv, InitMInv
  <2>2. IInv /\ MInv /\ [Next]_vars => (IInv /\ MInv)'
    BY NextIInv, NextMInv
  <2> QED BY <2>1, <2>2, PTL DEF Spec
<1>2. IInv /\ MInv => EachMessageOnce
  BY BalancedIsOnce
<1> QED BY <1>1, <1>2, PTL
=============================================================================
