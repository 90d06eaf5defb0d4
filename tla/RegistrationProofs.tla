-------------------------- MODULE RegistrationProofs --------------------------
(***************************************************************************)
(* Proofs about the registration of a UDP toy: a registration that is      *)
(* sound is undone by nothing but a rival or a restart.                    *)
(***************************************************************************)
EXTENDS Registration, FiniteSetTheorems, WellFoundedInduction, TLAPS

-----------------------------------------------------------------------------
(* The shape of the state. *)

UpPacket == {Register} \cup {Ping(uid) : uid \in Nat}
DownPacket == {NotRegistered} \cup {Answer(uid) : uid \in Nat}

Shape ==
  /\ IsFiniteSet(DOMAIN list) /\ DOMAIN list \subseteq Nat \ {0}
  /\ dev \in [uid : Nat, recheck : BOOLEAN]
  /\ up \in Seq(UpPacket) /\ down \in Seq(DownPacket)

\* The uids in the packets of one direction
CarriedBy(queue) == {queue[i].uid : i \in {j \in 1 .. Len(queue) : "uid" \in DOMAIN queue[j]}}

LEMMA CarriedBoth ==
  ASSUME Shape
  PROVE  carried = CarriedBy(up) \cup CarriedBy(down)
<1>1. DOMAIN up = 1 .. Len(up) /\ DOMAIN down = 1 .. Len(down)
  BY DEF Shape
<1>2. carried \subseteq CarriedBy(up) \cup CarriedBy(down)
  BY <1>1 DEF carried, CarriedBy, ToSet
<1>3. CarriedBy(up) \cup CarriedBy(down) \subseteq carried
  BY <1>1 DEF carried, CarriedBy, ToSet
<1> QED
  BY <1>2, <1>3

LEMMA CarriedFinite ==
  ASSUME NEW queue, Len(queue) \in Nat
  PROVE  IsFiniteSet(CarriedBy(queue))
<1> DEFINE I == {j \in 1 .. Len(queue) : "uid" \in DOMAIN queue[j]}
           f == [i \in I |-> queue[i].uid]
<1>1. IsFiniteSet(I)
  <2>1. IsFiniteSet(1 .. Len(queue)) /\ I \subseteq 1 .. Len(queue)
    BY FS_Interval
  <2> HIDE DEF I
  <2> QED
    BY <2>1, FS_Subset
<1>2. CarriedBy(queue) = {f[i] : i \in I}
  BY DEF CarriedBy
<1>3. f \in Surjection(I, {f[i] : i \in I})
  BY DEF Surjection
<1> HIDE DEF I, f
<1> QED
  BY <1>1, <1>2, <1>3, FS_Surjection

Below == {pair \in Nat \X Nat : pair[1] < pair[2]}

LEMMA SmallestOf ==
  ASSUME NEW S, S \subseteq Nat, S # {}
  PROVE  \E u \in S : \A v \in S : u <= v
<1>1. IsWellFoundedOn(Below, Nat)
  BY NatLessThanWellFounded DEF OpToRel, Below
<1>2. PICK u \in S : \A v \in S : ~(<<v, u>> \in Below)
  BY <1>1, WFMin
<1>3. ASSUME NEW v \in S PROVE u <= v
  <2>1. u \in Nat /\ v \in Nat /\ <<v, u>> \notin Below
    BY <1>2
  <2>2. ~(v < u)
    BY <2>1 DEF Below
  <2> QED
    BY <2>1, <2>2
<1> QED
  BY <1>3

\* A new uid is really new.
LEMMA NewUid ==
  ASSUME Shape
  PROVE  newUid \in Nat \ {0} /\ newUid \notin DOMAIN list \cup {dev.uid} \cup carried
<1> DEFINE used == DOMAIN list \cup {dev.uid} \cup carried
           n == Cardinality(used) + 1
           free == (1 .. n) \ used
<1>1. IsFiniteSet(carried)
  <2>1. Len(up) \in Nat /\ Len(down) \in Nat
    BY DEF Shape
  <2>2. IsFiniteSet(CarriedBy(up)) /\ IsFiniteSet(CarriedBy(down))
    BY <2>1, CarriedFinite
  <2> QED
    BY <2>2, CarriedBoth, FS_Union
<1>2. IsFiniteSet(used)
  BY <1>1, FS_Singleton, FS_Union DEF Shape
<1>3. Cardinality(used) \in Nat
  BY <1>2, FS_CardinalityType
<1> HIDE DEF used
<1>4. free # {}
  <2>1. Cardinality(1 .. n) = n
    BY <1>3, FS_Interval
  <2>2. 1 .. n \subseteq used => Cardinality(1 .. n) <= Cardinality(used)
    BY <1>2, FS_Subset
  <2> QED
    BY <1>3, <2>1, <2>2
<1>5. newUid = CHOOSE u \in free : \A v \in free : u <= v
  BY DEF newUid, Min, used
<1>6. \E u \in free : \A v \in free : u <= v
  <2>2. free \subseteq Nat
    BY <1>3
  <2> HIDE DEF free
  <2> QED
    BY <1>4, <2>2, SmallestOf
<1>7. newUid \in free
  <2> HIDE DEF free
  <2> QED
    BY <1>5, <1>6
<1> QED
  BY <1>3, <1>7 DEF used

-----------------------------------------------------------------------------
(* What a step does to the packets and the registry. *)

\* Whatever is under way in `after` was in `before`, or is in `new`.
Draws(after, before, new) ==
  \A i \in 1 .. Len(after) :
    after[i] \in new \/ \E j \in 1 .. Len(before) : after[i] = before[j]

LEMMA PutDraws ==
  ASSUME NEW Packet, NEW queue \in Seq(Packet), NEW packet \in Packet
  PROVE  put(queue, packet) \in Seq(Packet) /\ Draws(put(queue, packet), queue, {packet})
<1>1. CASE Len(queue) < MaxInFlight
  <2>1. put(queue, packet) = Append(queue, packet)
    BY <1>1 DEF put
  <2> QED
    BY <2>1 DEF Draws
<1>2. CASE ~(Len(queue) < MaxInFlight)
  BY <1>2 DEF put, Draws
<1> QED
  BY <1>1, <1>2

LEMMA RemoveDraws ==
  ASSUME NEW Packet, NEW queue \in Seq(Packet), NEW i \in DOMAIN queue
  PROVE  RemoveAt(queue, i) \in Seq(Packet) /\ Draws(RemoveAt(queue, i), queue, {})
<1> DEFINE front == SubSeq(queue, 1, i - 1)
           back == SubSeq(queue, i + 1, Len(queue))
<1>1. i \in 1 .. Len(queue) /\ Len(queue) \in Nat
  OBVIOUS
<1>2. /\ front \in Seq(Packet) /\ Len(front) = i - 1
      /\ \A j \in 1 .. i - 1 : front[j] = queue[j]
  BY <1>1
<1>3. /\ back \in Seq(Packet) /\ Len(back) = Len(queue) - i
      /\ \A j \in 1 .. Len(queue) - i : back[j] = queue[i + j]
  BY <1>1
<1> HIDE DEF front, back
<1>4. RemoveAt(queue, i) = front \o back
  BY DEF RemoveAt, front, back
<1>5. /\ front \o back \in Seq(Packet)
      /\ Len(front \o back) = Len(queue) - 1
      /\ \A j \in 1 .. Len(queue) - 1 :
           (front \o back)[j] = IF j < i THEN front[j] ELSE back[j - (i - 1)]
  <2>0. front \in Seq(Packet) /\ back \in Seq(Packet)
    BY <1>2, <1>3
  <2>1. front \o back \in Seq(Packet)
    BY <2>0
  <2>2. Len(front \o back) = Len(front) + Len(back)
    BY <2>0
  <2>3. \A j \in 1 .. Len(front) + Len(back) :
          (front \o back)[j] = IF j <= Len(front) THEN front[j] ELSE back[j - Len(front)]
    BY <2>0
  <2> DEFINE both == front \o back
  <2> HIDE DEF both
  <2>4. Len(front) = i - 1 /\ Len(front) + Len(back) = Len(queue) - 1
    BY <1>1, <1>2, <1>3
  <2>5. ASSUME NEW j \in 1 .. Len(queue) - 1
        PROVE  both[j] = IF j < i THEN front[j] ELSE back[j - (i - 1)]
    <3>1. j \in 1 .. Len(front) + Len(back)
      BY <2>4
    <3>2. both[j] = IF j <= Len(front) THEN front[j] ELSE back[j - Len(front)]
      BY <2>3, <3>1 DEF both
    <3>3. Len(front) = i - 1 /\ (j <= i - 1 <=> j < i)
      BY <1>1, <2>4
    <3> QED
      BY <3>2, <3>3
  <2> QED
    BY <2>1, <2>2, <2>4, <2>5 DEF both
<1>6. ASSUME NEW j \in 1 .. Len(queue) - 1
      PROVE  \E k \in 1 .. Len(queue) : (front \o back)[j] = queue[k]
  <2>1. CASE j < i
    <3>1. j \in 1 .. i - 1 /\ j \in 1 .. Len(queue)
      BY <1>1, <2>1
    <3> QED
      BY <1>2, <1>5, <2>1, <3>1
  <2>2. CASE ~(j < i)
    <3>1. /\ j - (i - 1) \in 1 .. Len(queue) - i /\ i + (j - (i - 1)) = j + 1
          /\ j + 1 \in 1 .. Len(queue)
      BY <1>1, <2>2
    <3>2. (front \o back)[j] = queue[j + 1]
      BY <1>3, <1>5, <2>2, <3>1
    <3> QED
      BY <3>1, <3>2
  <2> QED
    BY <2>1, <2>2
<1> QED
  BY <1>4, <1>5, <1>6 DEF Draws

\* add() puts the new entry in, and changes no other.
LEMMA AddEntry ==
  ASSUME Shape, NEW uid \in Nat \ {0}, NEW socket,
         NEW after, after = add(list, "toy", "channel", socket, 1, uid)
  PROVE  /\ uid \in DOMAIN after /\ after[uid].socket = socket
         /\ DOMAIN after \subseteq DOMAIN list \cup {uid}
         /\ \A u \in DOMAIN after \ {uid} : after[u] = list[u]
BY DEF add, remove, Restrict

-----------------------------------------------------------------------------
(* The shape is kept. *)

LEMMA Packets ==
  /\ Register \in UpPacket /\ NotRegistered \in DownPacket
  /\ \A uid \in Nat : Ping(uid) \in UpPacket /\ Answer(uid) \in DownPacket
BY DEF UpPacket, DownPacket

\* The uid in an answer is a number.
LEMMA AnswerUid ==
  ASSUME Shape, NEW i \in DOMAIN down, down[i].type = "register"
  PROVE  down[i] = Answer(down[i].uid) /\ down[i].uid \in Nat
<1>1. down[i] \in DownPacket
  BY DEF Shape
<1>2. down[i] # NotRegistered
  BY DEF NotRegistered
<1>3. PICK uid \in Nat : down[i] = Answer(uid)
  BY <1>1, <1>2 DEF DownPacket
<1> QED
  BY <1>3 DEF Answer

LEMMA AddShape ==
  ASSUME Shape, NEW socket, NEW after, after = add(list, "toy", "channel", socket, 1, newUid)
  PROVE  IsFiniteSet(DOMAIN after) /\ DOMAIN after \subseteq Nat \ {0}
<1>1. newUid \in Nat \ {0}
  BY NewUid
<1> HIDE DEF newUid
<1>2. DOMAIN after \subseteq DOMAIN list \cup {newUid}
  BY <1>1, AddEntry
<1>3. IsFiniteSet(DOMAIN list \cup {newUid})
  BY FS_Singleton, FS_Union DEF Shape
<1> QED
  BY <1>1, <1>2, <1>3, FS_Subset DEF Shape

LEMMA InitShape ==
  ASSUME Init
  PROVE  Shape
<1>1. IsFiniteSet(DOMAIN list) /\ DOMAIN list \subseteq Nat \ {0}
  <2>1. DOMAIN list = {}
    BY DEF Init
  <2> QED
    BY <2>1, FS_EmptySet
<1>2. up \in Seq(UpPacket) /\ down \in Seq(DownPacket)
  BY Packets DEF Init
<1> QED
  BY <1>1, <1>2 DEF Init, Shape, NoUid

LEMMA ShapeStep ==
  ASSUME Shape, [Next]_vars
  PROVE  Shape'
<1> USE DEF Shape
<1>1. CASE RecheckTimer
  BY <1>1, Packets, PutDraws DEF RecheckTimer
<1>2. CASE Keepalive
  BY <1>2, Packets, PutDraws DEF Keepalive
<1>3. ASSUME NEW i \in InFlight, ReceiveAnswer(i)
      PROVE  Shape'
  <2>1. i \in DOMAIN down /\ down[i].uid \in Nat
    BY <1>3, AnswerUid DEF ReceiveAnswer
  <2>2. down' \in Seq(DownPacket)
    BY <1>3, <2>1, RemoveDraws DEF ReceiveAnswer
  <2>3. dev' \in [uid : Nat, recheck : BOOLEAN]
    BY <1>3, <2>1 DEF ReceiveAnswer, answered
  <2> QED
    BY <1>3, <2>2, <2>3 DEF ReceiveAnswer
<1>4. ASSUME NEW i \in InFlight, ReceiveError(i)
      PROVE  Shape'
  <2>1. down' \in Seq(DownPacket)
    BY <1>4, RemoveDraws DEF ReceiveError
  <2>2. dev' \in [uid : Nat, recheck : BOOLEAN]
    BY <1>4 DEF ReceiveError, unregistered, NoUid
  <2>3. up' \in Seq(UpPacket)
    BY <1>4, Packets, PutDraws DEF ReceiveError
  <2> QED
    BY <1>4, <2>1, <2>2, <2>3 DEF ReceiveError
<1>5. ASSUME NEW i \in InFlight, RegisterDevice(i)
      PROVE  Shape'
  <2>1. up' \in Seq(UpPacket)
    BY <1>5, RemoveDraws DEF RegisterDevice
  <2>2. down' \in Seq(DownPacket)
    <3>1. Answer(newUid) \in DownPacket
      BY NewUid, Packets
    <3> QED
      BY <1>5, <3>1, PutDraws DEF RegisterDevice
  <2>3. IsFiniteSet(DOMAIN list') /\ DOMAIN list' \subseteq Nat \ {0}
    BY <1>5, AddShape DEF RegisterDevice
  <2> QED
    BY <1>5, <2>1, <2>2, <2>3 DEF RegisterDevice
<1>6. ASSUME NEW i \in InFlight, RespondToPing(i)
      PROVE  Shape'
  <2>1. up' \in Seq(UpPacket)
    BY <1>6, RemoveDraws DEF RespondToPing
  <2>2. down' \in Seq(DownPacket)
    BY <1>6, Packets, PutDraws DEF RespondToPing, errors
  <2> QED
    BY <1>6, <2>1, <2>2 DEF RespondToPing
<1>7. ASSUME NEW i \in InFlight, Lose(i)
      PROVE  Shape'
  BY <1>7, RemoveDraws DEF Lose
<1>8. CASE RegisterRival
  <2>1. IsFiniteSet(DOMAIN list') /\ DOMAIN list' \subseteq Nat \ {0}
    BY <1>8, AddShape DEF RegisterRival
  <2> QED
    BY <1>8, <2>1 DEF RegisterRival
<1>9. CASE RivalLeaves
  BY <1>9 DEF RivalLeaves
<1>10. CASE Restart
  <2>1. DOMAIN list' = {}
    BY <1>10 DEF Restart
  <2> QED
    BY <1>10, <2>1, FS_EmptySet DEF Restart
<1>11. CASE UNCHANGED vars
  BY <1>11 DEF vars
<1> QED
  BY <1>1, <1>2, <1>3, <1>4, <1>5, <1>6, <1>7, <1>8, <1>9, <1>10, <1>11 DEF Next

-----------------------------------------------------------------------------
(* A sound registration stays. *)

LEMMA SoundStep ==
  ASSUME Shape, [Next]_vars, Sound, ~rival, ~Restart
  PROVE  Sound'
<1>q. /\ up \in Seq(UpPacket) /\ down \in Seq(DownPacket)
      /\ DOMAIN up = 1 .. Len(up) /\ DOMAIN down = 1 .. Len(down)
  BY DEF Shape
<1>s. /\ dev.uid \in DOMAIN list /\ dev.uid # NoUid /\ ~dev.recheck
      /\ \A j \in 1 .. Len(up) : up[j].type = "ping" /\ up[j].uid \in DOMAIN list
      /\ \A j \in 1 .. Len(down) : down[j].type # "error"
  BY <1>q DEF Sound, Registered
<1>k. SUFFICES /\ list' = list /\ dev'.uid = dev.uid /\ ~dev'.recheck
               /\ \E new : /\ Draws(up', up, new)
                          /\ \A p \in new : p.type = "ping" /\ p.uid \in DOMAIN list
               /\ Draws(down', down, {})
  <2>1. DOMAIN up' = 1 .. Len(up') /\ DOMAIN down' = 1 .. Len(down')
    BY ShapeStep DEF Shape
  <2> QED
    BY <1>s, <2>1 DEF Sound, Registered, Draws
<1>0. \A Q, new : Draws(Q, Q, new)
  BY DEF Draws
<1>1. CASE Keepalive
  <2>1. Draws(up', up, {Ping(dev.uid)})
    BY <1>1, <1>q, Packets, PutDraws DEF Keepalive, Shape
  <2>2. Ping(dev.uid).type = "ping" /\ Ping(dev.uid).uid \in DOMAIN list
    BY <1>s DEF Ping
  <2> QED
    BY <1>1, <1>s, <1>0, <2>1, <2>2 DEF Keepalive
<1>2. ASSUME NEW i \in InFlight, ReceiveAnswer(i)
      PROVE  /\ list' = list /\ dev'.uid = dev.uid /\ ~dev'.recheck /\ up' = up
             /\ Draws(down', down, {})
  <2>1. Draws(down', down, {})
    BY <1>2, <1>q, RemoveDraws DEF ReceiveAnswer
  <2>2. dev'.uid = dev.uid /\ ~dev'.recheck
    BY <1>2, <1>s DEF ReceiveAnswer, answered, Shape
  <2> QED
    BY <1>2, <2>1, <2>2 DEF ReceiveAnswer
<1>3. ASSUME NEW i \in InFlight
      PROVE  ~ReceiveError(i) /\ ~RegisterDevice(i)
  BY <1>q, <1>s DEF ReceiveError, RegisterDevice
<1>4. ASSUME NEW i \in InFlight, RespondToPing(i)
      PROVE  /\ list' = list /\ dev' = dev
             /\ Draws(up', up, {}) /\ Draws(down', down, {})
  <2>1. down' = down
    BY <1>4, <1>q, <1>s DEF RespondToPing, errors
  <2>2. Draws(up', up, {})
    BY <1>4, <1>q, RemoveDraws DEF RespondToPing
  <2> QED
    BY <1>4, <1>0, <2>1, <2>2 DEF RespondToPing
<1>5. ASSUME NEW i \in InFlight, Lose(i)
      PROVE  /\ list' = list /\ dev' = dev
             /\ Draws(up', up, {}) /\ Draws(down', down, {})
  BY <1>5, <1>q, <1>0, RemoveDraws DEF Lose
<1>6. ~RecheckTimer /\ ~RegisterRival /\ ~RivalLeaves
  BY <1>s DEF RecheckTimer, RegisterRival, RivalLeaves
<1>7. CASE UNCHANGED vars
  <2>1. Draws(up', up, {}) /\ Draws(down', down, {})
    BY <1>7, <1>0 DEF vars
  <2> QED
    BY <1>7, <1>s, <2>1 DEF vars
<1> QED
  BY <1>0, <1>1, <1>2, <1>3, <1>4, <1>5, <1>6, <1>7, <1>s DEF Next

\* A sound registration is undone by nothing but the rival or a restart: no
\* answer that was late, no ping and no timer of the toy does it.
THEOREM SoundStays == Spec => StaysSound
<1>1. ASSUME Shape, [Next]_vars
      PROVE  [Sound /\ ~rival /\ ~Restart => Sound']_vars
  BY <1>1, SoundStep
<1>2. ASSUME Shape, [Next]_vars
      PROVE  Shape'
  BY <1>2, ShapeStep
<1>3. ASSUME Init
      PROVE  Shape
  BY <1>3, InitShape
<1> QED
  BY <1>1, <1>2, <1>3, PTL DEF Spec, StaysSound
=============================================================================
