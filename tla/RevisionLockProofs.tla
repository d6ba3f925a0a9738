------------------------- MODULE RevisionLockProofs -------------------------
(***************************************************************************)
(* LockInv is inductive for any finite set of reads and any set of writes. *)
(* Every method that can free the lock ends in drain(), so the argument    *)
(* goes through one lemma: drain() turns a state in which only NoLostWakeup *)
(* may fail into one in which everything holds. From it follow the order   *)
(* of the writers and the refinement of PublicationGate; what one method   *)
(* does to the calls is stated as lemmas for the users of the lock.        *)
(***************************************************************************)
EXTENDS RevisionLock, FiniteSetTheorems, SequenceTheorems, TLAPS

(* What holds of the state a method hands to drain(). *)
Consistent(rd, wr, queue, ph) ==
    /\ rd \in Nat
    /\ wr \in BOOLEAN
    /\ queue \in Seq(Writers)
    /\ ph \in [Calls -> Phases]
    /\ rd = Cardinality({r \in Readers : ph[r] = "holding"})
    /\ wr = ({w \in Writers : ph[w] = "holding"} # {})
    /\ waitingReaders = {r \in Readers : ph[r] = "waiting"}
    /\ {queue[i] : i \in DOMAIN queue} = {w \in Writers : ph[w] = "waiting"}
    /\ \A i, j \in DOMAIN queue : i # j => queue[i] # queue[j]
    /\ \A w \in Writers, c \in Calls :
          (ph[w] = "holding" /\ ph[c] = "holding") => c = w

LEMMA FiniteReaders ==
    ASSUME NEW S \in SUBSET Readers
    PROVE  IsFiniteSet(S) /\ Cardinality(S) \in Nat
  BY CallsAssumption, FS_Subset, FS_CardinalityType

(* The holders counted after the waiting readers have joined them. *)
LEMMA JoinHolders ==
    ASSUME NEW S \in SUBSET Readers, NEW T \in SUBSET Readers, S \cap T = {}
    PROVE  Cardinality(S \cup T) = Cardinality(S) + Cardinality(T)
  <1>1. IsFiniteSet(S) /\ IsFiniteSet(T)
    BY FiniteReaders
  <1>2. Cardinality(S \cup T) = Cardinality(S) + Cardinality(T) - Cardinality(S \cap T)
    BY <1>1, FS_Union
  <1>3. Cardinality(S \cap T) = 0
    BY FS_EmptySet
  <1> QED BY <1>2, <1>3, FiniteReaders

(* In a consistent state LockInv lacks nothing but NoLostWakeup. *)
LEMMA InvIsConsistent ==
    LockInv => Consistent(readers, writing, waitingWriters, phase)
  <1> SUFFICES ASSUME LockInv
               PROVE  Consistent(readers, writing, waitingWriters, phase)
    OBVIOUS
  <1>1. /\ readers \in Nat
        /\ writing \in BOOLEAN
        /\ waitingWriters \in Seq(Writers)
        /\ phase \in [Calls -> Phases]
    BY DEF LockInv, LockTypeOK
  <1>2. /\ readers = Cardinality({r \in Readers : phase[r] = "holding"})
        /\ writing = ({w \in Writers : phase[w] = "holding"} # {})
    BY DEF LockInv, WordMatchesHolders, Holding
  <1>3. /\ waitingReaders = {r \in Readers : phase[r] = "waiting"}
        /\ {waitingWriters[i] : i \in DOMAIN waitingWriters} = {w \in Writers : phase[w] = "waiting"}
        /\ \A i, j \in DOMAIN waitingWriters : i # j => waitingWriters[i] # waitingWriters[j]
    BY DEF LockInv, QueuesMatchWaiters, Waiting, ToSet
  <1>4. \A w \in Writers, c \in Calls :
           (phase[w] = "holding" /\ phase[c] = "holding") => c = w
    BY DEF LockInv, MutualExclusion, Holding
  <1> QED BY <1>1, <1>2, <1>3, <1>4 DEF Consistent

(* And with NoLostWakeup it is all of LockInv. *)
LEMMA ConsistentIsInv ==
    Consistent(readers, writing, waitingWriters, phase) /\ NoLostWakeup => LockInv
  <1> SUFFICES ASSUME Consistent(readers, writing, waitingWriters, phase), NoLostWakeup
               PROVE  LockInv
    OBVIOUS
  <1>1. LockTypeOK
    BY DEF LockTypeOK, Consistent
  <1>2. WordMatchesHolders
    BY DEF WordMatchesHolders, Holding, Consistent
  <1>3. QueuesMatchWaiters
    BY DEF QueuesMatchWaiters, Waiting, ToSet, Consistent
  <1>4. MutualExclusion
    BY DEF MutualExclusion, Holding, Consistent, Calls
  <1> QED BY <1>1, <1>2, <1>3, <1>4 DEF LockInv

(* drain() restores what a release or a timeout has broken. *)
LEMMA DrainRestores ==
    ASSUME NEW STATE rd, NEW STATE wr, NEW STATE queue, NEW STATE ph,
           Consistent(rd, wr, queue, ph),
           Drain(rd, wr, queue, ph)
    PROVE  LockInv'
  <1> USE DEF Calls, Phases
  <1>1. CASE wr \/ (queue # <<>> /\ rd > 0)
    <2>1. /\ readers' = rd /\ writing' = wr /\ waitingWriters' = queue
          /\ phase' = ph /\ waitingReaders' = waitingReaders
      BY <1>1 DEF Drain, Consistent
    <2>2. Consistent(readers, writing, waitingWriters, phase)'
      BY <2>1 DEF Consistent
    <2>3. NoLostWakeup'
      BY <1>1, <2>1 DEF NoLostWakeup, Consistent
    <2> QED BY <2>2, <2>3, ConsistentIsInv, PTL
  <1>2. CASE ~wr /\ queue # <<>> /\ rd = 0
    <2> DEFINE w0 == Head(queue)
    <2>1. /\ readers' = rd /\ writing' = TRUE /\ waitingWriters' = Tail(queue)
          /\ phase' = [ph EXCEPT ![w0] = "holding"]
          /\ waitingReaders' = waitingReaders
      BY <1>2 DEF Drain, Consistent
    <2>2. /\ queue \in Seq(Writers) /\ Len(queue) \in Nat \ {0}
          /\ w0 = queue[1] /\ w0 \in Writers /\ w0 \notin Readers
          /\ ph[w0] = "waiting" /\ w0 \in Calls
      BY <1>2, CallsAssumption DEF Consistent
    <2>3. /\ Tail(queue) \in Seq(Writers)
          /\ Len(Tail(queue)) = Len(queue) - 1
          /\ \A i \in 1 .. Len(queue) - 1 : Tail(queue)[i] = queue[i + 1]
      BY <2>2
    <2>4. {r \in Readers : phase'[r] = "holding"} = {r \in Readers : ph[r] = "holding"}
      BY <2>1, <2>2 DEF Consistent
    <2>5. {r \in Readers : phase'[r] = "waiting"} = {r \in Readers : ph[r] = "waiting"}
      BY <2>1, <2>2 DEF Consistent
    <2>6. {w \in Writers : phase'[w] = "waiting"}
              = {w \in Writers : ph[w] = "waiting"} \ {w0}
      BY <2>1, <2>2 DEF Consistent
    <2>7. {Tail(queue)[i] : i \in DOMAIN Tail(queue)}
              = {queue[i] : i \in DOMAIN queue} \ {w0}
      <3>1. \A i \in 1 .. Len(queue) - 1 : Tail(queue)[i] # w0
        BY <2>2, <2>3 DEF Consistent
      <3>2. \A i \in 1 .. Len(queue) :
                queue[i] # w0 => /\ i - 1 \in 1 .. Len(queue) - 1
                                 /\ Tail(queue)[i - 1] = queue[i]
        BY <2>2, <2>3
      <3>3. DOMAIN Tail(queue) = 1 .. Len(queue) - 1 /\ DOMAIN queue = 1 .. Len(queue)
        BY <2>2, <2>3
      <3>4. ASSUME NEW x \in {Tail(queue)[i] : i \in DOMAIN Tail(queue)}
            PROVE  x \in {queue[i] : i \in DOMAIN queue} \ {w0}
        <4>1. PICK i \in 1 .. Len(queue) - 1 : x = Tail(queue)[i]
          BY <3>3, <3>4
        <4>2. x = queue[i + 1] /\ i + 1 \in 1 .. Len(queue)
          BY <2>2, <2>3, <4>1
        <4> QED BY <3>1, <3>3, <4>1, <4>2
      <3>5. ASSUME NEW x \in {queue[i] : i \in DOMAIN queue}, x # w0
            PROVE  x \in {Tail(queue)[i] : i \in DOMAIN Tail(queue)}
        <4>1. PICK i \in 1 .. Len(queue) : x = queue[i]
          BY <3>3, <3>5
        <4> QED BY <3>2, <3>3, <3>5, <4>1
      <3> QED BY <3>4, <3>5
    <2>8. \A i, j \in DOMAIN Tail(queue) : i # j => Tail(queue)[i] # Tail(queue)[j]
      <3>1. DOMAIN Tail(queue) = 1 .. Len(queue) - 1
        BY <2>2, <2>3
      <3>2. \A i, j \in 1 .. Len(queue) : i # j => queue[i] # queue[j]
        BY <2>2 DEF Consistent
      <3> QED BY <2>2, <2>3, <3>1, <3>2
    <2>9. \A c \in Calls : ph[c] # "holding"
      <3>1. \A r \in Readers : ph[r] # "holding"
        <4> DEFINE H == {r \in Readers : ph[r] = "holding"}
        <4>1. Cardinality(H) = 0
          BY <1>2 DEF Consistent
        <4>2. IsFiniteSet(H)
          BY FiniteReaders
        <4>3. H = {}
          BY <4>1, <4>2, FS_EmptySet
        <4> QED BY <4>3
      <3>2. \A w \in Writers : ph[w] # "holding"
        BY <1>2 DEF Consistent
      <3> QED BY <3>1, <3>2
    <2>10. \A c \in Calls : phase'[c] = "holding" <=> c = w0
      BY <2>1, <2>2, <2>9 DEF Consistent
    <2>11. phase' \in [Calls -> Phases]
      BY <2>1 DEF Consistent
    <2>12. Consistent(readers, writing, waitingWriters, phase)'
      <3>1. /\ readers' = Cardinality({r \in Readers : phase'[r] = "holding"})
            /\ waitingReaders' = {r \in Readers : phase'[r] = "waiting"}
        BY <2>1, <2>4, <2>5 DEF Consistent
      <3>2. writing' = ({w \in Writers : phase'[w] = "holding"} # {})
        BY <2>1, <2>2, <2>10
      <3>3. {waitingWriters'[i] : i \in DOMAIN waitingWriters'}
                = {w \in Writers : phase'[w] = "waiting"}
        <4>1. {queue[i] : i \in DOMAIN queue} = {w \in Writers : ph[w] = "waiting"}
          BY DEF Consistent
        <4>2. {waitingWriters'[i] : i \in DOMAIN waitingWriters'}
                  = {Tail(queue)[i] : i \in DOMAIN Tail(queue)}
          BY <2>1
        <4> QED BY <2>6, <2>7, <4>1, <4>2
      <3>4. /\ readers' \in Nat /\ writing' \in BOOLEAN
            /\ waitingWriters' \in Seq(Writers)
        BY <2>1, <2>3 DEF Consistent
      <3>5. \A i, j \in DOMAIN waitingWriters' :
               i # j => waitingWriters'[i] # waitingWriters'[j]
        BY <2>1, <2>8
      <3>6. \A w \in Writers, c \in Calls :
               (phase'[w] = "holding" /\ phase'[c] = "holding") => c = w
        BY <2>10
      <3> QED BY <2>11, <3>1, <3>2, <3>3, <3>4, <3>5, <3>6 DEF Consistent
    <2>13. NoLostWakeup'
      BY <2>1 DEF NoLostWakeup
    <2> QED BY <2>12, <2>13, ConsistentIsInv, PTL
  <1>3. CASE ~wr /\ queue = <<>>
    <2>1. /\ readers' = rd + Cardinality(waitingReaders)
          /\ writing' = wr /\ waitingWriters' = queue /\ waitingReaders' = {}
          /\ phase' = [c \in Calls |-> IF c \in waitingReaders THEN "holding" ELSE ph[c]]
      BY <1>3 DEF Drain, Consistent
    <2>2. waitingReaders = {r \in Readers : ph[r] = "waiting"}
      BY DEF Consistent
    <2>3. {r \in Readers : phase'[r] = "holding"}
              = {r \in Readers : ph[r] = "holding"} \cup waitingReaders
      BY <2>1, <2>2
    <2>4. Cardinality({r \in Readers : phase'[r] = "holding"})
              = rd + Cardinality(waitingReaders)
      <3>1. {r \in Readers : ph[r] = "holding"} \cap waitingReaders = {}
        BY <2>2
      <3> QED BY <2>2, <2>3, <3>1, JoinHolders DEF Consistent
    <2>5. {r \in Readers : phase'[r] = "waiting"} = {}
      BY <2>1, <2>2
    <2>6. \A w \in Writers : phase'[w] = ph[w]
      BY <2>1, <2>2, CallsAssumption
    <2>7. phase' \in [Calls -> Phases]
      BY <2>1 DEF Consistent
    <2>8. \A w \in Writers : phase'[w] # "holding"
      BY <1>3, <2>6 DEF Consistent
    <2>9. readers' \in Nat
      BY <2>1, <2>2, FiniteReaders DEF Consistent
    <2>10. Consistent(readers, writing, waitingWriters, phase)'
      <3>1. /\ readers' = Cardinality({r \in Readers : phase'[r] = "holding"})
            /\ waitingReaders' = {r \in Readers : phase'[r] = "waiting"}
        BY <2>1, <2>4, <2>5
      <3>2. writing' = ({w \in Writers : phase'[w] = "holding"} # {})
        BY <1>3, <2>1, <2>8 DEF Consistent
      <3>3. {waitingWriters'[i] : i \in DOMAIN waitingWriters'}
                = {w \in Writers : phase'[w] = "waiting"}
        <4>1. {w \in Writers : phase'[w] = "waiting"} = {w \in Writers : ph[w] = "waiting"}
          BY <2>6
        <4> QED BY <2>1, <4>1 DEF Consistent
      <3>4. /\ writing' \in BOOLEAN /\ waitingWriters' \in Seq(Writers)
            /\ \A i, j \in DOMAIN waitingWriters' :
                  i # j => waitingWriters'[i] # waitingWriters'[j]
        BY <2>1 DEF Consistent
      <3>5. \A w \in Writers, c \in Calls :
               (phase'[w] = "holding" /\ phase'[c] = "holding") => c = w
        BY <2>8
      <3> QED BY <2>7, <2>9, <3>1, <3>2, <3>3, <3>4, <3>5 DEF Consistent
    <2>11. NoLostWakeup'
      BY <1>3, <2>1 DEF NoLostWakeup
    <2> QED BY <2>10, <2>11, ConsistentIsInv, PTL
  <1> QED BY <1>1, <1>2, <1>3 DEF Consistent, Drain

-----------------------------------------------------------------------------
(* One lemma per method. *)

LEMMA AcquireReadKeeps ==
    ASSUME LockInv, NEW r \in Readers, AcquireRead(r)
    PROVE  LockInv'
  <1> USE DEF Calls, Phases
  <1>0. Consistent(readers, writing, waitingWriters, phase)
    BY InvIsConsistent
  <1>a. phase[r] = "idle" /\ r \notin Writers /\ r \in Calls
    BY CallsAssumption DEF AcquireRead
  <1>1. CASE ReadFree
    <2>1. /\ readers' = readers + 1 /\ writing' = writing
          /\ waitingReaders' = waitingReaders /\ waitingWriters' = waitingWriters
          /\ phase' = [phase EXCEPT ![r] = "holding"]
      BY <1>1 DEF AcquireRead
    <2>2. {q \in Readers : phase'[q] = "holding"} = {q \in Readers : phase[q] = "holding"} \cup {r}
      BY <1>0, <2>1 DEF Consistent
    <2>3. Cardinality({q \in Readers : phase'[q] = "holding"}) = readers + 1
      <3> DEFINE H == {q \in Readers : phase[q] = "holding"}
      <3>1. IsFiniteSet(H) /\ r \notin H /\ readers = Cardinality(H)
        BY <1>0, <1>a, FiniteReaders DEF Consistent
      <3>2. Cardinality(H \cup {r}) = Cardinality(H) + 1
        BY <3>1, FS_AddElement
      <3> QED BY <2>2, <3>1, <3>2
    <2>4. {q \in Readers : phase'[q] = "waiting"} = {q \in Readers : phase[q] = "waiting"}
      BY <1>0, <1>a, <2>1 DEF Consistent
    <2>5. \A w \in Writers : phase'[w] = phase[w]
      BY <1>0, <1>a, <2>1 DEF Consistent
    <2>6. \A w \in Writers : phase[w] # "holding"
      BY <1>0, <1>1 DEF ReadFree, Consistent
    <2>7. phase' \in [Calls -> Phases] /\ readers' \in Nat
      BY <1>0, <2>1 DEF Consistent
    <2>8. {waitingWriters'[i] : i \in DOMAIN waitingWriters'} = {w \in Writers : phase'[w] = "waiting"}
      <3>1. {w \in Writers : phase'[w] = "waiting"} = {w \in Writers : phase[w] = "waiting"}
        BY <2>5
      <3> QED BY <1>0, <2>1, <3>1 DEF Consistent
    <2>9. Consistent(readers, writing, waitingWriters, phase)'
      BY <1>0, <2>1, <2>3, <2>4, <2>5, <2>6, <2>7, <2>8 DEF Consistent
    <2>10. NoLostWakeup'
      BY <1>1, <2>1 DEF LockInv, NoLostWakeup, ReadFree
    <2> QED BY <2>9, <2>10, ConsistentIsInv, PTL
  <1>2. CASE ~ReadFree
    <2>1. /\ readers' = readers /\ writing' = writing
          /\ waitingReaders' = waitingReaders \cup {r} /\ waitingWriters' = waitingWriters
          /\ phase' = [phase EXCEPT ![r] = "waiting"]
      BY <1>2 DEF AcquireRead
    <2>2. {q \in Readers : phase'[q] = "holding"} = {q \in Readers : phase[q] = "holding"}
      BY <1>0, <1>a, <2>1 DEF Consistent
    <2>3. {q \in Readers : phase'[q] = "waiting"} = {q \in Readers : phase[q] = "waiting"} \cup {r}
      BY <1>0, <2>1 DEF Consistent
    <2>4. \A w \in Writers : phase'[w] = phase[w]
      BY <1>0, <1>a, <2>1 DEF Consistent
    <2>5. {w \in Writers : phase'[w] = "waiting"} = {w \in Writers : phase[w] = "waiting"}
      BY <2>4
    <2>6. {w \in Writers : phase'[w] = "holding"} = {w \in Writers : phase[w] = "holding"}
      BY <2>4
    <2>7. phase' \in [Calls -> Phases]
      BY <1>0, <2>1 DEF Consistent
    <2>8. \A w \in Writers, c \in Calls :
             (phase'[w] = "holding" /\ phase'[c] = "holding") => c = w
      BY <1>0, <2>1, <2>4 DEF Consistent
    <2>9. Consistent(readers, writing, waitingWriters, phase)'
      <3>1. /\ readers' \in Nat /\ writing' \in BOOLEAN
            /\ waitingWriters' \in Seq(Writers)
            /\ \A i, j \in DOMAIN waitingWriters' :
                  i # j => waitingWriters'[i] # waitingWriters'[j]
        BY <1>0, <2>1 DEF Consistent
      <3>2. readers' = Cardinality({q \in Readers : phase'[q] = "holding"})
        BY <1>0, <2>1, <2>2 DEF Consistent
      <3>3. waitingReaders' = {q \in Readers : phase'[q] = "waiting"}
        BY <1>0, <2>1, <2>3 DEF Consistent
      <3>4. writing' = ({w \in Writers : phase'[w] = "holding"} # {})
        BY <1>0, <2>1, <2>6 DEF Consistent
      <3>5. {waitingWriters'[i] : i \in DOMAIN waitingWriters'}
                = {w \in Writers : phase'[w] = "waiting"}
        BY <1>0, <2>1, <2>5 DEF Consistent
      <3> QED BY <2>7, <2>8, <3>1, <3>2, <3>3, <3>4, <3>5 DEF Consistent
    <2>10. NoLostWakeup'
      BY <1>2, <2>1 DEF LockInv, NoLostWakeup, ReadFree
    <2> QED BY <2>9, <2>10, ConsistentIsInv, PTL
  <1> QED BY <1>1, <1>2

LEMMA AcquireWriteKeeps ==
    ASSUME LockInv, NEW w \in Writers, AcquireWrite(w)
    PROVE  LockInv'
  <1> USE DEF Calls, Phases
  <1>0. Consistent(readers, writing, waitingWriters, phase)
    BY InvIsConsistent
  <1>a. phase[w] = "idle" /\ w \notin Readers /\ w \in Calls
    BY CallsAssumption DEF AcquireWrite
  <1>b. \A r \in Readers : r # w
    BY <1>a
  <1>1. CASE WriteFree
    <2>1. /\ readers' = readers /\ writing' = TRUE
          /\ waitingReaders' = waitingReaders /\ waitingWriters' = waitingWriters
          /\ phase' = [phase EXCEPT ![w] = "holding"]
      BY <1>1 DEF AcquireWrite
    <2>2. \A r \in Readers : phase'[r] = phase[r]
      BY <1>0, <1>b, <2>1 DEF Consistent
    <2>3. /\ {r \in Readers : phase'[r] = "holding"} = {r \in Readers : phase[r] = "holding"}
          /\ {r \in Readers : phase'[r] = "waiting"} = {r \in Readers : phase[r] = "waiting"}
      BY <2>2
    <2>4. {v \in Writers : phase'[v] = "waiting"} = {v \in Writers : phase[v] = "waiting"}
      BY <1>0, <1>a, <2>1 DEF Consistent
    <2>5. \A c \in Calls : phase[c] # "holding"
      <3> DEFINE H == {r \in Readers : phase[r] = "holding"}
      <3>1. H = {}
        BY <1>0, <1>1, FiniteReaders, FS_EmptySet DEF Consistent, WriteFree
      <3>2. \A v \in Writers : phase[v] # "holding"
        BY <1>0, <1>1 DEF Consistent, WriteFree
      <3> QED BY <3>1, <3>2
    <2>6. \A c \in Calls : phase'[c] = "holding" <=> c = w
      BY <1>0, <1>a, <2>1, <2>5 DEF Consistent
    <2>7. writing' = ({v \in Writers : phase'[v] = "holding"} # {})
      BY <2>1, <2>6
    <2>8. phase' \in [Calls -> Phases]
      BY <1>0, <2>1 DEF Consistent
    <2>9. Consistent(readers, writing, waitingWriters, phase)'
      <3>1. /\ readers' \in Nat /\ writing' \in BOOLEAN
            /\ waitingWriters' \in Seq(Writers)
            /\ \A i, j \in DOMAIN waitingWriters' :
                  i # j => waitingWriters'[i] # waitingWriters'[j]
        BY <1>0, <2>1 DEF Consistent
      <3>2. /\ readers' = Cardinality({r \in Readers : phase'[r] = "holding"})
            /\ waitingReaders' = {r \in Readers : phase'[r] = "waiting"}
        BY <1>0, <2>1, <2>3 DEF Consistent
      <3>3. {waitingWriters'[i] : i \in DOMAIN waitingWriters'}
                = {v \in Writers : phase'[v] = "waiting"}
        BY <1>0, <2>1, <2>4 DEF Consistent
      <3>4. \A v \in Writers, c \in Calls :
               (phase'[v] = "holding" /\ phase'[c] = "holding") => c = v
        BY <2>6
      <3> QED BY <2>7, <2>8, <3>1, <3>2, <3>3, <3>4 DEF Consistent
    <2>10. NoLostWakeup'
      BY <2>1 DEF NoLostWakeup
    <2> QED BY <2>9, <2>10, ConsistentIsInv, PTL
  <1>2. CASE ~WriteFree
    <2>1. /\ readers' = readers /\ writing' = writing
          /\ waitingReaders' = waitingReaders
          /\ waitingWriters' = Append(waitingWriters, w)
          /\ phase' = [phase EXCEPT ![w] = "waiting"]
      BY <1>2 DEF AcquireWrite
    <2>2. \A r \in Readers : phase'[r] = phase[r]
      BY <1>0, <1>b, <2>1 DEF Consistent
    <2>3. /\ {r \in Readers : phase'[r] = "holding"} = {r \in Readers : phase[r] = "holding"}
          /\ {r \in Readers : phase'[r] = "waiting"} = {r \in Readers : phase[r] = "waiting"}
      BY <2>2
    <2>4. {v \in Writers : phase'[v] = "waiting"} = {v \in Writers : phase[v] = "waiting"} \cup {w}
      BY <1>0, <2>1 DEF Consistent
    <2>5. {v \in Writers : phase'[v] = "holding"} = {v \in Writers : phase[v] = "holding"}
      BY <1>0, <1>a, <2>1 DEF Consistent
    <2>6. phase' \in [Calls -> Phases]
      BY <1>0, <2>1 DEF Consistent
    <2> DEFINE n == Len(waitingWriters)
    <2>7. /\ waitingWriters \in Seq(Writers) /\ n \in Nat
          /\ waitingWriters' \in Seq(Writers)
          /\ DOMAIN waitingWriters = 1 .. n /\ DOMAIN waitingWriters' = 1 .. n + 1
          /\ waitingWriters'[n + 1] = w
          /\ \A i \in 1 .. n : waitingWriters'[i] = waitingWriters[i]
      BY <1>0, <2>1 DEF Consistent
    <2>8. \A i \in 1 .. n : phase[waitingWriters[i]] = "waiting"
      BY <1>0, <2>7 DEF Consistent
    <2>9. {waitingWriters'[i] : i \in DOMAIN waitingWriters'}
              = {waitingWriters[i] : i \in DOMAIN waitingWriters} \cup {w}
      <3>1. ASSUME NEW x \in {waitingWriters'[i] : i \in DOMAIN waitingWriters'}
            PROVE  x \in {waitingWriters[i] : i \in DOMAIN waitingWriters} \cup {w}
        <4>1. PICK i \in 1 .. n + 1 : x = waitingWriters'[i]
          BY <2>7, <3>1
        <4>2. CASE i = n + 1
          BY <2>7, <4>1, <4>2
        <4>3. CASE i # n + 1
          <5>1. i \in 1 .. n
            BY <2>7, <4>3
          <5> QED BY <2>7, <4>1, <5>1
        <4> QED BY <4>2, <4>3
      <3>2. ASSUME NEW x \in {waitingWriters[i] : i \in DOMAIN waitingWriters} \cup {w}
            PROVE  x \in {waitingWriters'[i] : i \in DOMAIN waitingWriters'}
        <4>1. n + 1 \in 1 .. n + 1 /\ \A i \in 1 .. n : i \in 1 .. n + 1
          BY <2>7
        <4> QED BY <2>7, <3>2, <4>1
      <3> QED BY <3>1, <3>2
    <2>10. \A i, j \in DOMAIN waitingWriters' :
              i # j => waitingWriters'[i] # waitingWriters'[j]
      <3>1. \A i, j \in 1 .. n : i # j => waitingWriters[i] # waitingWriters[j]
        BY <1>0, <2>7 DEF Consistent
      <3>2. \A i \in 1 .. n : waitingWriters[i] # w
        BY <1>a, <2>8
      <3>3. \A i \in 1 .. n + 1 : i = n + 1 \/ i \in 1 .. n
        BY <2>7
      <3> QED BY <2>7, <3>1, <3>2, <3>3
    <2>11. {waitingWriters'[i] : i \in DOMAIN waitingWriters'}
               = {v \in Writers : phase'[v] = "waiting"}
      BY <1>0, <2>4, <2>9 DEF Consistent
    <2>12. \A v \in Writers, c \in Calls :
              (phase'[v] = "holding" /\ phase'[c] = "holding") => c = v
      BY <1>0, <1>a, <2>1 DEF Consistent
    <2>13. Consistent(readers, writing, waitingWriters, phase)'
      BY <1>0, <2>1, <2>3, <2>5, <2>6, <2>7, <2>10, <2>11, <2>12 DEF Consistent
    <2>14. NoLostWakeup'
      <3>1. writing \/ readers > 0
        BY <1>0, <1>2 DEF WriteFree, LockInv, NoLostWakeup, Consistent
      <3>2. waitingWriters' # <<>>
        BY <2>7
      <3> QED BY <2>1, <3>1, <3>2 DEF NoLostWakeup
    <2> QED BY <2>13, <2>14, ConsistentIsInv, PTL
  <1> QED BY <1>1, <1>2

(* A repeated call of a release closure. *)
LEMMA StutterKeeps ==
    ASSUME LockInv, UNCHANGED lockVars
    PROVE  LockInv'
  <1>1. Consistent(readers, writing, waitingWriters, phase)'
    BY InvIsConsistent DEF Consistent, lockVars
  <1>2. NoLostWakeup'
    BY DEF LockInv, NoLostWakeup, lockVars
  <1> QED BY <1>1, <1>2, ConsistentIsInv, PTL

(* The states that a release and a timeout hand to drain(). *)
LEMMA ReadReleased ==
    ASSUME LockInv, NEW r \in Readers, phase[r] = "holding"
    PROVE  Consistent(readers - 1, writing, waitingWriters, [phase EXCEPT ![r] = "released"])
  <1> USE DEF Calls, Phases
  <1>0. Consistent(readers, writing, waitingWriters, phase)
    BY InvIsConsistent
  <1> DEFINE ph == [phase EXCEPT ![r] = "released"]
             H  == {q \in Readers : phase[q] = "holding"}
  <1>1. ph \in [Calls -> Phases] /\ \A c \in Calls : c # r => ph[c] = phase[c]
    BY <1>0 DEF Consistent
  <1>2. ph[r] = "released"
    BY <1>0 DEF Consistent
  <1>3. \A w \in Writers : ph[w] = phase[w]
    BY <1>1, CallsAssumption
  <1>4. /\ {q \in Readers : ph[q] = "holding"} = H \ {r}
        /\ {q \in Readers : ph[q] = "waiting"} = {q \in Readers : phase[q] = "waiting"}
    BY <1>1, <1>2
  <1>5. readers - 1 \in Nat /\ readers - 1 = Cardinality(H \ {r})
    <2>1. readers = Cardinality(H) /\ IsFiniteSet(H) /\ r \in H
      BY <1>0, FiniteReaders DEF Consistent
    <2>2. Cardinality(H \ {r}) = Cardinality(H) - 1
      BY <2>1, FS_RemoveElement
    <2>3. Cardinality(H \ {r}) \in Nat
      BY FiniteReaders
    <2> QED BY <2>1, <2>2, <2>3
  <1>6. /\ {w \in Writers : ph[w] = "holding"} = {w \in Writers : phase[w] = "holding"}
        /\ {w \in Writers : ph[w] = "waiting"} = {w \in Writers : phase[w] = "waiting"}
    BY <1>3
  <1>7. \A w \in Writers, c \in Calls : (ph[w] = "holding" /\ ph[c] = "holding") => c = w
    BY <1>0, <1>1, <1>2 DEF Consistent
  <1> HIDE DEF ph, H
  <1>8. Consistent(readers - 1, writing, waitingWriters, ph)
    BY <1>0, <1>1, <1>4, <1>5, <1>6, <1>7 DEF Consistent
  <1> QED BY <1>8 DEF ph

LEMMA WriteReleased ==
    ASSUME LockInv, NEW w \in Writers, phase[w] = "holding"
    PROVE  Consistent(readers, FALSE, waitingWriters, [phase EXCEPT ![w] = "released"])
  <1> USE DEF Calls, Phases
  <1>0. Consistent(readers, writing, waitingWriters, phase)
    BY InvIsConsistent
  <1> DEFINE ph == [phase EXCEPT ![w] = "released"]
  <1>1. ph \in [Calls -> Phases] /\ \A c \in Calls : c # w => ph[c] = phase[c]
    BY <1>0 DEF Consistent
  <1>2. ph[w] = "released"
    BY <1>0 DEF Consistent
  <1>3. \A r \in Readers : ph[r] = phase[r]
    BY <1>1, CallsAssumption
  <1>4. /\ {r \in Readers : ph[r] = "holding"} = {r \in Readers : phase[r] = "holding"}
        /\ {r \in Readers : ph[r] = "waiting"} = {r \in Readers : phase[r] = "waiting"}
    BY <1>3
  <1>5. {v \in Writers : ph[v] = "waiting"} = {v \in Writers : phase[v] = "waiting"}
    BY <1>1, <1>2
  <1>6. \A c \in Calls : ph[c] # "holding"
    BY <1>0, <1>1, <1>2 DEF Consistent
  <1>7. FALSE = ({v \in Writers : ph[v] = "holding"} # {})
    BY <1>6
  <1> HIDE DEF ph
  <1>8. Consistent(readers, FALSE, waitingWriters, ph)
    BY <1>0, <1>1, <1>4, <1>5, <1>6, <1>7 DEF Consistent
  <1> QED BY <1>8 DEF ph

LEMMA ReleaseReadKeeps ==
    ASSUME LockInv, NEW r \in Readers, ReleaseRead(r)
    PROVE  LockInv'
  <1> DEFINE ph == [phase EXCEPT ![r] = "released"]
  <1>1. CASE phase[r] = "holding"
    <2>1. Consistent(readers - 1, writing, waitingWriters, ph)
      BY <1>1, ReadReleased
    <2>2. Drain(readers - 1, writing, waitingWriters, ph)
      BY <1>1 DEF ReleaseRead
    <2> HIDE DEF ph
    <2> QED BY <2>1, <2>2, DrainRestores
  <1>2. CASE phase[r] = "released"
    BY <1>2, StutterKeeps DEF ReleaseRead
  <1> QED BY <1>1, <1>2 DEF ReleaseRead

LEMMA ReleaseWriteKeeps ==
    ASSUME LockInv, NEW w \in Writers, ReleaseWrite(w)
    PROVE  LockInv'
  <1> DEFINE ph == [phase EXCEPT ![w] = "released"]
  <1>1. CASE phase[w] = "holding"
    <2>1. Consistent(readers, FALSE, waitingWriters, ph)
      BY <1>1, WriteReleased
    <2>2. Drain(readers, FALSE, waitingWriters, ph)
      BY <1>1 DEF ReleaseWrite
    <2> HIDE DEF ph
    <2> QED BY <2>1, <2>2, DrainRestores
  <1>2. CASE phase[w] = "released"
    BY <1>2, StutterKeeps DEF ReleaseWrite
  <1> QED BY <1>1, <1>2 DEF ReleaseWrite

(* What splicing one writer out of the queue leaves. *)
LEMMA SpliceOut ==
    ASSUME NEW S, NEW s \in Seq(S), NEW k \in DOMAIN s,
           \A i, j \in DOMAIN s : i # j => s[i] # s[j]
    PROVE  /\ RemoveAt(s, k) \in Seq(S)
           /\ {RemoveAt(s, k)[i] : i \in DOMAIN RemoveAt(s, k)}
                  = {s[i] : i \in DOMAIN s} \ {s[k]}
           /\ \A i, j \in DOMAIN RemoveAt(s, k) : i # j => RemoveAt(s, k)[i] # RemoveAt(s, k)[j]
  <1> DEFINE t == RemoveAt(s, k)
             n == Len(s)
             old(i) == IF i < k THEN i ELSE i + 1
             new(i) == IF i < k THEN i ELSE i - 1
  <1>1. n \in Nat /\ DOMAIN s = 1 .. n /\ k \in 1 .. n
    OBVIOUS
  <1>2. /\ t \in Seq(S) /\ DOMAIN t = 1 .. n - 1
        /\ \A i \in 1 .. n - 1 : t[i] = s[old(i)]
    <2> DEFINE a == SubSeq(s, 1, k - 1)
               b == SubSeq(s, k + 1, n)
    <2>1. /\ a \in Seq(S) /\ Len(a) = k - 1
          /\ \A i \in 1 .. k - 1 : a[i] = s[i]
      BY <1>1
    <2>2. /\ b \in Seq(S) /\ Len(b) = n - k
          /\ \A i \in 1 .. n - k : b[i] = s[k + i]
      BY SMTT(40), <1>1
    <2>3. t = a \o b
      BY DEF RemoveAt
    <2> HIDE DEF a, b, t
    <2>4. t \in Seq(S) /\ Len(t) = n - 1
      <3>1. t \in Seq(S) /\ Len(t) = Len(a) + Len(b)
        BY <2>1, <2>2, <2>3, ConcatProperties
      <3> QED BY <1>1, <2>1, <2>2, <3>1
    <2>5. \A i \in 1 .. n - 1 : t[i] = s[old(i)]
      <3>1. ASSUME NEW i \in 1 .. n - 1, i < k PROVE t[i] = s[i]
        BY <1>1, <2>1, <2>2, <2>3, <3>1
      <3>2. ASSUME NEW i \in 1 .. n - 1, ~(i < k) PROVE t[i] = s[i + 1]
        <4>1. i - (k - 1) \in 1 .. n - k
          BY <1>1, <3>2
        <4>2. i \in 1 .. Len(a) + Len(b) /\ ~(i <= Len(a))
          BY <1>1, <2>1, <2>2, <3>2
        <4>3. t[i] = b[i - Len(a)]
          BY <2>1, <2>2, <2>3, <4>2, ConcatProperties
        <4>4. i - Len(a) = i - (k - 1)
          BY <2>1
        <4>5. k + (i - (k - 1)) = i + 1
          BY <1>1
        <4> QED BY <2>2, <4>1, <4>3, <4>4, <4>5
      <3> QED BY <1>1, <3>1, <3>2
    <2> QED BY <2>4, <2>5
  <1>3. \A i \in 1 .. n - 1 : old(i) \in 1 .. n /\ old(i) # k
    BY <1>1
  <1>4. \A i \in 1 .. n : i # k => new(i) \in 1 .. n - 1 /\ old(new(i)) = i
    BY <1>1
  <1>5. \A i, j \in 1 .. n - 1 : i # j => old(i) # old(j)
    BY <1>1
  <1> HIDE DEF t, old, new
  <1>6. {t[i] : i \in DOMAIN t} = {s[i] : i \in DOMAIN s} \ {s[k]}
    <2>1. ASSUME NEW x \in {t[i] : i \in DOMAIN t}
          PROVE  x \in {s[i] : i \in DOMAIN s} \ {s[k]}
      <3>1. PICK i \in 1 .. n - 1 : x = t[i]
        BY <1>2, <2>1
      <3>2. x = s[old(i)] /\ old(i) \in 1 .. n /\ old(i) # k
        BY <1>2, <1>3, <3>1
      <3> QED BY <1>1, <3>2
    <2>2. ASSUME NEW x \in {s[i] : i \in DOMAIN s}, x # s[k]
          PROVE  x \in {t[i] : i \in DOMAIN t}
      <3>1. PICK i \in 1 .. n : x = s[i]
        BY <1>1, <2>2
      <3>2. new(i) \in 1 .. n - 1 /\ t[new(i)] = x
        BY <1>2, <1>4, <2>2, <3>1
      <3> QED BY <1>2, <3>2
    <2> QED BY <2>1, <2>2
  <1>7. \A i, j \in DOMAIN t : i # j => t[i] # t[j]
    BY <1>1, <1>2, <1>3, <1>5
  <1> QED BY <1>2, <1>6, <1>7 DEF t

LEMMA WriteTimedOut ==
    ASSUME LockInv, NEW w \in Writers, phase[w] = "waiting",
           NEW k \in DOMAIN waitingWriters, waitingWriters[k] = w
    PROVE  Consistent(readers, writing, RemoveAt(waitingWriters, k), [phase EXCEPT ![w] = "failed"])
  <1> USE DEF Calls, Phases
  <1>0. Consistent(readers, writing, waitingWriters, phase)
    BY InvIsConsistent
  <1> DEFINE ph == [phase EXCEPT ![w] = "failed"]
  <1> DEFINE queue == RemoveAt(waitingWriters, k)
  <1>1. /\ ph \in [Calls -> Phases] /\ ph[w] = "failed"
        /\ \A c \in Calls : c # w => ph[c] = phase[c]
    BY <1>0 DEF Consistent
  <1>2. \A r \in Readers : ph[r] = phase[r]
    BY <1>1, CallsAssumption
  <1>3. /\ queue \in Seq(Writers)
        /\ {queue[i] : i \in DOMAIN queue}
               = {waitingWriters[i] : i \in DOMAIN waitingWriters} \ {w}
        /\ \A i, j \in DOMAIN queue : i # j => queue[i] # queue[j]
    <2>1. /\ waitingWriters \in Seq(Writers)
          /\ \A i, j \in DOMAIN waitingWriters : i # j => waitingWriters[i] # waitingWriters[j]
      BY <1>0 DEF Consistent
    <2> QED BY ZenonT(40), <2>1, SpliceOut
  <1> HIDE DEF ph, queue
  <1>4. /\ {r \in Readers : ph[r] = "holding"} = {r \in Readers : phase[r] = "holding"}
        /\ {r \in Readers : ph[r] = "waiting"} = {r \in Readers : phase[r] = "waiting"}
    BY <1>2
  <1>5. /\ {v \in Writers : ph[v] = "holding"} = {v \in Writers : phase[v] = "holding"}
        /\ {v \in Writers : ph[v] = "waiting"} = {v \in Writers : phase[v] = "waiting"} \ {w}
    BY <1>1
  <1>6. {queue[i] : i \in DOMAIN queue} = {v \in Writers : ph[v] = "waiting"}
    <2>1. {waitingWriters[i] : i \in DOMAIN waitingWriters} = {v \in Writers : phase[v] = "waiting"}
      BY <1>0 DEF Consistent
    <2> QED BY <1>3, <1>5, <2>1
  <1>7. \A v \in Writers, c \in Calls : (ph[v] = "holding" /\ ph[c] = "holding") => c = v
    BY <1>0, <1>1 DEF Consistent
  <1>8. Consistent(readers, writing, queue, ph)
    BY <1>0, <1>1, <1>3, <1>4, <1>5, <1>6, <1>7 DEF Consistent
  <1> QED BY <1>8 DEF ph, queue

LEMMA WriteTimeoutKeeps ==
    ASSUME LockInv, NEW w \in Writers, WriteTimeout(w)
    PROVE  LockInv'
  <1> DEFINE ph == [phase EXCEPT ![w] = "failed"]
  <1>1. PICK k \in DOMAIN waitingWriters :
            /\ waitingWriters[k] = w
            /\ Drain(readers, writing, RemoveAt(waitingWriters, k), ph)
    BY DEF WriteTimeout
  <1> DEFINE queue == RemoveAt(waitingWriters, k)
  <1>2. Consistent(readers, writing, queue, ph)
    BY <1>1, WriteTimedOut DEF WriteTimeout
  <1>3. Drain(readers, writing, queue, ph)
    BY <1>1
  <1> HIDE DEF ph, queue
  <1> QED BY <1>2, <1>3, DrainRestores

LEMMA LockStepKeeps ==
    ASSUME LockInv, [LockNext]_lockVars
    PROVE  LockInv'
  <1>1. CASE \E r \in Readers : AcquireRead(r)
    BY <1>1, AcquireReadKeeps
  <1>2. CASE \E r \in Readers : ReleaseRead(r)
    BY <1>2, ReleaseReadKeeps
  <1>3. CASE \E w \in Writers : AcquireWrite(w)
    BY <1>3, AcquireWriteKeeps
  <1>4. CASE \E w \in Writers : ReleaseWrite(w)
    BY <1>4, ReleaseWriteKeeps
  <1>5. CASE \E w \in Writers : WriteTimeout(w)
    BY <1>5, WriteTimeoutKeeps
  <1>6. CASE UNCHANGED lockVars
    BY <1>6, StutterKeeps
  <1> QED BY <1>1, <1>2, <1>3, <1>4, <1>5, <1>6 DEF LockNext

LEMMA InitHolds ==
    ASSUME LockInit
    PROVE  LockInv
  <1>1. \A c \in Calls : phase[c] = "idle"
    BY DEF LockInit
  <1>2. {r \in Readers : phase[r] = "holding"} = {}
    BY <1>1 DEF Calls
  <1>3. Cardinality({r \in Readers : phase[r] = "holding"}) = 0
    BY <1>2, FS_EmptySet
  <1>4. /\ {w \in Writers : phase[w] = "holding"} = {}
        /\ {w \in Writers : phase[w] = "waiting"} = {}
        /\ {r \in Readers : phase[r] = "waiting"} = {}
    BY <1>1 DEF Calls
  <1>5. {waitingWriters[i] : i \in DOMAIN waitingWriters} = {}
    BY DEF LockInit
  <1>6. Consistent(readers, writing, waitingWriters, phase)
    <2>1. /\ readers = 0 /\ writing = FALSE
          /\ waitingReaders = {} /\ waitingWriters = <<>>
          /\ phase \in [Calls -> Phases]
      BY DEF LockInit, Phases
    <2>2. \A w \in Writers, c \in Calls :
             (phase[w] = "holding" /\ phase[c] = "holding") => c = w
      BY <1>1
    <2>3. /\ waitingWriters \in Seq(Writers)
          /\ \A i, j \in DOMAIN waitingWriters : i # j => waitingWriters[i] # waitingWriters[j]
      BY <2>1
    <2> QED BY <1>3, <1>4, <1>5, <2>1, <2>2, <2>3 DEF Consistent
  <1>7. NoLostWakeup
    BY DEF LockInit, NoLostWakeup
  <1> QED BY <1>6, <1>7, ConsistentIsInv

-----------------------------------------------------------------------------
(* LockInv holds of every execution, for any finite set of reads and any   *)
(* set of writes: the counter, the flag and the queues of                  *)
(* PublishedRevisionLock always describe who holds it and who waits.       *)
THEOREM LockInvariant == LockSpec => []LockInv
  <1> QED BY InitHolds, LockStepKeeps, PTL DEF LockSpec

(* A refresh that publishes is alone, whatever the number of reads and     *)
(* refreshes and however they time out: no handler reads a revision that   *)
(* is being replaced.                                                      *)
THEOREM PublishingIsExclusive == LockSpec => []MutualExclusion
  <1>1. LockInv => MutualExclusion
    BY DEF LockInv
  <1> QED BY <1>1, LockInvariant, PTL

-----------------------------------------------------------------------------
(* The lock as its callers see it. *)

(* drain() lets waiting calls in and does nothing else to a call: readers   *)
(* only when no writer waits, of the writers only the first of the queue.   *)
LetsIn(free, queue, ph) ==
    /\ \A c \in Calls : phase'[c] = ph[c] \/ (ph[c] = "waiting" /\ phase'[c] = "holding")
    /\ \A r \in Readers : phase'[r] # ph[r] => waitingWriters' = <<>>
    /\ \A w \in Writers : phase'[w] # ph[w] => free /\ w = Head(queue) /\ queue # <<>>

LEMMA DrainLetsIn ==
    ASSUME NEW STATE rd, NEW STATE wr, NEW STATE queue, NEW STATE ph,
           Consistent(rd, wr, queue, ph),
           Drain(rd, wr, queue, ph)
    PROVE  LetsIn(~wr /\ rd = 0, queue, ph)
  <1> USE DEF Calls, LetsIn
  <1>1. CASE wr \/ (queue # <<>> /\ rd > 0)
    <2>1. phase' = ph
      BY <1>1 DEF Drain, Consistent
    <2> QED BY <2>1
  <1>2. CASE ~wr /\ queue # <<>> /\ rd = 0
    <2>1. phase' = [ph EXCEPT ![Head(queue)] = "holding"]
      BY <1>2 DEF Drain, Consistent
    <2>2. /\ Head(queue) = queue[1] /\ 1 \in DOMAIN queue
          /\ ph \in [Calls -> Phases]
      BY <1>2 DEF Consistent
    <2>3. Head(queue) \in Writers /\ ph[Head(queue)] = "waiting"
      BY <2>2 DEF Consistent
    <2> QED BY <1>2, <2>1, <2>2, <2>3, CallsAssumption
  <1>3. CASE ~wr /\ queue = <<>>
    <2>1. /\ waitingWriters' = queue
          /\ phase' = [c \in Calls |-> IF c \in waitingReaders THEN "holding" ELSE ph[c]]
      BY <1>3 DEF Drain, Consistent
    <2>2. waitingReaders = {r \in Readers : ph[r] = "waiting"}
      BY DEF Consistent
    <2> QED BY <1>3, <2>1, <2>2, CallsAssumption
  <1> QED BY <1>1, <1>2, <1>3 DEF Consistent, Drain

(* How far one step of the lock moves each call. *)
Moves ==
    /\ \A c \in Calls : phase'[c] = phase[c] \/ phase'[c] \in Gate!Successors(c, phase[c])
    /\ \A r \in Readers :
          phase[r] # "holding" /\ phase'[r] = "holding" => waitingWriters' = <<>>
    /\ \A i, j \in DOMAIN waitingWriters :
          i < j /\ phase'[waitingWriters[j]] = "holding" => phase'[waitingWriters[i]] # "waiting"

(* A step that only sets the phase of a call which is not queued. *)
LEMMA AcquireMoves ==
    ASSUME LockInv,
           (\E r \in Readers : AcquireRead(r)) \/ (\E w \in Writers : AcquireWrite(w))
    PROVE  Moves
  <1>0. Consistent(readers, writing, waitingWriters, phase)
    BY InvIsConsistent
  <1>1. PICK d \in Calls, p \in {"waiting", "holding"} :
            /\ phase[d] = "idle" /\ phase' = [phase EXCEPT ![d] = p]
            /\ d \in Readers /\ p = "holding" => waitingWriters' = <<>>
    <2>1. ASSUME NEW r \in Readers, AcquireRead(r)
          PROVE  \E p \in {"waiting", "holding"} :
                    /\ phase[r] = "idle" /\ phase' = [phase EXCEPT ![r] = p]
                    /\ p = "holding" => waitingWriters' = <<>>
      BY <2>1 DEF AcquireRead, ReadFree
    <2>2. ASSUME NEW w \in Writers, AcquireWrite(w)
          PROVE  \E p \in {"waiting", "holding"} :
                    phase[w] = "idle" /\ phase' = [phase EXCEPT ![w] = p]
      BY <2>2 DEF AcquireWrite
    <2> QED BY <2>1, <2>2, CallsAssumption DEF Calls
  <1>2. /\ phase \in [Calls -> Phases]
        /\ \A i \in DOMAIN waitingWriters : waitingWriters[i] \in Calls /\ phase[waitingWriters[i]] = "waiting"
    BY <1>0 DEF Consistent, Calls
  <1>3. \A c \in Calls : phase'[c] = IF c = d THEN p ELSE phase[c]
    BY <1>1, <1>2
  <1>4. p \in Gate!Successors(d, phase[d])
    BY <1>1 DEF Gate!Successors
  <1> QED BY <1>1, <1>2, <1>3, <1>4 DEF Moves, Calls

(* A release. *)
LEMMA ReleaseMoves ==
    ASSUME LockInv, NEW d \in Calls, phase[d] = "holding",
           NEW free, LetsIn(free, waitingWriters, [phase EXCEPT ![d] = "released"])
    PROVE  Moves
  <1> DEFINE ph == [phase EXCEPT ![d] = "released"]
  <1>1. /\ \A c \in Calls : phase'[c] = ph[c] \/ (ph[c] = "waiting" /\ phase'[c] = "holding")
        /\ \A r \in Readers : phase'[r] # ph[r] => waitingWriters' = <<>>
        /\ \A w \in Writers : phase'[w] # ph[w] => w = Head(waitingWriters)
    BY DEF LetsIn
  <1>2. /\ phase \in [Calls -> Phases] /\ waitingWriters \in Seq(Writers)
        /\ \A i, j \in DOMAIN waitingWriters : i # j => waitingWriters[i] # waitingWriters[j]
        /\ \A i \in DOMAIN waitingWriters :
              waitingWriters[i] \in Writers /\ ph[waitingWriters[i]] = "waiting"
    BY InvIsConsistent DEF Consistent
  <1>3. \A c \in Calls : ph[c] = IF c = d THEN "released" ELSE phase[c]
    BY <1>2
  <1>4. \A c \in Calls : phase'[c] = phase[c] \/ phase'[c] \in Gate!Successors(c, phase[c])
    BY <1>1, <1>3 DEF Gate!Successors
  <1>5. \A r \in Readers : phase[r] # "holding" /\ phase'[r] = "holding" => waitingWriters' = <<>>
    BY <1>1, <1>3 DEF Calls
  <1>6. ASSUME NEW i \in DOMAIN waitingWriters, NEW j \in DOMAIN waitingWriters,
               i < j, phase'[waitingWriters[j]] = "holding"
        PROVE  FALSE
    <2>1. waitingWriters[j] = Head(waitingWriters)
      BY <1>1, <1>2, <1>6
    <2>2. Head(waitingWriters) = waitingWriters[1] /\ 1 \in DOMAIN waitingWriters /\ j # 1
      BY <1>2, <1>6
    <2> QED BY <1>2, <2>1, <2>2
  <1> QED BY <1>4, <1>5, <1>6 DEF Moves

(* While a writer waits somebody holds the lock, so its timeout lets no    *)
(* other writer in.                                                        *)
LEMMA TimeoutMoves ==
    ASSUME LockInv, NEW w \in Writers, WriteTimeout(w)
    PROVE  Moves
  <1> DEFINE ph == [phase EXCEPT ![w] = "failed"]
  <1>1. PICK k \in DOMAIN waitingWriters :
            /\ waitingWriters[k] = w
            /\ Drain(readers, writing, RemoveAt(waitingWriters, k), ph)
    BY DEF WriteTimeout
  <1> DEFINE queue == RemoveAt(waitingWriters, k)
  <1>2. phase[w] = "waiting"
    BY DEF WriteTimeout
  <1>3. Consistent(readers, writing, queue, ph)
    BY <1>1, <1>2, WriteTimedOut
  <1>4. Drain(readers, writing, queue, ph)
    BY <1>1
  <1>5. /\ phase \in [Calls -> Phases] /\ waitingWriters \in Seq(Writers)
        /\ readers \in Nat /\ writing \in BOOLEAN
        /\ \A i \in DOMAIN waitingWriters :
              waitingWriters[i] \in Writers /\ phase[waitingWriters[i]] = "waiting"
    BY InvIsConsistent DEF Consistent
  <1>6. \A c \in Calls : ph[c] = IF c = w THEN "failed" ELSE phase[c]
    BY <1>5
  <1>7. writing \/ readers > 0
    <2>1. waitingWriters # <<>>
      BY <1>1
    <2> QED BY <2>1 DEF LockInv, NoLostWakeup
  <1> HIDE DEF ph, queue
  <1>8. /\ \A c \in Calls : phase'[c] = ph[c] \/ (ph[c] = "waiting" /\ phase'[c] = "holding")
        /\ \A r \in Readers : phase'[r] # ph[r] => waitingWriters' = <<>>
        /\ \A v \in Writers : phase'[v] # ph[v] => ~writing /\ readers = 0
    BY <1>3, <1>4, DrainLetsIn DEF LetsIn
  <1>9. \A v \in Writers : phase'[v] = ph[v]
    BY <1>5, <1>7, <1>8
  <1>10. \A c \in Calls : phase'[c] = phase[c] \/ phase'[c] \in Gate!Successors(c, phase[c])
    BY <1>2, <1>6, <1>8 DEF Gate!Successors
  <1>11. \A r \in Readers : phase[r] # "holding" /\ phase'[r] = "holding" => waitingWriters' = <<>>
    BY <1>6, <1>8 DEF Calls
  <1>12. \A j \in DOMAIN waitingWriters : phase'[waitingWriters[j]] # "holding"
    BY <1>5, <1>6, <1>9 DEF Calls
  <1> QED BY <1>10, <1>11, <1>12 DEF Moves

LEMMA EveryStepMoves ==
    ASSUME LockInv, [LockNext]_lockVars
    PROVE  Moves
  <1>1. CASE UNCHANGED lockVars
    <2>1. /\ phase' = phase /\ waitingWriters' = waitingWriters
          /\ \A i \in DOMAIN waitingWriters : phase[waitingWriters[i]] = "waiting"
      BY <1>1, InvIsConsistent DEF lockVars, Consistent
    <2> QED BY <2>1 DEF Moves
  <1>2. CASE (\E r \in Readers : AcquireRead(r)) \/ (\E w \in Writers : AcquireWrite(w))
    BY <1>2, AcquireMoves
  <1>3. ASSUME NEW r \in Readers, ReleaseRead(r)
        PROVE  Moves
    <2>1. CASE phase[r] = "holding"
      <3>1. Drain(readers - 1, writing, waitingWriters, [phase EXCEPT ![r] = "released"])
        BY <1>3, <2>1 DEF ReleaseRead
      <3>2. LetsIn(~writing /\ readers - 1 = 0, waitingWriters, [phase EXCEPT ![r] = "released"])
        BY <2>1, <3>1, ReadReleased, DrainLetsIn
      <3> QED BY <2>1, <3>2, ReleaseMoves DEF Calls
    <2> QED BY <1>1, <1>3, <2>1 DEF ReleaseRead
  <1>4. ASSUME NEW w \in Writers, ReleaseWrite(w)
        PROVE  Moves
    <2>1. CASE phase[w] = "holding"
      <3>1. Drain(readers, FALSE, waitingWriters, [phase EXCEPT ![w] = "released"])
        BY <1>4, <2>1 DEF ReleaseWrite
      <3>2. LetsIn(~FALSE /\ readers = 0, waitingWriters, [phase EXCEPT ![w] = "released"])
        BY <2>1, <3>1, WriteReleased, DrainLetsIn
      <3> QED BY <2>1, <3>2, ReleaseMoves DEF Calls
    <2> QED BY <1>1, <1>4, <2>1 DEF ReleaseWrite
  <1> QED BY <1>1, <1>2, <1>3, <1>4, TimeoutMoves DEF LockNext

(* Refreshes publish in the order in which they asked to: whatever is      *)
(* released or times out, a queued writer is let in only when every one    *)
(* queued before it is settled (the push and shift of waitingWriters).     *)
THEOREM RefreshesQueue == LockSpec => WritersInOrder
  <1>1. LockInv /\ [LockNext]_lockVars =>
            [\A i, j \in DOMAIN waitingWriters :
                (i < j /\ phase'[waitingWriters[j]] = "holding")
                    => phase'[waitingWriters[i]] # "waiting"]_lockVars
    BY EveryStepMoves DEF Moves
  <1> QED BY <1>1, LockInvariant, PTL DEF LockSpec, WritersInOrder

(* The counter, the flag and the queues of PublishedRevisionLock keep the  *)
(* promise of PublicationGate: every step of the lock is one of the gate,  *)
(* which excludes everybody from a publication, lets no read overtake a    *)
(* waiting refresh and leaves nobody waiting for a lock that is free.      *)
THEOREM LockIsGate == LockSpec => ImplementsGate
  <1>1. LockInit => Gate!GateInit
    BY DEF LockInit, Gate!GateInit, Calls, Gate!Calls
  <1>2. LockInv /\ LockInv' /\ [LockNext]_lockVars => [Gate!GateNext]_phase
    <2> SUFFICES ASSUME LockInv, LockInv', [LockNext]_lockVars
                 PROVE  Gate!GateNext
      OBVIOUS
    <2> USE DEF Gate!Calls, Calls, Gate!In
    <2>1. Moves
      BY EveryStepMoves
    <2>2. phase' \in [Calls -> Phases]
      BY DEF LockInv, LockTypeOK
    <2>3. Gate!Exclusive(phase')
      BY DEF LockInv, MutualExclusion, Holding, Gate!Exclusive
    <2>4. Gate!WorkConserving(phase')
      <3> SUFFICES ASSUME \A c \in Calls : phase'[c] # "holding"
                   PROVE  \A c \in Calls : phase'[c] # "waiting"
        BY DEF Gate!WorkConserving
      <3>1. Holding(Readers)' = {} /\ Holding(Writers)' = {}
        BY DEF Holding
      <3>2. readers' = 0 /\ writing' = FALSE
        BY <3>1, FS_EmptySet DEF LockInv, WordMatchesHolders
      <3>3. waitingWriters' = <<>> /\ waitingReaders' = {}
        BY <3>2 DEF LockInv, NoLostWakeup
      <3> QED BY <3>3 DEF LockInv, QueuesMatchWaiters, Waiting, ToSet
    <2>5. Gate!NoOvertaking(phase, phase')
      <3> SUFFICES ASSUME NEW r \in Readers, phase[r] # "holding", phase'[r] = "holding"
                   PROVE  \A w \in Writers : phase'[w] # "waiting"
        BY DEF Gate!NoOvertaking
      <3>1. waitingWriters' = <<>>
        BY <2>1 DEF Moves
      <3> QED BY <3>1 DEF LockInv, QueuesMatchWaiters, Waiting, ToSet
    <2> QED BY <2>1, <2>2, <2>3, <2>4, <2>5 DEF Gate!GateNext, Gate!Phases, Phases, Moves
  <1> QED BY <1>1, <1>2, LockInvariant, PTL DEF LockSpec, ImplementsGate, Gate!GateSpec

-----------------------------------------------------------------------------
(* What one call of a method does to the calls, for whoever builds on the    *)
(* lock: the call itself becomes p, and others are let in at most.           *)
Only(c, p) ==
    /\ phase'[c] = p
    /\ \A d \in Calls : d # c => \/ phase'[d] = phase[d]
                                 \/ phase[d] = "waiting" /\ phase'[d] = "holding"

LEMMA ReadAsked ==
    ASSUME LockInv, NEW r \in Readers, AcquireRead(r)
    PROVE  phase[r] = "idle" /\ (Only(r, "waiting") \/ Only(r, "holding"))
  <1>1. phase \in [Calls -> Phases] /\ r \in Calls
    BY InvIsConsistent DEF Consistent, Calls
  <1>2. phase[r] = "idle"
        /\ (phase' = [phase EXCEPT ![r] = "holding"] \/ phase' = [phase EXCEPT ![r] = "waiting"])
    BY DEF AcquireRead
  <1> QED BY <1>1, <1>2 DEF Only

LEMMA WriteAsked ==
    ASSUME LockInv, NEW w \in Writers, AcquireWrite(w)
    PROVE  phase[w] = "idle" /\ (Only(w, "waiting") \/ Only(w, "holding"))
  <1>1. phase \in [Calls -> Phases] /\ w \in Calls
    BY InvIsConsistent DEF Consistent, Calls
  <1>2. phase[w] = "idle"
        /\ (phase' = [phase EXCEPT ![w] = "holding"] \/ phase' = [phase EXCEPT ![w] = "waiting"])
    BY DEF AcquireWrite
  <1> QED BY <1>1, <1>2 DEF Only

(* drain() after the call c has left with phase p. *)
LEMMA DrainIsOnly ==
    ASSUME LockInv, NEW c \in Calls, NEW p, p # "waiting",
           NEW free, NEW STATE queue, LetsIn(free, queue, [phase EXCEPT ![c] = p])
    PROVE  Only(c, p)
  <1>1. phase \in [Calls -> Phases]
    BY InvIsConsistent DEF Consistent
  <1>2. \A d \in Calls : \/ phase'[d] = [phase EXCEPT ![c] = p][d]
                         \/ [phase EXCEPT ![c] = p][d] = "waiting" /\ phase'[d] = "holding"
    BY DEF LetsIn
  <1> QED BY <1>1, <1>2 DEF Only

LEMMA ReadGivenBack ==
    ASSUME LockInv, NEW r \in Readers, phase[r] = "holding", ReleaseRead(r)
    PROVE  Only(r, "released")
  <1>1. Drain(readers - 1, writing, waitingWriters, [phase EXCEPT ![r] = "released"])
    BY DEF ReleaseRead
  <1>2. LetsIn(~writing /\ readers - 1 = 0, waitingWriters, [phase EXCEPT ![r] = "released"])
    BY <1>1, ReadReleased, DrainLetsIn
  <1> QED BY <1>2, DrainIsOnly DEF Calls

LEMMA WriteGivenBack ==
    ASSUME LockInv, NEW w \in Writers, phase[w] = "holding", ReleaseWrite(w)
    PROVE  Only(w, "released")
  <1>1. Drain(readers, FALSE, waitingWriters, [phase EXCEPT ![w] = "released"])
    BY DEF ReleaseWrite
  <1>2. LetsIn(~FALSE /\ readers = 0, waitingWriters, [phase EXCEPT ![w] = "released"])
    BY <1>1, WriteReleased, DrainLetsIn
  <1> QED BY <1>2, DrainIsOnly DEF Calls

LEMMA WriteGivenUp ==
    ASSUME LockInv, NEW w \in Writers, WriteTimeout(w)
    PROVE  phase[w] = "waiting" /\ Only(w, "failed")
  <1>1. PICK k \in DOMAIN waitingWriters :
            /\ waitingWriters[k] = w
            /\ Drain(readers, writing, RemoveAt(waitingWriters, k), [phase EXCEPT ![w] = "failed"])
    BY DEF WriteTimeout
  <1>2. phase[w] = "waiting"
    BY DEF WriteTimeout
  <1>3. Consistent(readers, writing, RemoveAt(waitingWriters, k), [phase EXCEPT ![w] = "failed"])
    BY <1>1, <1>2, WriteTimedOut
  <1>4. LetsIn(~writing /\ readers = 0, RemoveAt(waitingWriters, k), [phase EXCEPT ![w] = "failed"])
    BY <1>1, <1>3, DrainLetsIn
  <1> QED BY <1>2, <1>4, DrainIsOnly DEF Calls
=============================================================================
