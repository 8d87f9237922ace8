-------------------------- MODULE PropertiesProofs --------------------------
(***************************************************************************)
(* System properties and a reader of them.  The proof that                 *)
(* __system_property_get returns no torn value, for any number of readers, *)
(* properties and writes, any length of the values and any even size of    *)
(* the counter in the serial numbers.  Then proofs about the resolver      *)
(* state of a thread, which follows the net.dns properties, and about      *)
(* res_nsend, for any number of name servers, of tries and of changes of   *)
(* the properties.                                                         *)
(***************************************************************************)
EXTENDS SystemProperties, ResSend, FiniteSetTheorems, TLAPS

Steps == {"idle", "find", "load", "futex", "asleep", "copy", "found", "notfound",
          "waitfutex", "waitasleep", "waitload", "changed"}

Serials == [len : 0 .. MaxLen, n : 0 .. SerialSize - 1]

Values == [1 .. MaxLen -> Nat]

ReaderStates ==
  [pc : Steps, name : Names \cup {None}, index : Nat, limit : Nat,
   seen : Serials, since : Nat, buf : Values, next : Nat]

\* The types the argument needs; it does not need MaxWrites.
Types ==
  /\ toc \in Seq(Names)
  /\ serial \in [Props \cup {Area} -> Serials]
  /\ value \in [Props -> Values]
  /\ log \in [Props -> Seq(1 .. MaxLen)]
  /\ w \in [pc : {"idle", "copy", "wake", "area", "areawake"}, prop : Props \cup {Area},
            len : 0 .. MaxLen, next : Nat]
  /\ rd \in [Readers -> ReaderStates]

\* No name is in the table twice, so that the table has room for every name.
Listed == {toc[j] : j \in 1 .. Len(toc)}

TocFits == Cardinality(Listed) = Len(toc) /\ Len(toc) <= Cardinality(Names)

\* The writer is in the middle of a write of property i.
Busy(i) == w.pc = "copy" /\ w.prop = i

WriterFits ==
  w.pc = "copy" => w.prop \in 1 .. Len(toc) /\ w.len \in 1 .. MaxLen /\ w.next >= 1

\* The serial number of a property is odd exactly while it is written; the words
\* are those of the last finished write, or of this one as far as it has come.
Settled(i) ==
  /\ Len(log[i]) >= 1
  /\ serial[i].len = log[i][Len(log[i])]
  /\ SERIAL_DIRTY(serial[i]) <=> Busy(i)
  /\ ~Busy(i) => \A k \in 1 .. serial[i].len : value[i][k] = Len(log[i])
  /\ Busy(i) => \A k \in 1 .. w.len : k < w.next => value[i][k] = Len(log[i]) + 1

PropsSettled ==
  /\ \A i \in 1 .. Len(toc) : Settled(i)
  /\ \A i \in Props : i > Len(toc) => serial[i].n = 0

\* How far the counter of property i has moved since its write number g was done.
Moved(i, g) == 2 * (Len(log[i]) - g) + (IF Busy(i) THEN 1 ELSE 0)

\* What a reader x in the middle of a copy knows: the counter has not come round,
\* and if it has not moved, the words copied are those of write number x.since.
CopyOK(x) ==
  /\ x.since \in 1 .. Len(log[x.index])
  /\ x.seen.len = log[x.index][x.since]
  /\ x.next >= 1
  /\ Moved(x.index, x.since) < SerialSize
  /\ serial[x.index].n \in {x.seen.n + Moved(x.index, x.since),
                            x.seen.n + Moved(x.index, x.since) - SerialSize}
  /\ Moved(x.index, x.since) = 0 =>
       \A k \in 1 .. x.seen.len : k < x.next => x.buf[k] = x.since

FoundOK(x) ==
  /\ x.since \in 1 .. Len(log[x.index])
  /\ x.seen.len = log[x.index][x.since]
  /\ \A k \in 1 .. x.seen.len : x.buf[k] = x.since

Reads(x) == x.pc \in {"load", "futex", "asleep", "copy", "found"}

ReaderOK(x) ==
  /\ x.pc = "find" => x.index >= 1 /\ x.limit <= Len(toc)
  /\ Reads(x) => x.index \in 1 .. Len(toc) /\ toc[x.index] = x.name
  /\ x.pc = "copy" => CopyOK(x)
  /\ x.pc = "found" => FoundOK(x)

ReadersOK == \A r \in Readers : ReaderOK(rd[r])

\* The inductive invariant.
IInv == Types /\ TocFits /\ WriterFits /\ PropsSettled /\ ReadersOK

-----------------------------------------------------------------------------
LEMMA ModNext ==
  ASSUME NEW n \in 0 .. SerialSize - 1
  PROVE  (n + 1) % SerialSize = IF n = SerialSize - 1 THEN 0 ELSE n + 1
<1> USE SystemPropertiesAssumption
<1>1. CASE n = SerialSize - 1
  BY <1>1, SMT
<1>2. CASE n # SerialSize - 1
  BY <1>2, SMT
<1> QED
  BY <1>1, <1>2

LEMMA NamesCounted == Cardinality(Names) \in Nat
BY SystemPropertiesAssumption, FS_CardinalityType

LEMMA InitIInv == Init => IInv
<1> SUFFICES ASSUME Init PROVE IInv
  OBVIOUS
<1> USE SystemPropertiesAssumption, NamesCounted DEF Init
<1>1. Types
  <2>1. NoSerial \in Serials /\ NoValue \in Values
    BY DEF NoSerial, Serials, NoValue, Values
  <2>2. IdleReader \in ReaderStates
    BY <2>1 DEF IdleReader, ReaderStates, Steps, Area
  <2>3. IdleWriter \in [pc : {"idle", "copy", "wake", "area", "areawake"},
                        prop : Props \cup {Area}, len : 0 .. MaxLen, next : Nat]
    BY DEF IdleWriter
  <2> QED
    BY <2>1, <2>2, <2>3 DEF Types
<1>2. TocFits
  <2>1. Listed = {}
    BY DEF Listed
  <2> QED
    BY <2>1, FS_EmptySet DEF TocFits
<1>3. WriterFits /\ PropsSettled
  BY DEF WriterFits, PropsSettled, IdleWriter, NoSerial
<1>4. ReadersOK
  BY DEF ReadersOK, ReaderOK, Reads, IdleReader
<1> QED
  BY <1>1, <1>2, <1>3, <1>4 DEF IInv

-----------------------------------------------------------------------------
(***************************************************************************)
(* The steps of a reader change its own state only.                        *)
(***************************************************************************)
LEMMA LocalKeeps ==
  ASSUME IInv, NEW r \in Readers, NEW x \in ReaderStates, Local(r, x), ReaderOK(x)
  PROVE  IInv'
<1>1. rd' = [rd EXCEPT ![r] = x] /\ UNCHANGED <<toc, serial, value, log, w>>
  BY DEF Local
<1>2. Types'
  BY <1>1 DEF IInv, Types
<1>3. TocFits' /\ WriterFits' /\ PropsSettled'
  <2>1. TocFits'
    BY <1>1, Zenon DEF IInv, TocFits, Listed
  <2>2. WriterFits'
    BY <1>1 DEF IInv, WriterFits
  <2>3. \A i : Settled(i)' <=> Settled(i)
    BY <1>1 DEF Settled, Busy, SERIAL_DIRTY
  <2>4. PropsSettled'
    BY <1>1, <2>3 DEF IInv, PropsSettled
  <2> QED
    BY <2>1, <2>2, <2>4
<1>4. \A y : ReaderOK(y)' <=> ReaderOK(y)
  BY <1>1 DEF ReaderOK, CopyOK, FoundOK, Moved, Busy
<1>5. ASSUME NEW u \in Readers
      PROVE  ReaderOK(rd'[u])
  BY <1>1 DEF IInv, ReadersOK, Types
<1>6. ReadersOK'
  BY <1>4, <1>5 DEF ReadersOK
<1> QED
  BY <1>2, <1>3, <1>6 DEF IInv

\* A step to a place where nothing is known of the reader.
Free == {"idle", "notfound", "waitfutex", "waitasleep", "waitload", "changed"}

LEMMA ReaderSteps ==
  ASSUME IInv, NEW r \in Readers,
         \/ \E n \in Names : Get(r, n)
         \/ \E i \in Props \cup {Area} : Wait(r, i)
         \/ ReaderStep(r) \/ Interrupted(r)
  PROVE  IInv'
<1> DEFINE x == rd[r]
<1> USE SystemPropertiesAssumption, NamesCounted
<1>0. x \in ReaderStates /\ ReaderOK(x) /\ toc \in Seq(Names) /\ Len(toc) \in Nat
  BY DEF IInv, Types, ReadersOK
<1> HIDE DEF x
<1>a. ASSUME NEW label \in Free, Goto(r, label)
      PROVE  IInv'
  <2>1. [x EXCEPT !.pc = label] \in ReaderStates
    BY <1>0, <1>a, Zenon DEF ReaderStates, Steps, Free
  <2>2. ReaderOK([x EXCEPT !.pc = label])
    BY <1>0, <1>a DEF ReaderOK, Reads, Free, ReaderStates
  <2> QED
    BY <1>a, <2>1, <2>2, LocalKeeps DEF Goto, x
<1>b. ASSUME NEW label \in {"load", "futex", "asleep"}, Goto(r, label), Reads(x)
      PROVE  IInv'
  <2>1. [x EXCEPT !.pc = label] \in ReaderStates
    BY <1>0, <1>b DEF ReaderStates, Steps
  <2>2. ReaderOK([x EXCEPT !.pc = label])
    BY <1>0, <1>b DEF ReaderOK, Reads, ReaderStates
  <2> QED
    BY <1>b, <2>1, <2>2, LocalKeeps DEF Goto, x
<1>1. ASSUME NEW n \in Names, Get(r, n)
      PROVE  IInv'
  <2> DEFINE y == [x EXCEPT !.pc = "find", !.name = n, !.index = 1, !.limit = Len(toc)]
  <2>1. y \in ReaderStates
    BY <1>0, Zenon DEF ReaderStates, Steps
  <2>2. ReaderOK(y)
    BY <1>0 DEF ReaderOK, Reads, ReaderStates
  <2> QED
    BY <1>1, <2>1, <2>2, LocalKeeps, Zenon DEF Get, x
<1>2. CASE Find(r)
  <2>1. CASE x.index > x.limit
    BY <1>0, <1>2, <2>1, <1>a DEF Find, Free, x, ReaderStates
  <2>2. CASE x.index <= x.limit /\ toc[x.index] # x.name
    <3> DEFINE y == [x EXCEPT !.index = @ + 1]
    <3>1. y \in ReaderStates
      BY <1>0, SMTT(30) DEF ReaderStates
    <3>2. x.pc = "find"
      BY <1>2 DEF Find, x
    <3>3. ReaderOK(y)
      BY <1>0, <3>2 DEF ReaderOK, Reads, ReaderStates
    <3>4. Local(r, y)
      BY <1>0, <1>2, <2>2 DEF Find, x, ReaderStates
    <3> QED
      BY <3>1, <3>3, <3>4, LocalKeeps
  <2>3. CASE x.index <= x.limit /\ toc[x.index] = x.name
    <3> DEFINE y == [x EXCEPT !.pc = "load"]
    <3>1. y \in ReaderStates
      BY <1>0 DEF ReaderStates, Steps
    <3>2. x.pc = "find"
      BY <1>2 DEF Find, x
    <3>3. ReaderOK(y)
      BY <1>0, <2>3, <3>2 DEF ReaderOK, Reads, ReaderStates
    <3>4. Local(r, y)
      BY <1>0, <1>2, <2>3 DEF Find, Goto, x, ReaderStates
    <3> QED
      BY <3>1, <3>3, <3>4, LocalKeeps
  <2> QED
    BY <1>0, <2>1, <2>2, <2>3 DEF ReaderStates
<1>3. CASE FutexWait(r)
  <2>1. Reads(x)
    BY <1>3 DEF FutexWait, Reads, x
  <2> QED
    BY <1>3, <2>1, <1>b DEF FutexWait
<1>4. CASE WaitFutex(r)
  BY <1>4, <1>a DEF WaitFutex, Free
<1>5. CASE WaitCheck(r)
  BY <1>5, <1>a DEF WaitCheck, Free
<1>6. CASE Interrupted(r)
  <2>1. CASE x.pc = "asleep"
    <3>1. Reads(x) /\ Goto(r, "load")
      BY <1>6, <2>1 DEF Interrupted, Awake, Reads, x
    <3> QED
      BY <3>1, <1>b
  <2>2. CASE x.pc = "waitasleep"
    <3>1. Goto(r, "waitload")
      BY <1>6, <2>2 DEF Interrupted, Awake, x
    <3> QED
      BY <3>1, <1>a DEF Free
  <2> QED
    BY <1>6, <2>1, <2>2 DEF Interrupted, x
<1>7. CASE Return(r)
  <2>1. IdleReader \in ReaderStates
    BY DEF IdleReader, ReaderStates, Steps, Area, NoSerial, Serials, NoValue, Values
  <2>2. ReaderOK(IdleReader)
    BY DEF ReaderOK, Reads, IdleReader
  <2> QED
    BY <1>7, <2>1, <2>2, LocalKeeps DEF Return
<1>c. ASSUME NEW i \in Props \cup {Area}, NEW label \in Steps
      PROVE  Load(r, i, label) \in ReaderStates
  <2>1. serial[i] \in Serials /\ i \in Nat
    <3>1. serial \in [Props \cup {Area} -> Serials]
      BY DEF IInv, Types
    <3>2. i \in Nat
      BY DEF Props, Area
    <3> QED
      BY <3>1, <3>2
  <2>2. (IF i = Area THEN 0 ELSE Len(log[i])) \in Nat
    BY DEF IInv, Types
  <2> QED
    BY <1>0, <2>1, <2>2, Zenon DEF Load, ReaderStates, x
<1>8. ASSUME NEW i \in Props \cup {Area}, Wait(r, i)
      PROVE  IInv'
  <2>1. Load(r, i, "waitfutex") \in ReaderStates
    BY <1>c DEF Steps
  <2>2. Load(r, i, "waitfutex").pc = "waitfutex"
    BY <1>0 DEF Load, ReaderStates, x
  <2>3. ReaderOK(Load(r, i, "waitfutex"))
    BY <2>2 DEF ReaderOK, Reads
  <2> QED
    BY <1>8, <2>1, <2>3, LocalKeeps DEF Wait
<1>9. CASE LoadSerial(r)
  <2> DEFINE i == x.index
             label == IF SERIAL_DIRTY(serial[i]) THEN "futex" ELSE "copy"
             y == [Load(r, i, label) EXCEPT !.buf = NoValue, !.next = 1]
  <2>1. i \in 1 .. Len(toc) /\ toc[i] = x.name /\ x.pc = "load"
    BY <1>0, <1>9 DEF LoadSerial, ReaderOK, Reads, x
  <2>2. i \in Props /\ i # Area
    BY <1>0, <2>1 DEF IInv, TocFits, Props, Area
  <2>3. Local(r, y)
    BY <1>9 DEF LoadSerial, x
  <2>4. y \in ReaderStates
    <3>1. label \in Steps
      BY DEF Steps
    <3>2. Load(r, i, label) \in ReaderStates
      BY <1>c, <2>2, <3>1
    <3> QED
      BY <3>2, Zenon DEF ReaderStates, NoValue, Values
  <2>5. /\ y.pc = label /\ y.index = i /\ y.name = x.name /\ y.seen = serial[i]
        /\ y.since = Len(log[i]) /\ y.next = 1
    BY <1>0, <2>2 DEF Load, ReaderStates, x
  <2>6. ASSUME ~SERIAL_DIRTY(serial[i])
        PROVE  CopyOK(y)
    <3>1. Settled(i) /\ Len(log[i]) \in Nat /\ serial[i].n \in Nat
      BY <2>1, <2>2, SMTT(30) DEF IInv, PropsSettled, Types, Serials
    <3>2. ~Busy(i) /\ Moved(i, Len(log[i])) = 0
      BY <2>6, <3>1 DEF Settled, Moved
    <3> HIDE DEF y, i
    <3> QED
      BY <2>5, <3>1, <3>2 DEF CopyOK, Settled
  <2>7. ReaderOK(y)
    <3> HIDE DEF y, i
    <3> QED
      BY <2>1, <2>5, <2>6 DEF ReaderOK, Reads
  <2> QED
    BY <2>3, <2>4, <2>7, LocalKeeps
<1>10. CASE CopyWord(r)
  <2> DEFINE i == x.index
             y == [x EXCEPT !.buf[x.next] = value[i][x.next], !.next = @ + 1]
  <2>1. i \in 1 .. Len(toc) /\ toc[i] = x.name /\ x.pc = "copy" /\ CopyOK(x)
    BY <1>0, <1>10 DEF CopyWord, ReaderOK, Reads, x
  <2>2. i \in Props
    BY <1>0, <2>1 DEF IInv, TocFits, Props
  <2>3. x.next \in 1 .. x.seen.len /\ x.seen.len \in 0 .. MaxLen
    <3>1. x.next \in Nat /\ x.seen.len \in 0 .. MaxLen
      BY <1>0 DEF ReaderStates, Serials
    <3>2. x.next <= x.seen.len
      BY <1>10 DEF CopyWord, x
    <3>3. x.next >= 1
      BY <2>1 DEF CopyOK
    <3> QED
      BY <3>1, <3>2, <3>3
  <2>4. value[i][x.next] \in Nat
    <3>1. value[i] \in [1 .. MaxLen -> Nat]
      BY <2>2, Zenon DEF IInv, Types, Values
    <3>2. x.next \in 1 .. MaxLen
      BY <2>3
    <3> QED
      BY <3>1, <3>2
  <2>5. y \in ReaderStates
    <3>1. [x.buf EXCEPT ![x.next] = value[i][x.next]] \in Values
      BY <1>0, <2>3, <2>4 DEF ReaderStates, Values
    <3>2. x.next + 1 \in Nat
      BY <2>3
    <3> QED
      BY <1>0, <3>1, <3>2, Zenon DEF ReaderStates
  <2>6. /\ y.pc = "copy" /\ y.index = i /\ y.name = x.name /\ y.seen = x.seen
        /\ y.since = x.since /\ y.next = x.next + 1
        /\ y.buf = [x.buf EXCEPT ![x.next] = value[i][x.next]]
    BY <1>0, <2>1 DEF ReaderStates
  <2>7. Moved(i, x.since) = 0 => value[i][x.next] = x.since
    <3>1. Settled(i) /\ Len(log[i]) \in Nat /\ x.since \in Nat
      BY <1>0, <2>1, <2>2 DEF IInv, PropsSettled, Types, ReaderStates
    <3>2. Moved(i, x.since) = 0 => ~Busy(i) /\ x.since = Len(log[i])
      BY <3>1, <2>1, SMTT(30) DEF Moved, CopyOK
    <3> QED
      BY <2>1, <2>3, <3>1, <3>2 DEF Settled, CopyOK
  <2>8. CopyOK(y)
    <3>1. Moved(i, x.since) = 0 =>
            \A k \in 1 .. x.seen.len : k < x.next + 1 => y.buf[k] = x.since
      <4> SUFFICES ASSUME Moved(i, x.since) = 0,
                          NEW k \in 1 .. x.seen.len, k < x.next + 1
                   PROVE  [x.buf EXCEPT ![x.next] = value[i][x.next]][k] = x.since
        BY <2>6
      <4>1. DOMAIN x.buf = 1 .. MaxLen
        BY <1>0 DEF ReaderStates, Values
      <4>2. CASE k = x.next
        BY <2>3, <2>7, <4>1, <4>2
      <4>3. CASE k # x.next
        <5>1. k < x.next
          BY <2>3, <4>3
        <5>2. x.buf[k] = x.since
          BY <2>1, <5>1 DEF CopyOK
        <5> QED
          BY <2>3, <4>1, <4>3, <5>2
      <4> QED
        BY <4>2, <4>3
    <3> HIDE DEF y
    <3>2. CopyOK(x) /\ x.index = i
      BY <2>1
    <3>3. y.next >= 1
      BY <2>3, <2>6
    <3> QED
      BY <2>6, <3>1, <3>2, <3>3, Zenon DEF CopyOK
  <2>9. ReaderOK(y)
    <3> HIDE DEF y
    <3> QED
      BY <2>1, <2>6, <2>8 DEF ReaderOK, Reads
  <2> QED
    BY <1>10, <2>5, <2>9, LocalKeeps DEF CopyWord, x
<1>11. CASE CheckSerial(r)
  <2>1. /\ x.index \in 1 .. Len(toc) /\ toc[x.index] = x.name
        /\ x.pc = "copy" /\ CopyOK(x) /\ x.next > x.seen.len
    BY <1>0, <1>11 DEF CheckSerial, ReaderOK, Reads, x
  <2>2. CASE serial[x.index] # x.seen
    <3>1. Reads(x) /\ Goto(r, "load")
      BY <1>11, <2>1, <2>2 DEF CheckSerial, Reads, x
    <3> QED
      BY <3>1, <1>b
  <2>3. CASE serial[x.index] = x.seen
    <3> DEFINE y == [x EXCEPT !.pc = "found"]
    <3>1. Local(r, y)
      BY <1>11, <2>3 DEF CheckSerial, Goto, x
    <3>2. y \in ReaderStates
      BY <1>0, Zenon DEF ReaderStates, Steps
    <3>3. Moved(x.index, x.since) = 0
      <4>1. x.index \in Props
        BY <1>0, <2>1 DEF IInv, TocFits, Props
      <4>2. Moved(x.index, x.since) \in Nat /\ x.seen.n \in Nat
        <5>1. x.since \in 1 .. Len(log[x.index]) /\ x.seen \in Serials
          BY <1>0, <2>1 DEF CopyOK, ReaderStates
        <5>2. Len(log[x.index]) \in Nat
          BY <4>1 DEF IInv, Types
        <5> QED
          BY <5>1, <5>2 DEF Moved, Serials
      <4> QED
        BY <2>1, <2>3, <4>2 DEF CopyOK
    <3>4. FoundOK(x)
      <4>1. x.next \in Nat /\ x.seen.len \in Nat
        BY <1>0 DEF ReaderStates, Serials
      <4>2. \A k \in 1 .. x.seen.len : k < x.next
        BY ONLY <2>1, <4>1
      <4> QED
        BY <2>1, <3>3, <4>2, Zenon DEF CopyOK, FoundOK
    <3>5. ReaderOK(y)
      BY <1>0, <2>1, <3>4, Zenon DEF ReaderOK, Reads, FoundOK, ReaderStates
    <3> QED
      BY <3>1, <3>2, <3>5, LocalKeeps
  <2> QED
    BY <2>2, <2>3
<1> QED
  BY <1>1, <1>2, <1>3, <1>4, <1>5, <1>6, <1>7, <1>8, <1>9, <1>10, <1>11 DEF ReaderStep

-----------------------------------------------------------------------------
(***************************************************************************)
(* The steps of the writer.  Most change nothing that a reader's invariant *)
(* is about.                                                               *)
(***************************************************************************)
SameForReaders ==
  /\ Len(toc') \in Nat /\ Len(toc') >= Len(toc)
  /\ \A j \in 1 .. Len(toc) :
       toc'[j] = toc[j] /\ log'[j] = log[j] /\ serial'[j] = serial[j] /\ (Busy(j)' <=> Busy(j))

LEMMA ReaderKept ==
  ASSUME IInv, SameForReaders
  PROVE  \A y \in ReaderStates : ReaderOK(y) => ReaderOK(y)'
<1> SUFFICES ASSUME NEW y \in ReaderStates, ReaderOK(y)
             PROVE  ReaderOK(y)'
  OBVIOUS
<1>1. Len(toc) \in Nat /\ y.index \in Nat /\ y.limit \in Nat
  BY DEF IInv, Types, ReaderStates
<1>2. Reads(y) => /\ y.index \in 1 .. Len(toc) /\ y.index \in 1 .. Len(toc')
                  /\ toc'[y.index] = toc[y.index] /\ log'[y.index] = log[y.index]
                  /\ serial'[y.index] = serial[y.index]
                  /\ (Busy(y.index)' <=> Busy(y.index))
  BY <1>1 DEF ReaderOK, SameForReaders
<1>3. y.pc = "copy" => CopyOK(y)'
  BY <1>2, Zenon DEF ReaderOK, Reads, CopyOK, Moved
<1>4. y.pc = "found" => FoundOK(y)'
  BY <1>2 DEF ReaderOK, Reads, FoundOK
<1>5. y.pc = "find" => y.index >= 1 /\ y.limit <= Len(toc')
  BY <1>1 DEF ReaderOK, SameForReaders
<1> QED
  BY <1>2, <1>3, <1>4, <1>5 DEF ReaderOK

\* If the readers themselves do not move, or are only woken, they stay right.
LEMMA ReadersKept ==
  ASSUME IInv, \A y \in ReaderStates : ReaderOK(y) => ReaderOK(y)',
         rd' = rd \/ \E i : Wake(i)
  PROVE  ReadersOK' /\ rd' \in [Readers -> ReaderStates]
<1>0. rd \in [Readers -> ReaderStates] /\ ReadersOK
  BY DEF IInv, Types
<1>1. CASE rd' = rd
  BY <1>0, <1>1 DEF ReadersOK
<1>2. ASSUME NEW i, Wake(i)
      PROVE  ReadersOK' /\ rd' \in [Readers -> ReaderStates]
  <2>1. ASSUME NEW r \in Readers
        PROVE  rd'[r] \in ReaderStates /\ ReaderOK(rd'[r])
    <3>1. CASE rd[r].index = i /\ rd[r].pc \in {"asleep", "waitasleep"}
      <4>1. rd'[r] = [rd[r] EXCEPT !.pc = Awake(@)]
        BY <1>2, <3>1 DEF Wake
      <4>2. rd[r] \in ReaderStates /\ ReaderOK(rd[r])
        BY <1>0 DEF ReadersOK
      <4> QED
        BY <3>1, <4>1, <4>2 DEF Awake, ReaderStates, Steps, ReaderOK, Reads
    <3>2. CASE ~(rd[r].index = i /\ rd[r].pc \in {"asleep", "waitasleep"})
      BY <1>0, <1>2, <3>2 DEF Wake, ReadersOK
    <3> QED
      BY <3>1, <3>2
  <2>2. rd' \in [Readers -> ReaderStates]
    BY <1>2, <2>1 DEF Wake
  <2> QED
    BY <2>1, <2>2 DEF ReadersOK
<1> QED
  BY <1>1, <1>2

\* The steps after a write: no property is busy before or after.
LEMMA AfterWrite ==
  ASSUME IInv, WriteWake \/ WriteArea \/ WriteAreaWake
  PROVE  IInv'
<1> USE SystemPropertiesAssumption, NamesCounted
<1>0. Types /\ TocFits /\ PropsSettled
  BY DEF IInv
<1>1. /\ w.pc # "copy" /\ w'.pc # "copy" /\ UNCHANGED <<toc, value, log>>
      /\ \A i \in Props : serial'[i] = serial[i]
      /\ rd' = rd \/ \E i : Wake(i)
  <2>1. Area \notin Props
    BY DEF Area, Props
  <2> QED
    BY <1>0, <2>1 DEF WriteWake, WriteArea, WriteAreaWake, IdleWriter, Types
<1>2. SameForReaders
  BY <1>0, <1>1 DEF SameForReaders, Busy, Types, TocFits, Props
<1>3. ReadersOK' /\ rd' \in [Readers -> ReaderStates]
  BY <1>1, <1>2, ReaderKept, ReadersKept
<1>4. serial' \in [Props \cup {Area} -> Serials]
  <2>1. CASE serial' = serial
    BY <1>0, <2>1 DEF Types
  <2>2. CASE serial' = [serial EXCEPT ![Area].n = (@ + 1) % SerialSize]
    <3>1. serial[Area] \in Serials
      BY <1>0 DEF Types
    <3>2. (serial[Area].n + 1) % SerialSize \in 0 .. SerialSize - 1
      BY <3>1, ModNext DEF Serials
    <3> QED
      BY <1>0, <2>2, <3>1, <3>2, Zenon DEF Types, Serials
  <2> QED
    BY <2>1, <2>2 DEF WriteWake, WriteArea, WriteAreaWake
<1>5. w' \in [pc : {"idle", "copy", "wake", "area", "areawake"}, prop : Props \cup {Area},
              len : 0 .. MaxLen, next : Nat]
  <2>1. CASE w' = IdleWriter
    BY <2>1 DEF IdleWriter
  <2>2. CASE WriteWake \/ WriteArea
    BY <1>0, <2>2, Zenon DEF Types, WriteWake, WriteArea
  <2> QED
    BY <2>1, <2>2 DEF WriteAreaWake
<1>6. Types'
  BY <1>0, <1>1, <1>3, <1>4, <1>5 DEF Types
<1>7. TocFits' /\ WriterFits'
  BY <1>0, <1>1, Zenon DEF TocFits, Listed, WriterFits
<1>8. PropsSettled'
  <2>1. ASSUME NEW i \in 1 .. Len(toc)
        PROVE  Settled(i)'
    <3>1. Settled(i) /\ i \in Props
      BY <1>0 DEF PropsSettled, TocFits, Props, Types
    <3> QED
      BY <1>1, <3>1 DEF Settled, Busy
  <2> QED
    BY <1>0, <1>1, <2>1 DEF PropsSettled
<1> QED
  BY <1>3, <1>6, <1>7, <1>8 DEF IInv

\* A new property is complete before count includes it.
LEMMA Adding ==
  ASSUME IInv, NEW n \in Names, NEW len \in 1 .. MaxLen, AddProperty(n, len)
  PROVE  IInv'
<1> USE SystemPropertiesAssumption, NamesCounted
<1> PICK i \in Nat : i = Len(toc) + 1
  BY DEF IInv, Types
<1>0. Types /\ TocFits /\ PropsSettled
  BY DEF IInv
<1>1. /\ w.pc = "idle" /\ n \notin Listed /\ toc' = Append(toc, n)
      /\ value' = [value EXCEPT ![i] = [k \in 1 .. MaxLen |-> IF k <= len THEN 1 ELSE 0]]
      /\ log' = [log EXCEPT ![i] = <<len>>]
      /\ serial' = [serial EXCEPT ![i].len = len]
      /\ w' = [w EXCEPT !.pc = "area"] /\ rd' = rd
  BY DEF AddProperty, Listed
<1>2. toc \in Seq(Names) /\ toc' \in Seq(Names) /\ Len(toc') = i /\ Len(toc) \in Nat
      /\ toc'[i] = n /\ \A j \in 1 .. Len(toc) : toc'[j] = toc[j]
  BY <1>0, <1>1 DEF Types
<1>3. TocFits'
  <2>1. Listed' = Listed \cup {n}
    <3>1. 1 .. Len(toc') = (1 .. Len(toc)) \cup {i}
      BY <1>2
    <3>2. Listed' = {toc'[j] : j \in (1 .. Len(toc)) \cup {i}}
      BY <3>1 DEF Listed
    <3> QED
      BY <1>2, <3>2 DEF Listed
  <2>2. Listed \subseteq Names /\ Listed' \subseteq Names
    BY <1>2 DEF Listed
  <2>3. IsFiniteSet(Listed) /\ Cardinality(Listed') <= Cardinality(Names)
    BY <2>2, FS_Subset
  <2>4. Cardinality(Listed') = Cardinality(Listed) + 1
    BY <1>1, <2>1, <2>3, FS_AddElement, Zenon
  <2> QED
    BY <1>0, <1>2, <2>3, <2>4 DEF TocFits
<1>4. i \in Props /\ i \in Nat /\ 1 .. Len(toc) \subseteq Props \ {i}
  BY <1>2, <1>3 DEF TocFits, Props
<1>5. Types'
  <2>1. log' \in [Props -> Seq(1 .. MaxLen)]
    BY <1>0, <1>1, <1>4 DEF Types
  <2>2. value' \in [Props -> Values]
    BY <1>0, <1>1, <1>4 DEF Types, Values
  <2>3. serial' \in [Props \cup {Area} -> Serials]
    <3>1. serial[i] \in Serials
      BY <1>0, <1>4 DEF Types
    <3>2. [serial[i] EXCEPT !.len = len] \in Serials
      BY <3>1 DEF Serials
    <3>3. serial' = [serial EXCEPT ![i] = [serial[i] EXCEPT !.len = len]]
      BY <1>1
    <3> QED
      BY <1>0, <3>2, <3>3, Zenon DEF Types
  <2> QED
    BY <1>0, <1>1, <1>2, <2>1, <2>2, <2>3, Zenon DEF Types
<1>6. \A j : ~Busy(j) /\ ~Busy(j)'
  BY <1>0, <1>1 DEF Busy, Types
<1>7. WriterFits'
  BY <1>0, <1>1 DEF WriterFits, Types
<1>8. \A j \in 1 .. Len(toc) : log'[j] = log[j] /\ serial'[j] = serial[j] /\ value'[j] = value[j]
  BY <1>0, <1>1, <1>4, Zenon DEF Types
<1>9. PropsSettled'
  <2>1. ASSUME NEW j \in 1 .. Len(toc)
        PROVE  Settled(j)'
    <3>1. Settled(j)
      BY <1>0 DEF PropsSettled
    <3> QED
      BY <1>6, <1>8, <3>1 DEF Settled
  <2>2. Settled(i)'
    <3>1. log'[i] = <<len>> /\ Len(log'[i]) = 1 /\ log'[i][1] = len
      BY <1>0, <1>1, <1>4 DEF Types
    <3>2. serial'[i].len = len /\ serial'[i].n = 0
      BY <1>0, <1>1, <1>2, <1>4 DEF Types, Serials, PropsSettled
    <3>3. \A k \in 1 .. len : value'[i][k] = 1
      BY <1>0, <1>1, <1>4 DEF Types
    <3> QED
      BY <1>6, <3>1, <3>2, <3>3 DEF Settled, SERIAL_DIRTY
  <2>3. ASSUME NEW j \in Props, j > i
        PROVE  serial'[j].n = 0
    BY <1>0, <1>1, <1>2, <2>3 DEF PropsSettled, Types, Props
  <2> QED
    BY <1>2, <2>1, <2>2, <2>3 DEF PropsSettled
<1>10. ReadersOK'
  <2>1. SameForReaders
    BY <1>2, <1>6, <1>8 DEF SameForReaders
  <2> QED
    BY <1>1, <2>1, ReaderKept, ReadersKept
<1> QED
  BY <1>3, <1>5, <1>7, <1>9, <1>10 DEF IInv

\* One word is written: the property was busy and stays so.
LEMMA Writing ==
  ASSUME IInv, WriteWord
  PROVE  IInv'
<1> USE SystemPropertiesAssumption, NamesCounted
<1>0. Types /\ TocFits /\ WriterFits /\ PropsSettled
  BY DEF IInv
<1>1. /\ w.pc = "copy" /\ w.next <= w.len /\ w' = [w EXCEPT !.next = @ + 1]
      /\ value' = [value EXCEPT ![w.prop][w.next] = Len(log[w.prop]) + 1]
      /\ UNCHANGED <<toc, serial, log, rd>>
  BY DEF WriteWord
<1>2. /\ w.prop \in 1 .. Len(toc) /\ w.prop \in Props /\ w.next \in 1 .. MaxLen
      /\ w.len \in 1 .. MaxLen
      /\ w'.next = w.next + 1 /\ w'.pc = "copy" /\ w'.prop = w.prop /\ w'.len = w.len
  BY <1>0, <1>1 DEF WriterFits, Types, TocFits, Props
<1>3. PICK v \in Nat : v = Len(log[w.prop]) + 1
  BY <1>0, <1>2 DEF Types
<1>4. Types'
  <2>1. value' \in [Props -> Values]
    BY <1>0, <1>1, <1>2, <1>3, Zenon DEF Types, Values
  <2>2. w' \in [pc : {"idle", "copy", "wake", "area", "areawake"}, prop : Props \cup {Area},
                len : 0 .. MaxLen, next : Nat]
    <3>1. w.next + 1 \in Nat
      BY <1>2
    <3> QED
      BY <1>0, <1>1, <3>1, Zenon DEF Types
  <2> QED
    BY <1>0, <1>1, <2>1, <2>2, Zenon DEF Types
<1>5. TocFits' /\ WriterFits'
  <2>1. TocFits'
    BY <1>0, <1>1, Zenon DEF TocFits, Listed
  <2>2. w.next + 1 >= 1
    BY <1>2
  <2> QED
    BY <1>1, <1>2, <2>1, <2>2 DEF WriterFits
<1>6. \A j : Busy(j)' <=> Busy(j)
  BY <1>1, <1>2 DEF Busy
<1>7. PropsSettled'
  <2>1. ASSUME NEW j \in 1 .. Len(toc)
        PROVE  Settled(j)'
    <3>1. Settled(j) /\ j \in Props
      BY <1>0 DEF PropsSettled, TocFits, Props, Types
    <3>2. CASE j # w.prop
      <4>1. value'[j] = value[j] /\ ~Busy(j)
        BY <1>0, <1>1, <3>1, <3>2 DEF Types, Busy
      <4> QED
        BY <1>1, <1>6, <3>1, <4>1, Zenon DEF Settled
    <3>3. CASE j = w.prop
      <4>1. value'[j] = [value[j] EXCEPT ![w.next] = v] /\ Busy(j) /\ value[j] \in Values
        BY <1>0, <1>1, <1>2, <1>3, <3>1, <3>3 DEF Types, Busy
      <4>2. ASSUME NEW k \in 1 .. w.len, k < w.next + 1
            PROVE  value'[j][k] = Len(log[j]) + 1
        <5>1. k = w.next \/ k < w.next
          BY <1>2, <4>2
        <5>2. k \in 1 .. MaxLen
          BY <1>2
        <5> QED
          BY <1>3, <3>1, <3>3, <4>1, <5>1, <5>2, Zenon DEF Settled, Values
      <4> QED
        BY <1>1, <1>2, <1>6, <3>1, <4>1, <4>2 DEF Settled
    <3> QED
      BY <3>2, <3>3
  <2> QED
    BY <1>0, <1>1, <2>1 DEF PropsSettled
<1>8. ReadersOK'
  <2>1. SameForReaders
    BY <1>0, <1>1, <1>6 DEF SameForReaders, Types
  <2> QED
    BY <1>1, <2>1, ReaderKept, ReadersKept
<1> QED
  BY <1>4, <1>5, <1>7, <1>8 DEF IInv

\* A write begins: the counter becomes odd and does not come round by that.
LEMMA Beginning ==
  ASSUME IInv, NEW i \in Props, NEW len \in 1 .. MaxLen, WriteDirty(i, len)
  PROVE  IInv'
<1> USE SystemPropertiesAssumption, NamesCounted
<1>0. Types /\ TocFits /\ PropsSettled /\ ReadersOK
  BY DEF IInv
<1>1. /\ w.pc = "idle" /\ i \in 1 .. Len(toc)
      /\ serial' = [serial EXCEPT ![i].n = @ + 1]
      /\ w' = [pc |-> "copy", prop |-> i, len |-> len, next |-> 1]
      /\ UNCHANGED <<toc, value, log, rd>>
  BY <1>0 DEF WriteDirty, Props, Types
<1>2. PICK n \in 0 .. SerialSize - 1 : n = serial[i].n
  BY <1>0 DEF Types, Serials
<1>3. Settled(i) /\ \A j : ~Busy(j)
  BY <1>0, <1>1 DEF PropsSettled, Busy
<1>4. n + 1 \in 0 .. SerialSize - 1 /\ (n + 1) % 2 = 1
  <2>1. n % 2 # 1
    BY <1>2, <1>3 DEF Settled, SERIAL_DIRTY
  <2>2. n \in Int /\ n <= SerialSize - 1 /\ SerialSize \in Int /\ SerialSize % 2 = 0
    OBVIOUS
  <2>3. (n + 1) % 2 = 1
    BY <2>1, <2>2, SMT
  <2>4. n # SerialSize - 1
    BY <2>1, <2>2, SMT
  <2> QED
    BY <2>3, <2>4
<1>5. /\ serial'[i].n = n + 1 /\ serial'[i].len = serial[i].len
      /\ \A j \in Props : j # i => serial'[j] = serial[j]
      /\ serial' \in [Props \cup {Area} -> Serials]
  <2>1. serial \in [Props \cup {Area} -> Serials] /\ serial[i] \in Serials
    BY <1>0 DEF Types
  <2>2. PICK s \in Serials : s.n = n + 1 /\ s.len = serial[i].len
                             /\ s = [serial[i] EXCEPT !.n = n + 1]
    BY <1>2, <1>4, <2>1, Zenon DEF Serials
  <2>3. serial' = [serial EXCEPT ![i] = s]
    BY <1>1, <1>2, <2>2
  <2>4. serial' \in [Props \cup {Area} -> Serials] /\ serial'[i] = s
    BY <2>1, <2>3
  <2>5. \A j \in Props : j # i => serial'[j] = serial[j]
    BY <2>1, <2>3
  <2> QED
    BY <2>2, <2>4, <2>5
<1>6. Types'
  <2>1. w' \in [pc : {"idle", "copy", "wake", "area", "areawake"}, prop : Props \cup {Area},
                len : 0 .. MaxLen, next : Nat]
    BY <1>1
  <2> QED
    BY <1>0, <1>1, <1>5, <2>1, Zenon DEF Types
<1>7. TocFits' /\ WriterFits'
  <2>1. TocFits'
    BY <1>0, <1>1, Zenon DEF TocFits, Listed
  <2> QED
    BY <1>1, <2>1 DEF WriterFits
<1>8. \A j : Busy(j)' <=> j = i
  BY <1>1 DEF Busy
<1>9. PropsSettled'
  <2>1. ASSUME NEW j \in 1 .. Len(toc), j # i
        PROVE  Settled(j)'
    <3>1. Settled(j) /\ j \in Props
      BY <1>0 DEF PropsSettled, TocFits, Props, Types
    <3> QED
      BY <1>1, <1>3, <1>5, <1>8, <2>1, <3>1, Zenon DEF Settled
  <2>2. Settled(i)'
    <3>1. SERIAL_DIRTY(serial[i])' /\ Busy(i)'
      BY <1>4, <1>5, <1>8 DEF SERIAL_DIRTY
    <3>2. \A k \in 1 .. w'.len : ~(k < w'.next)
      BY <1>1
    <3> QED
      BY <1>1, <1>3, <1>5, <3>1, <3>2 DEF Settled
  <2>3. \A j \in Props : j > Len(toc) => serial'[j].n = 0
    BY <1>0, <1>1, <1>5 DEF PropsSettled
  <2> QED
    BY <1>1, <2>1, <2>2, <2>3 DEF PropsSettled
<1>10. ReadersOK'
  <2>1. ASSUME NEW y \in ReaderStates, ReaderOK(y)
        PROVE  ReaderOK(y)'
    <3>1. Reads(y) => y.index \in Props
      <4>1. Len(toc) \in Nat /\ Len(toc) <= Cardinality(Names)
        BY <1>0 DEF TocFits, Types
      <4>2. Reads(y) => y.index \in 1 .. Len(toc)
        BY <2>1, Zenon DEF ReaderOK
      <4> QED
        BY ONLY <4>1, <4>2, NamesCounted DEF Props
    <3>2. y.pc = "copy" => CopyOK(y)'
      <4> SUFFICES ASSUME y.pc = "copy" PROVE CopyOK(y)'
        OBVIOUS
      <4>1. CopyOK(y) /\ y.index \in Props
        BY <2>1, <3>1 DEF ReaderOK, Reads
      <4>2. CASE y.index # i
        <5>1. Moved(y.index, y.since)' = Moved(y.index, y.since)
          BY <1>1, <1>3, <1>8, <4>2 DEF Moved
        <5>2. serial'[y.index] = serial[y.index] /\ log' = log
          BY <1>1, <1>5, <4>1, <4>2, Zenon
        <5> QED
          BY <4>1, <5>1, <5>2, Zenon DEF CopyOK
      <4>3. CASE y.index = i
        <5>1. PICK m \in Nat : m = Len(log[i]) - y.since
          <6>1. log[i] \in Seq(1 .. MaxLen)
            BY <1>0, Zenon DEF Types
          <6>2. y.since \in 1 .. Len(log[i])
            BY <4>1, <4>3, Zenon DEF CopyOK
          <6> QED
            BY ONLY <6>1, <6>2
        <5>2. Moved(y.index, y.since) = 2 * m /\ Moved(y.index, y.since)' = 2 * m + 1
          BY <1>1, <1>3, <1>8, <4>3, <5>1 DEF Moved
        <5>3. 2 * m + 1 < SerialSize /\ 2 * m + 1 # 0
          BY <4>1, <5>2 DEF CopyOK
        <5>4. y.seen.n \in Nat
          BY DEF ReaderStates, Serials
        <5>5. n + 1 \in {y.seen.n + (2 * m + 1), y.seen.n + (2 * m + 1) - SerialSize}
          <6>1. n \in {y.seen.n + 2 * m, y.seen.n + 2 * m - SerialSize}
            BY <1>2, <4>1, <4>3, <5>2 DEF CopyOK
          <6> QED
            BY <5>4, <6>1
        <5> QED
          BY <1>1, <1>5, <4>1, <4>3, <5>2, <5>3, <5>5, Zenon DEF CopyOK
      <4> QED
        BY <4>2, <4>3
    <3>3. y.pc = "found" => FoundOK(y)'
      BY <1>1, <2>1 DEF ReaderOK, FoundOK
    <3> QED
      BY <1>1, <2>1, <3>2, <3>3 DEF ReaderOK
  <2> QED
    BY <1>1, <2>1, ReadersKept
<1> QED
  BY <1>6, <1>7, <1>9, <1>10 DEF IInv

\* A write ends: the words are those of the new write, and the rule that the
\* counter does not come round during a copy is used.
LEMMA Ending ==
  ASSUME IInv, WriteSerial
  PROVE  IInv'
<1> USE SystemPropertiesAssumption, NamesCounted
<1>0. Types /\ TocFits /\ WriterFits /\ PropsSettled /\ ReadersOK
  BY DEF IInv
<1> PICK p \in Props : p = w.prop
  BY <1>0 DEF WriteSerial, WriterFits, TocFits, Props, Types
<1>1. /\ w.pc = "copy" /\ w.next > w.len /\ NoWrap(p)
      /\ serial' = [serial EXCEPT ![p] = [len |-> w.len, n |-> (@.n + 1) % SerialSize]]
      /\ log' = [log EXCEPT ![p] = Append(@, w.len)]
      /\ w' = [w EXCEPT !.pc = "wake"] /\ UNCHANGED <<toc, value, rd>>
  BY DEF WriteSerial
<1>2. /\ p \in 1 .. Len(toc) /\ w.len \in 1 .. MaxLen /\ w.next \in Nat
      /\ w'.pc = "wake" /\ Busy(p) /\ (\A j : Busy(j) => j = p) /\ \A j : ~Busy(j)'
  BY <1>0, <1>1 DEF WriterFits, Types, Busy
<1>3. PICK n \in 0 .. SerialSize - 1 : n = serial[p].n
  BY <1>0 DEF Types, Serials
<1>4. Settled(p) /\ n % 2 = 1
  BY <1>0, <1>2, <1>3, Zenon DEF PropsSettled, Settled, SERIAL_DIRTY
<1>5. PICK m \in 0 .. SerialSize - 1 : /\ m = (n + 1) % SerialSize
                                       /\ m = IF n = SerialSize - 1 THEN 0 ELSE n + 1
  BY ModNext
<1>6. /\ serial'[p].n = m /\ serial'[p].len = w.len
      /\ \A j \in Props : j # p => serial'[j] = serial[j]
      /\ serial' \in [Props \cup {Area} -> Serials]
  BY <1>0, <1>1, <1>2, <1>3, <1>5, Zenon DEF Types, Serials
<1>7. PICK L \in Nat : L = Len(log[p])
  <2>1. log[p] \in Seq(1 .. MaxLen)
    BY <1>0 DEF Types
  <2> QED
    BY <2>1
<1>8. /\ log' \in [Props -> Seq(1 .. MaxLen)]
      /\ Len(log'[p]) = L + 1 /\ log'[p][L + 1] = w.len
      /\ \A g \in 1 .. L : log'[p][g] = log[p][g]
      /\ \A j \in Props : j # p => log'[j] = log[j]
  BY <1>0, <1>1, <1>2, <1>7, SMTT(30) DEF Types
<1>9. Types'
  BY <1>0, <1>1, <1>6, <1>8, Zenon DEF Types
<1>10. TocFits' /\ WriterFits'
  BY <1>0, <1>1, <1>2, Zenon DEF TocFits, Listed, WriterFits
<1>11. PropsSettled'
  <2>1. ASSUME NEW j \in 1 .. Len(toc), j # p
        PROVE  Settled(j)'
    <3>1. Settled(j) /\ j \in Props
      BY <1>0 DEF PropsSettled, TocFits, Props, Types
    <3> QED
      BY <1>1, <1>2, <1>6, <1>8, <2>1, <3>1, Zenon DEF Settled
  <2>2. Settled(p)'
    <3>1. m % 2 # 1
      BY <1>4, <1>5
    <3>2. \A k \in 1 .. w.len : value[p][k] = L + 1
      <4>1. \A k \in 1 .. w.len : k < w.next
        BY <1>1, <1>2
      <4> QED
        BY ONLY <1>2, <1>4, <1>7, <4>1, Zenon DEF Settled
    <3>3. Len(log'[p]) >= 1 /\ Len(log'[p]) = L + 1 /\ log'[p][L + 1] = w.len
      BY <1>8
    <3>4. ~SERIAL_DIRTY(serial'[p]) /\ ~Busy(p)' /\ value' = value
      BY <1>1, <1>2, <1>6, <3>1 DEF SERIAL_DIRTY
    <3> QED
      BY <1>6, <3>2, <3>3, <3>4, Zenon DEF Settled
  <2>3. \A j \in Props : j > Len(toc) => serial'[j].n = 0
    BY <1>0, <1>2, <1>6 DEF PropsSettled
  <2> QED
    BY <1>1, <2>1, <2>2, <2>3 DEF PropsSettled
<1>12. ReadersOK'
  <2>1. ASSUME NEW r \in Readers, NEW y \in ReaderStates, y = rd[r], ReaderOK(y)
        PROVE  ReaderOK(y)'
    <3>1. Reads(y) => y.index \in Props
      <4>1. Len(toc) \in Nat /\ Len(toc) <= Cardinality(Names)
        BY <1>0 DEF TocFits, Types
      <4>2. Reads(y) => y.index \in 1 .. Len(toc)
        BY <2>1, Zenon DEF ReaderOK
      <4> QED
        BY ONLY <4>1, <4>2, NamesCounted DEF Props
    <3>2. y.pc = "copy" => CopyOK(y)'
      <4> SUFFICES ASSUME y.pc = "copy" PROVE CopyOK(y)'
        OBVIOUS
      <4>1. CopyOK(y) /\ y.index \in Props
        BY <2>1, <3>1 DEF ReaderOK, Reads
      <4>2. CASE y.index # p
        <5>1. Moved(y.index, y.since)' = Moved(y.index, y.since)
          BY <1>2, <1>8, <4>1, <4>2 DEF Moved
        <5> QED
          BY <1>1, <1>6, <1>8, <4>1, <4>2, <5>1, Zenon DEF CopyOK
      <4>3. CASE y.index = p
        <5>2. y.since \in 1 .. L
          BY ONLY <1>7, <4>1, <4>3, Zenon DEF CopyOK
        <5>1. PICK d \in Nat : d = L - y.since
          BY ONLY <1>7, <5>2
        <5>3. Moved(y.index, y.since) = 2 * d + 1 /\ Moved(y.index, y.since)' = 2 * d + 2
          <6>1. Moved(y.index, y.since) = 2 * (L - y.since) + 1
            BY <1>2, <1>7, <4>3 DEF Moved
          <6>2. Moved(y.index, y.since)' = 2 * (L + 1 - y.since) + 0
            <7>1. Len(log'[y.index]) = L + 1 /\ y.since \in Nat
              BY <1>8, <4>3, <5>2
            <7>2. w'.pc # "copy"
              BY <1>2
            <7> QED
              BY <7>1, <7>2 DEF Moved, Busy
          <6> QED
            BY <5>1, <5>2, <6>1, <6>2
        <5>4. p # Area
          BY DEF Props, Area
        <5>5. L + 1 - y.since < SerialSize \div 2
          BY <1>1, <1>7, <2>1, <4>3, <5>4, Zenon DEF NoWrap
        <5>6. 2 * d + 2 < SerialSize
          BY <5>1, <5>2, <5>5
        <5>7. y.seen.n \in 0 .. SerialSize - 1
          BY DEF ReaderStates, Serials
        <5>8. m \in {y.seen.n + (2 * d + 2), y.seen.n + (2 * d + 2) - SerialSize}
          <6>1. n \in {y.seen.n + (2 * d + 1), y.seen.n + (2 * d + 1) - SerialSize}
            BY <1>3, <4>1, <4>3, <5>3, Zenon DEF CopyOK
          <6> QED
            BY <1>5, <5>6, <5>7, <6>1
        <5>9. y.since \in 1 .. Len(log'[p]) /\ y.seen.len = log'[p][y.since]
          <6>1. y.since \in 1 .. L + 1
            BY <5>2
          <6>2. y.seen.len = log[p][y.since]
            BY <4>1, <4>3 DEF CopyOK
          <6> QED
            BY <1>8, <5>2, <6>1, <6>2
        <5> QED
          <6>1. Moved(y.index, y.since)' < SerialSize /\ Moved(y.index, y.since)' # 0
            BY ONLY <5>3, <5>6, d \in Nat
          <6>2. y.next >= 1
            BY <4>1, Zenon DEF CopyOK
          <6> QED
            BY ONLY <1>6, <4>1, <4>3, <5>3, <5>8, <5>9, <6>1, <6>2, Zenon DEF CopyOK
      <4> QED
        BY <4>2, <4>3
    <3>3. y.pc = "found" => FoundOK(y)'
      <4> SUFFICES ASSUME y.pc = "found" PROVE FoundOK(y)'
        OBVIOUS
      <4>1. FoundOK(y) /\ y.index \in Props
        BY <2>1, <3>1, Zenon DEF ReaderOK, Reads
      <4> QED
        <5>1. CASE y.index # p
          BY <1>8, <4>1, <5>1, Zenon DEF FoundOK
        <5>2. CASE y.index = p
          <6>1. y.since \in 1 .. L /\ y.seen.len = log[p][y.since]
            BY <1>7, <4>1, <5>2 DEF FoundOK
          <6>2. y.since \in 1 .. L + 1
            BY <6>1
          <6>3. y.since \in 1 .. Len(log'[p]) /\ y.seen.len = log'[p][y.since]
            BY <1>8, <6>1, <6>2
          <6> QED
            BY <4>1, <5>2, <6>3 DEF FoundOK
        <5> QED
          BY <5>1, <5>2, Zenon
    <3> QED
      BY <1>1, <2>1, <3>2, <3>3 DEF ReaderOK
  <2> QED
    BY <1>0, <1>1, <2>1 DEF ReadersOK, Types
<1> QED
  BY <1>9, <1>10, <1>11, <1>12 DEF IInv

-----------------------------------------------------------------------------
LEMMA NextIInv == IInv /\ [Next]_vars => IInv'
<1> SUFFICES ASSUME IInv, [Next]_vars
             PROVE  IInv'
  OBVIOUS
<1>1. CASE Next
  BY <1>1, Adding, Beginning, Writing, Ending, AfterWrite, ReaderSteps DEF Next, FinishWrite
<1>2. CASE UNCHANGED vars
  <2>1. UNCHANGED <<toc, serial, value, log, w, rd>>
    BY <1>2 DEF vars
  <2>2. Types' /\ TocFits' /\ WriterFits'
    BY <2>1, Zenon DEF IInv, Types, TocFits, Listed, WriterFits
  <2>3. (\A i : Settled(i)' <=> Settled(i)) /\ (\A y : ReaderOK(y)' <=> ReaderOK(y))
    <3>1. \A i : Settled(i)' <=> Settled(i)
      BY <2>1 DEF Settled, Busy, SERIAL_DIRTY
    <3>2. \A i, g : Moved(i, g)' = Moved(i, g)
      BY <2>1 DEF Moved, Busy
    <3>3. \A y : CopyOK(y)' <=> CopyOK(y)
      BY <2>1, <3>2 DEF CopyOK
    <3>4. \A y : FoundOK(y)' <=> FoundOK(y)
      BY <2>1 DEF FoundOK
    <3>5. \A y : ReaderOK(y)' <=> ReaderOK(y)
      BY <2>1, <3>3, <3>4 DEF ReaderOK
    <3> QED
      BY <3>1, <3>5
  <2>4. PropsSettled' /\ ReadersOK'
    BY <2>1, <2>3 DEF IInv, PropsSettled, ReadersOK
  <2> QED
    BY <2>2, <2>4 DEF IInv
<1> QED
  BY <1>1, <1>2

\* What __system_property_get returns is one value of the property asked for, as
\* the writer wrote it, and one that was current during the call.
THEOREM NeverTorn == Spec => []ReadNotTorn
<1>1. IInv => ReadNotTorn
  <2> SUFFICES ASSUME IInv, NEW r \in Readers, rd[r].pc = "found"
               PROVE  /\ toc[rd[r].index] = rd[r].name
                      /\ \E g \in rd[r].since .. Len(log[rd[r].index]) :
                           /\ rd[r].seen.len = log[rd[r].index][g]
                           /\ \A k \in 1 .. rd[r].seen.len : rd[r].buf[k] = g
    BY DEF ReadNotTorn
  <2>1. ReaderOK(rd[r]) /\ Reads(rd[r])
    BY DEF IInv, ReadersOK, Reads
  <2>2. toc[rd[r].index] = rd[r].name /\ FoundOK(rd[r])
    BY <2>1 DEF ReaderOK
  <2>3. rd[r].since \in rd[r].since .. Len(log[rd[r].index])
    BY <2>2 DEF FoundOK
  <2> QED
    BY <2>2, <2>3, Zenon DEF FoundOK
<1> QED
  BY <1>1, InitIInv, NextIInv, PTL DEF Spec

-----------------------------------------------------------------------------
ThreadStates ==
  [pc : {"none", "read", "ready"}, _serial : Nat, nsaddr_list : [Servers -> Nat], n : Servers]

StateTypeOK ==
  /\ dns \in [Servers -> Nat]
  /\ change \in Nat
  /\ service \in {"idle", "announce", "write"}
  /\ rt \in ThreadStates

\* The servers that res_ninit has read since the serial number was recorded.
ReadSoFar(n) == rt.pc = "ready" \/ (rt.pc = "read" /\ n < rt.n)

(***************************************************************************)
(* What a thread has read with the serial number that net.change still has *)
(* is current.  The recorded number is never ahead of net.change, so each  *)
(* change that is announced makes it an old one.                           *)
(***************************************************************************)
ReadIsCurrent ==
  /\ rt._serial <= change
  /\ rt._serial = change /\ service = "idle" =>
       \A n \in Servers : ReadSoFar(n) => rt.nsaddr_list[n] = dns[n]

\* The addresses of the servers stay the same during a call.
CallFreezesServers == pc # "idle" => rt.pc = "ready"

SentTypeOK == sent \in [Servers -> [dg : Nat, vc : Nat]]

(***************************************************************************)
(* A call by datagrams: the servers before ns have had one datagram more   *)
(* than those after it, and the one that is awaited has had it too.        *)
(***************************************************************************)
DatagramsCounted ==
  pc # "idle" /\ ~v_circuit =>
    /\ pc \in {"send", "wait"}
    /\ try < Retry
    /\ ~connreset
    /\ _vcsock = NoSocket
    /\ \A n \in Servers :
         /\ sent[n].vc = 0
         /\ sent[n].dg = IF n < ns \/ (n = ns /\ pc = "wait") THEN try + 1 ELSE try

(***************************************************************************)
(* A call over a circuit, from the start or since an answer was truncated: *)
(* the servers before ns have been asked, those after it not by circuit,   *)
(* and ns itself once more if the circuit was reset.                       *)
(***************************************************************************)
CircuitsCounted ==
  pc # "idle" /\ v_circuit =>
    /\ pc \in {"send", "read"}
    /\ pc = "read" => try = Retry
    /\ \A n \in Servers :
         /\ n < ns => sent[n].dg + sent[n].vc > 0
         /\ n > ns => sent[n].vc = 0
    /\ sent[ns].vc = (IF connreset THEN 1 ELSE 0) + (IF pc = "read" THEN 1 ELSE 0)

(***************************************************************************)
(* A datagram socket is open only when there is a copy of the addresses,   *)
(* and in a call only to the address that its server has now, so that      *)
(* send_dg need not look at the peer.  The test that precedes the loops    *)
(* (needclose) is what makes this so after a change of the addresses.      *)
(***************************************************************************)
SocketsMatch ==
  /\ nssocks = [n \in Servers |-> nssocks[n]]
  /\ nsaddrs = Closed => nssocks = Closed
  /\ pc # "idle" => /\ nsaddrs # Closed
                    /\ \A n \in Servers : nssocks[n] \in {NoSocket, Addr(n)}

\* Nothing of a call is left after it, and its result is not there before its end.
CallsApart ==
  /\ pc = "idle" => ~connreset
  /\ pc # "idle" => result = "none"

\* The inductive invariant.
SendIInv ==
  /\ SendTypeOK
  /\ StateTypeOK
  /\ SentTypeOK
  /\ ReadIsCurrent
  /\ CallFreezesServers
  /\ DatagramsCounted
  /\ CircuitsCounted
  /\ CallsApart
  /\ SocketsMatch
  /\ Attempts
  /\ RightServer
  /\ NoSocketLeft

LEMMA SendInitIInv == SendInit => SendIInv
<1> SUFFICES ASSUME SendInit
             PROVE  SendIInv
  OBVIOUS
<1>1. 1 \in Servers
  BY ResStateAssumption DEF Servers
<1>2. StateTypeOK
  BY <1>1 DEF SendInit, StateInit, StateTypeOK, ThreadStates
<1>3. ReadIsCurrent
  BY DEF SendInit, StateInit, ReadIsCurrent, ReadSoFar
<1>4. SendTypeOK
  <2>1. try \in 0 .. Retry
    BY ResSendAssumption DEF SendInit
  <2> QED
    BY <1>1, <2>1, Zenon DEF SendInit, SendTypeOK
<1>5. SentTypeOK /\ \A n \in Servers : sent[n].dg = 0 /\ sent[n].vc = 0
  BY DEF SendInit, SentTypeOK, NotSent
<1>6. Attempts
  BY <1>5, ResSendAssumption DEF SendInit, Attempts, Failures
<1>7. SocketsMatch
  BY DEF SendInit, SocketsMatch, Closed
<1> QED
  BY <1>2, <1>3, <1>4, <1>5, <1>6, <1>7
     DEF SendInit, StateInit, SendIInv, CallFreezesServers, DatagramsCounted, CircuitsCounted,
         CallsApart, RightServer, NoSocketLeft

-----------------------------------------------------------------------------
(***************************************************************************)
(* The steps of ResState.                                                  *)
(***************************************************************************)
\* What the two steps of the thread do to the fields of its state.
LEMMA GetFields ==
  ASSUME StateTypeOK, _res_thread_get
  PROVE  /\ rt' \in ThreadStates
         /\ rt'.pc = "read" /\ rt'._serial = change /\ rt'.n = 1
<1>1. 1 \in Servers
  BY ResStateAssumption DEF Servers
<1>2. rt' \in ThreadStates
  BY <1>1, Zenon DEF StateTypeOK, ThreadStates, _res_thread_get
<1> QED
  BY <1>2 DEF StateTypeOK, ThreadStates, _res_thread_get

LEMMA ReadDnsFields ==
  ASSUME StateTypeOK, ReadDns
  PROVE  /\ rt' \in ThreadStates
         /\ rt.pc = "read"
         /\ rt'._serial = rt._serial
         /\ rt'.nsaddr_list = [rt.nsaddr_list EXCEPT ![rt.n] = dns[rt.n]]
         /\ rt'.n = IF rt.n = NsCount THEN 1 ELSE rt.n + 1
         /\ rt'.pc = IF rt.n = NsCount THEN "ready" ELSE "read"
<1>1. PICK list, next, step :
        /\ list = [rt.nsaddr_list EXCEPT ![rt.n] = dns[rt.n]]
        /\ next = IF rt.n = NsCount THEN 1 ELSE rt.n + 1
        /\ step = IF rt.n = NsCount THEN "ready" ELSE "read"
  BY Zenon
<1>2. rt' = [rt EXCEPT !.nsaddr_list = list, !.n = next, !.pc = step]
  BY <1>1 DEF StateTypeOK, ThreadStates, ReadDns
<1>3. list \in [Servers -> Nat] /\ step \in {"ready", "read"}
  BY <1>1 DEF StateTypeOK, ThreadStates
<1>4. rt.n \in Servers
  BY DEF StateTypeOK, ThreadStates
<1>5. next \in Servers
  BY <1>1, <1>4, ResStateAssumption DEF Servers
<1>6. rt' \in ThreadStates
  BY <1>2, <1>3, <1>5, Zenon DEF StateTypeOK, ThreadStates
<1>7. /\ rt'._serial = rt._serial /\ rt'.nsaddr_list = list
      /\ rt'.n = next /\ rt'.pc = step
  BY <1>2 DEF StateTypeOK, ThreadStates
<1> QED
  BY <1>1, <1>6, <1>7 DEF ReadDns

LEMMA StateVarsStep ==
  ASSUME StateTypeOK, ReadIsCurrent, Service \/ _res_thread_get \/ ReadDns
  PROVE  StateTypeOK' /\ ReadIsCurrent'
<1>1. /\ rt._serial \in Nat /\ rt.n \in Servers /\ change \in Nat
      /\ rt.nsaddr_list \in [Servers -> Nat]
  BY DEF StateTypeOK, ThreadStates
<1>2. ASSUME NEW n \in Servers, SetDns(n)
      PROVE  StateTypeOK' /\ ReadIsCurrent'
  BY <1>2 DEF SetDns, StateTypeOK, ReadIsCurrent
<1>3. CASE Announce
  BY <1>1, <1>3 DEF Announce, StateTypeOK, ReadIsCurrent
<1>4. CASE _res_thread_get
  <2>1. StateTypeOK' /\ UNCHANGED <<dns, change, service>>
    BY <1>4, GetFields DEF _res_thread_get, StateTypeOK
  <2>2. ASSUME NEW n \in Servers
        PROVE  ~ReadSoFar(n)'
    BY <1>4, GetFields, ResStateAssumption DEF ReadSoFar, Servers
  <2> QED
    BY <1>1, <1>4, <2>1, <2>2, GetFields DEF ReadIsCurrent
<1>5. CASE ReadDns
  <2>1. StateTypeOK' /\ UNCHANGED <<dns, change, service>>
    BY <1>5, ReadDnsFields DEF ReadDns, StateTypeOK
  <2>2. ASSUME rt._serial = change, service = "idle", NEW n \in Servers, ReadSoFar(n)'
        PROVE  rt'.nsaddr_list[n] = dns[n]
    <3>1. CASE n = rt.n
      BY <1>1, <1>5, <3>1, ReadDnsFields
    <3>2. CASE n # rt.n
      <4>1. ReadSoFar(n)
        BY <1>1, <1>5, <2>2, <3>2, ReadDnsFields, ResStateAssumption DEF ReadSoFar, Servers
      <4>2. rt.nsaddr_list[n] = dns[n]
        BY <2>2, <4>1 DEF ReadIsCurrent
      <4> QED
        BY <1>1, <1>5, <3>2, <4>2, ReadDnsFields
    <3> QED
      BY <3>1, <3>2
  <2> QED
    BY <1>5, <2>1, <2>2, ReadDnsFields DEF ReadIsCurrent
<1> QED
  BY <1>2, <1>3, <1>4, <1>5 DEF Service

LEMMA StateIInv == SendIInv /\ State => SendIInv'
<1> SUFFICES ASSUME SendIInv, State
             PROVE  SendIInv'
  OBVIOUS
<1>1. StateTypeOK' /\ ReadIsCurrent'
  BY StateVarsStep DEF SendIInv, State
<1>2. UNCHANGED <<pc, v_circuit, try, ns, gotsomewhere, connreset, result, sent>>
  BY DEF State
<1>3. CASE /\ pc = "idle" /\ _res_thread_get
           /\ res_nclose
           /\ own' = {} /\ nsaddrs' = Closed
           /\ options' = {}
  <2>1. SocketsMatch'
    BY <1>2, <1>3 DEF SocketsMatch, res_nclose, Closed
  <2> QED
    BY <1>1, <1>2, <1>3, <2>1, Zenon
       DEF SendIInv, SendTypeOK, SentTypeOK, CallFreezesServers, DatagramsCounted, CircuitsCounted,
           CallsApart, Attempts, RightServer, NoSocketLeft, res_nclose
<1>4. CASE /\ Service \/ ReadDns
           /\ UNCHANGED <<addrs, sockets, options>>
  <2>1. pc # "idle" => UNCHANGED rt
    BY <1>4 DEF SendIInv, CallFreezesServers, ReadDns, Service, Announce, SetDns
  <2>2. UNCHANGED <<own, nsaddrs, nssocks, _vcsock>>
    BY <1>4 DEF addrs, sockets
  <2>3. pc # "idle" => \A n : Addr(n)' = Addr(n)
    BY <2>1, <2>2 DEF Addr
  <2>4. SocketsMatch'
    BY <1>2, <2>2, <2>3, Zenon DEF SendIInv, SocketsMatch, Closed
  <2> QED
    BY <1>1, <1>2, <1>4, <2>1, <2>2, <2>3, <2>4, Zenon
       DEF SendIInv, SendTypeOK, SentTypeOK, CallFreezesServers, DatagramsCounted, CircuitsCounted,
           CallsApart, Attempts, RightServer, NoSocketLeft, Closed
<1> QED
  BY <1>3, <1>4 DEF State

-----------------------------------------------------------------------------
(***************************************************************************)
(* The steps of a call leave the state of the thread alone.                *)
(***************************************************************************)
LEMMA StateVarsSame ==
  ASSUME StateTypeOK, ReadIsCurrent, UNCHANGED stateVars
  PROVE  StateTypeOK' /\ ReadIsCurrent'
BY DEF stateVars, StateTypeOK, ReadIsCurrent, ReadSoFar

\* No address is taken for a socket that is not open.
LEMMA AddressIsNoSocket ==
  ASSUME StateTypeOK, NEW n \in Servers
  PROVE  Addr(n) # NoSocket
<1>1. rt.nsaddr_list[n] \in Nat
  BY DEF StateTypeOK, ThreadStates
<1>2. Addr(n) \in Servers \X Nat \X {0, 1}
  BY <1>1 DEF Addr
<1> QED
  BY <1>2, ResSendAssumption

\* In a call sockets are left as they are or all closed.
LEMMA SocketsKept ==
  ASSUME SocketsMatch, UNCHANGED <<rt, own, nsaddrs>>, res_nclose \/ UNCHANGED sockets,
         pc # "idle" \/ pc' = "idle"
  PROVE  SocketsMatch'
<1>1. \A n : Addr(n)' = Addr(n)
  BY DEF Addr
<1>2. CASE res_nclose
  BY <1>1, <1>2 DEF SocketsMatch, res_nclose, Closed
<1>3. CASE UNCHANGED sockets
  BY <1>1, <1>3, Zenon DEF SocketsMatch, sockets, Closed
<1> QED
  BY <1>2, <1>3

\* One datagram, or one query over a circuit, more to the server that is asked.
LEMMA CountDatagram ==
  ASSUME SentTypeOK, ns \in Servers, sent[ns].dg < Retry,
         sent' = [sent EXCEPT ![ns].dg = Count(@)]
  PROVE  /\ SentTypeOK'
         /\ \A n \in Servers : /\ sent'[n].dg = IF n = ns THEN sent[n].dg + 1 ELSE sent[n].dg
                               /\ sent'[n].vc = sent[n].vc
BY ResSendAssumption DEF SentTypeOK, Count

LEMMA CountCircuit ==
  ASSUME SentTypeOK, ns \in Servers, sent[ns].vc < 2,
         sent' = [sent EXCEPT ![ns].vc = Count(@)]
  PROVE  /\ SentTypeOK'
         /\ \A n \in Servers : /\ sent'[n].vc = IF n = ns THEN sent[n].vc + 1 ELSE sent[n].vc
                               /\ sent'[n].dg = sent[n].dg
BY ResSendAssumption DEF SentTypeOK, Count

(***************************************************************************)
(* next_ns after an attempt that has been counted: c is whether it was by  *)
(* circuit.                                                                *)
(***************************************************************************)
Asked(c) ==
  /\ SentTypeOK'
  /\ \A n \in Servers : sent'[n].dg <= Retry /\ sent'[n].vc <= 2
  /\ v_circuit = c
  /\ ~c => /\ try < Retry
           /\ _vcsock = NoSocket
           /\ \A n \in Servers :
                /\ sent'[n].vc = 0
                /\ sent'[n].dg = IF n <= ns THEN try + 1 ELSE try
  /\ c => /\ sent'[ns].vc > 0
          /\ \A n \in Servers :
               /\ n <= ns => sent'[n].dg + sent'[n].vc > 0
               /\ n > ns => sent'[n].vc = 0

CallInv ==
  /\ SendTypeOK
  /\ SentTypeOK
  /\ CallFreezesServers
  /\ DatagramsCounted
  /\ CircuitsCounted
  /\ CallsApart
  /\ SocketsMatch
  /\ Attempts
  /\ RightServer
  /\ NoSocketLeft

LEMMA NextNsCounted ==
  ASSUME SendTypeOK, CallFreezesServers, CallsApart, SocketsMatch, pc # "idle",
         gotsomewhere' \in BOOLEAN, UNCHANGED <<rt, own, nsaddrs, options>>,
         NEW c \in BOOLEAN, Asked(c),
         NEW t \in Nat, t = IF c THEN Retry ELSE try,
         NEW close \in BOOLEAN, NextNs(t, close)
  PROVE  CallInv'
<1> USE ResStateAssumption, ResSendAssumption
<1>1. try \in 0 .. Retry /\ ns \in 1 .. NsCount /\ Retry \in Nat \ {0} /\ NsCount \in Nat \ {0}
  BY DEF SendTypeOK, Servers
<1>2. SentTypeOK'
  BY DEF Asked
<1>2a. SocketsMatch'
  <2>1. res_nclose \/ UNCHANGED sockets
    BY Zenon DEF NextNs
  <2> QED
    BY <2>1, SocketsKept, Zenon
<1>3. CASE /\ ns < NsCount \/ t + 1 < Retry
           /\ ns' = IF ns < NsCount THEN ns + 1 ELSE 1
           /\ try' = IF ns < NsCount THEN t ELSE t + 1
           /\ pc' = "send"
           /\ connreset' = FALSE
           /\ IF close THEN res_nclose ELSE UNCHANGED sockets
           /\ UNCHANGED <<v_circuit, result>>
  <2>1. SendTypeOK'
    <3>1. try' \in 0 .. Retry /\ ns' \in Servers
      BY <1>1, <1>3 DEF Asked, Servers
    <3> QED
      BY <1>3, <3>1, Zenon DEF SendTypeOK
  <2>2. CallFreezesServers' /\ CallsApart' /\ RightServer' /\ NoSocketLeft'
    BY <1>3 DEF CallFreezesServers, CallsApart, RightServer, NoSocketLeft
  <2>3. Attempts'
    BY <1>3, Zenon DEF Attempts, Asked, CallsApart, Failures
  <2>4. DatagramsCounted'
    BY <1>1, <1>3 DEF DatagramsCounted, Asked, Servers, res_nclose, sockets
  <2>5. CircuitsCounted'
    <3> SUFFICES ASSUME v_circuit'
                 PROVE  CircuitsCounted'
      BY Zenon DEF CircuitsCounted
    <3>1. c
      BY <1>3 DEF Asked
    <3>2. ns' = ns + 1
      BY <1>1, <1>3, <3>1
    <3>3. \A n \in Servers : (n <= ns => sent'[n].dg + sent'[n].vc > 0) /\ (n > ns => sent'[n].vc = 0)
      BY <3>1 DEF Asked
    <3>4. ns' \in Servers /\ ns' > ns
      BY ONLY <1>1, <1>3, <3>2 DEF Servers
    <3>5. \A n \in Servers : (n < ns' => n <= ns) /\ (n > ns' => n > ns)
      BY ONLY <1>1, <3>2 DEF Servers
    <3>6. sent'[ns'].vc = (IF FALSE THEN 1 ELSE 0) + (IF FALSE THEN 1 ELSE 0)
      BY ONLY <3>3, <3>4
    <3> QED
      BY ONLY <1>3, <3>3, <3>5, <3>6 DEF CircuitsCounted
  <2> QED
    BY <1>2, <1>2a, <2>1, <2>2, <2>3, <2>4, <2>5 DEF CallInv
<1>4. CASE ns = NsCount /\ t + 1 >= Retry /\ res_nclose /\ SendReturn(Errno)
  <2>1. Errno \in Failures /\ (c => Errno = "terrno")
    BY DEF Errno, Failures, Asked
  <2>2. SendTypeOK'
    <3>1. try' \in 0 .. Retry /\ ns' \in Servers
      BY <1>1, <1>4 DEF SendReturn, Servers
    <3> QED
      BY <1>4, <2>1, <3>1, Zenon DEF SendTypeOK, SendReturn
  <2>3. CallFreezesServers' /\ CallsApart' /\ RightServer' /\ NoSocketLeft'
    BY <1>4 DEF CallFreezesServers, CallsApart, RightServer, NoSocketLeft, SendReturn, res_nclose
  <2>4. Attempts'
    <3>1. CASE ~c
      BY <1>1, <1>4, <3>1 DEF Attempts, Asked, SendReturn, Servers
    <3>2. CASE c
      <4>1. \A n \in Servers : n <= ns
        BY <1>1, <1>4 DEF Servers
      <4>2. ns \in Servers /\ result' = "terrno"
        BY <1>4, <2>1, <3>2, Zenon DEF SendTypeOK, SendReturn
      <4>3. /\ \A n \in Servers : sent'[n].dg <= Retry /\ sent'[n].vc <= 2
            /\ sent'[ns].vc > 0
            /\ \A n \in Servers : sent'[n].dg + sent'[n].vc > 0
        BY <3>2, <4>1, Zenon DEF Asked
      <4> QED
        BY ONLY <4>2, <4>3, Zenon DEF Attempts
    <3> QED
      BY <3>1, <3>2, Zenon
  <2>5. DatagramsCounted' /\ CircuitsCounted'
    BY <1>4, Zenon DEF SendReturn, DatagramsCounted, CircuitsCounted
  <2> QED
    BY <1>2, <1>2a, <2>2, <2>3, <2>4, <2>5 DEF CallInv
<1> QED
  BY <1>3, <1>4, Zenon DEF NextNs

\* A call that gives up at once, or has its answer.
LEMMA ReturnCounted ==
  ASSUME SendTypeOK, SentTypeOK', CallFreezesServers,
         \A n \in Servers : sent'[n].dg <= Retry /\ sent'[n].vc <= 2,
         gotsomewhere' \in BOOLEAN, UNCHANGED <<rt, own, options>>,
         NEW r \in {"answer", "fatal"}, SendReturn(r), SocketsMatch', NoSocketLeft'
  PROVE  CallInv'
<1> USE ResStateAssumption, ResSendAssumption
<1>1. SendTypeOK'
  <2>1. try' \in 0 .. Retry /\ ns' \in Servers
    BY DEF SendReturn, Servers
  <2> QED
    BY <2>1, Zenon DEF SendTypeOK, SendReturn
<1>2. CallFreezesServers' /\ CallsApart' /\ RightServer' /\ DatagramsCounted' /\ CircuitsCounted'
  BY DEF CallFreezesServers, CallsApart, RightServer, DatagramsCounted, CircuitsCounted, SendReturn
<1>3. Attempts'
  BY DEF Attempts, Failures, SendReturn
<1> QED
  BY <1>1, <1>2, <1>3 DEF CallInv

LEMMA CallStep ==
  ASSUME CallInv, StateTypeOK, UNCHANGED stateVars,
         \/ SetOptions \/ (\E n \in Servers : SetServer(n)) \/ Call
         \/ SendDg \/ Timeout \/ NoAnswer \/ Rejected \/ Stray \/ Truncated
         \/ SendVc \/ ReadReset \/ ReadFails \/ Answer
  PROVE  CallInv'
<1> USE ResStateAssumption, ResSendAssumption
<1>1. /\ try \in 0 .. Retry /\ ns \in Servers /\ ns \in 1 .. NsCount
      /\ Retry \in Nat \ {0} /\ NsCount \in Nat \ {0} /\ 1 \in Servers
      /\ gotsomewhere \in BOOLEAN /\ v_circuit \in BOOLEAN /\ connreset \in BOOLEAN
  BY DEF CallInv, SendTypeOK, Servers
<1>2. UNCHANGED rt /\ (UNCHANGED own => \A n : Addr(n)' = Addr(n))
  BY DEF stateVars, Addr
<1>3. \A n \in Servers : sent[n].dg \in Nat /\ sent[n].vc \in Nat
  BY DEF CallInv, SentTypeOK
<1>4. ASSUME Asked(FALSE), pc # "idle", gotsomewhere' \in BOOLEAN, UNCHANGED <<addrs, options>>,
              NEW close \in BOOLEAN, NextNs(try, close)
       PROVE  CallInv'
  <2>1. try \in Nat /\ try = IF FALSE THEN Retry ELSE try
    BY <1>1
  <2>2. SendTypeOK /\ CallFreezesServers /\ CallsApart /\ SocketsMatch /\ UNCHANGED <<own, nsaddrs>>
    BY <1>4 DEF CallInv, addrs
  <2> QED
    BY <1>2, <1>4, <2>1, <2>2, NextNsCounted, Zenon
<1>5. ASSUME Asked(TRUE), pc # "idle", gotsomewhere' \in BOOLEAN, UNCHANGED <<addrs, options>>,
              NEW close \in BOOLEAN, NextNs(Retry, close)
       PROVE  CallInv'
  <2>1. Retry \in Nat /\ Retry = IF TRUE THEN Retry ELSE try
    BY <1>1
  <2>2. SendTypeOK /\ CallFreezesServers /\ CallsApart /\ SocketsMatch /\ UNCHANGED <<own, nsaddrs>>
    BY <1>5 DEF CallInv, addrs
  <2> QED
    BY <1>2, <1>5, <2>1, <2>2, NextNsCounted, Zenon
<1>6. CASE SetOptions
  <2>1. SendTypeOK'
    BY <1>6 DEF SetOptions, addrs, CallInv, SendTypeOK
  <2>2. SentTypeOK' /\ CallFreezesServers' /\ CallsApart' /\ Attempts'
    BY <1>2, <1>6, Zenon
       DEF SetOptions, CallInv, SentTypeOK, CallFreezesServers, CallsApart, Attempts
  <2>3. DatagramsCounted' /\ CircuitsCounted' /\ RightServer'
    BY <1>6 DEF SetOptions, DatagramsCounted, CircuitsCounted, RightServer
  <2>4. NoSocketLeft'
    BY <1>6 DEF SetOptions, sockets, CallInv, NoSocketLeft, Closed
  <2>5. SocketsMatch'
    BY <1>2, <1>6, SocketsKept, Zenon DEF SetOptions, addrs, CallInv
  <2> QED
    BY <2>1, <2>2, <2>3, <2>4, <2>5 DEF CallInv
<1>6a. ASSUME NEW m \in Servers, SetServer(m)
       PROVE  CallInv'
  <2>1. SendTypeOK'
    BY <1>6a DEF SetServer, CallInv, SendTypeOK
  <2>2. SentTypeOK' /\ CallFreezesServers' /\ CallsApart' /\ Attempts'
    BY <1>2, <1>6a, Zenon
       DEF SetServer, CallInv, SentTypeOK, CallFreezesServers, CallsApart, Attempts
  <2>3. DatagramsCounted' /\ CircuitsCounted' /\ RightServer'
    BY <1>6a DEF SetServer, DatagramsCounted, CircuitsCounted, RightServer
  <2>4. NoSocketLeft' /\ SocketsMatch'
    BY <1>6a, Zenon DEF SetServer, sockets, CallInv, NoSocketLeft, SocketsMatch, Closed
  <2> QED
    BY <2>1, <2>2, <2>3, <2>4 DEF CallInv
<1>7. CASE Call
  <2>1. SentTypeOK' /\ \A n \in Servers : sent'[n].dg = 0 /\ sent'[n].vc = 0
    BY <1>7 DEF Call, SentTypeOK, NotSent
  <2>2. SendTypeOK'
    <3>1. try' \in 0 .. Retry /\ ns' \in Servers
      BY <1>1, <1>7 DEF Call
    <3>2. v_circuit' \in BOOLEAN
      <4>1. v_circuit' = ("usevc" \in options) \/ v_circuit' = TRUE
        BY <1>7, Zenon DEF Call
      <4>2. ("usevc" \in options) = TRUE \/ ("usevc" \in options) = FALSE
        OBVIOUS
      <4>3. v_circuit' = TRUE \/ v_circuit' = FALSE
        BY <4>1, <4>2
      <4> QED
        BY <4>3, Zenon
    <3> QED
      BY <1>7, <3>1, <3>2, Zenon DEF Call, CallInv, SendTypeOK
  <2>3. CallFreezesServers' /\ CallsApart' /\ RightServer' /\ NoSocketLeft'
    BY <1>2, <1>7 DEF Call, CallFreezesServers, CallsApart, RightServer, NoSocketLeft
  <2>4. Attempts'
    BY <1>7, <2>1 DEF Call, Attempts, Failures
  <2>5. ~v_circuit' => _vcsock' = NoSocket
    BY <1>7, Zenon DEF Call, CallInv, NoSocketLeft, res_nclose, sockets
  <2>6. ~connreset'
    BY <1>7 DEF Call, CallInv, CallsApart
  <2>7. DatagramsCounted' /\ CircuitsCounted'
    <3>1. pc' = "send" /\ ns' = 1 /\ try' = 0 /\ connreset' = FALSE
      BY <1>1, <1>7, <2>6, Zenon DEF Call
    <3>2. 0 < Retry /\ \A n \in Servers : ~(n < 1)
      BY <1>1 DEF Servers
    <3>3. DatagramsCounted'
      BY ONLY <1>1, <2>1, <2>5, <3>1, <3>2 DEF DatagramsCounted
    <3>4. sent'[1].vc = (IF FALSE THEN 1 ELSE 0) + (IF FALSE THEN 1 ELSE 0)
      BY ONLY <1>1, <2>1
    <3> QED
      BY ONLY <2>1, <3>1, <3>2, <3>3, <3>4 DEF CircuitsCounted
  <2>8. nssocks' = Closed
    <3>1. CASE needclose
      BY <1>7, <3>1 DEF Call, res_nclose
    <3>2. CASE ~needclose /\ nsaddrs = Closed
      BY <1>7, <3>2 DEF Call, sockets, CallInv, SocketsMatch
    <3>3. CASE ~needclose /\ nsaddrs # Closed
      <4>1. \A n \in Servers : nssocks[n] = NoSocket
        BY <3>3, Zenon DEF needclose
      <4>2. nssocks = [n \in Servers |-> nssocks[n]]
        BY DEF CallInv, SocketsMatch
      <4>3. nssocks = Closed
        BY <4>1, <4>2 DEF Closed
      <4> QED
        BY <1>7, <3>3, <4>3 DEF Call, sockets
    <3> QED
      BY <3>1, <3>2, <3>3
  <2>9. nsaddrs' # Closed
    <3>1. CASE needclose \/ nsaddrs = Closed
      <4>1. nsaddrs'[1] = Addr(1)
        BY <1>1, <1>7, <3>1, Zenon DEF Call
      <4>2. Closed[1] = NoSocket
        BY <1>1 DEF Closed
      <4> QED
        BY <1>1, <4>1, <4>2, AddressIsNoSocket, Zenon
    <3>2. CASE ~(needclose \/ nsaddrs = Closed)
      BY <1>7, <3>2 DEF Call
    <3> QED
      BY <3>1, <3>2
  <2>10. SocketsMatch'
    <3>1. nsaddrs' # Closed'
      BY <2>9 DEF Closed
    <3> QED
      BY <2>8, <3>1 DEF SocketsMatch, Closed
  <2> QED
    BY <2>1, <2>2, <2>3, <2>4, <2>7, <2>10, Zenon DEF CallInv
<1>8. CASE SendDg
  <2>1. /\ pc = "send" /\ v_circuit = FALSE /\ try < Retry /\ _vcsock = NoSocket /\ ~connreset
        /\ \A n \in Servers : sent[n].vc = 0 /\ sent[n].dg = IF n < ns THEN try + 1 ELSE try
    BY <1>1, <1>8 DEF SendDg, CallInv, DatagramsCounted
  <2>2. /\ SentTypeOK'
        /\ \A n \in Servers : /\ sent'[n].dg = IF n = ns THEN sent[n].dg + 1 ELSE sent[n].dg
                              /\ sent'[n].vc = sent[n].vc
    BY <1>1, <1>8, <2>1, CountDatagram DEF SendDg, CallInv
  <2>3. \A n \in Servers : /\ sent'[n].vc = 0
                           /\ sent'[n].dg = IF n <= ns THEN try + 1 ELSE try
    BY <1>1, <2>1, <2>2 DEF Servers
  <2>4. \A n \in Servers : sent'[n].dg <= Retry /\ sent'[n].vc <= 2
    <3>1. try + 1 <= Retry /\ try <= Retry
      BY <1>1, <2>1
    <3>2. ASSUME NEW n \in Servers
          PROVE  sent'[n].dg <= Retry
      <4>1. sent'[n].dg = try + 1 \/ sent'[n].dg = try
        BY <2>3
      <4> QED
        BY <3>1, <4>1
    <3>3. ASSUME NEW n \in Servers
          PROVE  sent'[n].vc <= 2
      BY <2>3
    <3> QED
      BY <3>2, <3>3
  <2>5. Asked(FALSE)
    BY <2>1, <2>2, <2>3, <2>4, Zenon DEF Asked
  <2>5a. UNCHANGED <<addrs, own, nsaddrs, options>>
    BY <1>8 DEF SendDg, addrs
  <2>6. CASE /\ nssocks' = [nssocks EXCEPT ![ns] = IF @ = NoSocket THEN Addr(ns) ELSE @]
             /\ pc' = "wait"
             /\ UNCHANGED <<_vcsock, v_circuit, try, ns, connreset, result>>
    <3>1. SendTypeOK'
      BY <1>8, <2>6 DEF SendDg, addrs, CallInv, SendTypeOK
    <3>2. CallFreezesServers' /\ CallsApart' /\ NoSocketLeft'
      BY <1>2, <2>1, <2>6, Zenon
         DEF CallInv, CallFreezesServers, CallsApart, NoSocketLeft
    <3>2a. /\ nssocks = [n \in Servers |-> nssocks[n]] /\ nsaddrs # Closed
           /\ \A n \in Servers : nssocks[n] \in {NoSocket, Addr(n)}
      BY <2>1, Zenon DEF CallInv, SocketsMatch
    <3>2b. /\ nssocks' = [n \in Servers |-> nssocks'[n]]
           /\ nssocks'[ns] = Addr(ns)
           /\ \A n \in Servers : nssocks'[n] \in {NoSocket, Addr(n)}
      BY <1>1, <2>6, <3>2a
    <3>2c. RightServer' /\ SocketsMatch'
      BY <1>2, <2>5a, <2>6, <3>2a, <3>2b, Zenon DEF RightServer, SocketsMatch, Closed
    <3>3. Attempts'
      BY <2>1, <2>4, <2>6, Zenon DEF CallInv, CallsApart, Attempts, Failures
    <3>4. DatagramsCounted' /\ CircuitsCounted'
      <4>1. \A n \in Servers : n <= ns <=> n < ns \/ n = ns
        BY <1>1 DEF Servers
      <4>2. DatagramsCounted'
        BY <2>1, <2>3, <2>6, <4>1, Zenon DEF DatagramsCounted
      <4> QED
        BY <2>1, <2>6, <4>2, Zenon DEF CircuitsCounted
    <3> QED
      BY <2>2, <3>1, <3>2, <3>2c, <3>3, <3>4, Zenon DEF CallInv
  <2>7. CASE NextNs(try, TRUE) \/ NextNs(try, FALSE)
    BY <1>1, <1>8, <1>4, <2>1, <2>7, <2>5, <2>5a, Zenon DEF SendDg
  <2>8. CASE Fail
    <3>1. NoSocketLeft'
      BY <2>8 DEF Fail, res_nclose, NoSocketLeft, Closed
    <3>2. SocketsMatch'
      BY <1>2, <2>1, <2>5a, <2>8, SocketsKept, Zenon DEF Fail, CallInv
    <3> QED
      BY <1>1, <1>2, <3>2, <2>5a, <1>8, <2>2, <2>4, <2>8, <3>1, ReturnCounted DEF SendDg, CallInv, Fail
  <2> QED
    BY <1>8, <2>6, <2>7, <2>8, Zenon DEF SendDg
<1>9. ASSUME pc = "wait", UNCHANGED sent
      PROVE  Asked(FALSE)
  <2>1. /\ v_circuit = FALSE /\ try < Retry /\ _vcsock = NoSocket
        /\ \A n \in Servers : /\ sent'[n].vc = 0
                              /\ sent'[n].dg = IF n <= ns THEN try + 1 ELSE try
    <3>1. v_circuit = FALSE
      BY <1>1, <1>9, Zenon DEF CallInv, CircuitsCounted
    <3>2. /\ try < Retry /\ _vcsock = NoSocket
          /\ \A n \in Servers : /\ sent[n].vc = 0
                                /\ sent[n].dg = IF n < ns \/ n = ns THEN try + 1 ELSE try
      BY <1>9, <3>1, Zenon DEF CallInv, DatagramsCounted
    <3>3. \A n \in Servers : n <= ns <=> n < ns \/ n = ns
      BY <1>1 DEF Servers
    <3> QED
      BY ONLY <1>9, <3>1, <3>2, <3>3, Zenon
  <2> QED
    BY <1>1, <1>9, <2>1 DEF CallInv, SentTypeOK, Asked
<1>10. CASE Timeout \/ NoAnswer
  <2>1. pc = "wait" /\ UNCHANGED sent /\ gotsomewhere' \in BOOLEAN /\ UNCHANGED <<addrs, options>>
    BY <1>1, <1>10, Zenon DEF Timeout, NoAnswer
  <2> QED
    BY <1>9, <1>10, <1>4, <2>1, Zenon DEF Timeout, NoAnswer
<1>10a. CASE Rejected
  <2>1. /\ pc = "wait" /\ UNCHANGED <<rt, own, nsaddrs, sent, options>> /\ gotsomewhere' \in BOOLEAN
        /\ res_nclose /\ SendReturn("answer") /\ SentTypeOK'
    BY <1>2, <1>10a DEF Rejected, addrs, CallInv, SentTypeOK
  <2>2. NoSocketLeft' /\ SocketsMatch'
    <3>1. SocketsMatch'
      BY <2>1, SocketsKept, Zenon DEF CallInv
    <3> QED
      BY <2>1, <3>1 DEF res_nclose, NoSocketLeft, Closed
  <2> QED
    BY <2>1, <2>2, ReturnCounted, Zenon DEF CallInv, Attempts
<1>11. CASE Stray
  <2>1. SendTypeOK'
    BY <1>11 DEF Stray, addrs, CallInv, SendTypeOK
  <2>2. SocketsMatch' /\ \A n : Addr(n)' = Addr(n)
    BY <1>2, <1>11, SocketsKept, Zenon DEF Stray, addrs, CallInv
  <2> QED
    BY <1>2, <1>11, <2>1, <2>2, Zenon
       DEF Stray, sockets, Closed, CallInv, SentTypeOK, CallFreezesServers, DatagramsCounted,
           CircuitsCounted, CallsApart, Attempts, RightServer, NoSocketLeft
<1>12. CASE Truncated
  <2>1. Asked(FALSE) /\ pc = "wait" /\ ~connreset
    BY <1>9, <1>12, Zenon DEF Truncated, CallInv, DatagramsCounted, Asked
  <2>2. SendTypeOK'
    BY <1>12 DEF Truncated, addrs, CallInv, SendTypeOK
  <2>3. SentTypeOK' /\ CallFreezesServers' /\ CallsApart' /\ Attempts'
    BY <1>2, <1>12, Zenon
       DEF Truncated, CallInv, SentTypeOK, CallFreezesServers, CallsApart, Attempts
  <2>4. RightServer' /\ NoSocketLeft' /\ DatagramsCounted'
    BY <1>12, Zenon DEF Truncated, RightServer, NoSocketLeft, DatagramsCounted
  <2>4a. SocketsMatch'
    BY <1>2, <1>12, <2>1, SocketsKept, Zenon DEF Truncated, addrs, CallInv
  <2>5. CircuitsCounted'
    <3>1. /\ pc' = "send" /\ connreset' = FALSE /\ UNCHANGED <<ns, sent>>
          /\ \A n \in Servers : /\ sent[n].vc = 0
                                /\ sent[n].dg = IF n <= ns THEN try + 1 ELSE try
      BY <1>1, <1>12, <2>1, Zenon DEF Truncated, Asked
    <3>2. \A n \in Servers : n < ns => sent[n].dg + sent[n].vc > 0
      <4>1. \A n \in Servers : n < ns => n <= ns
        BY <1>1 DEF Servers
      <4>2. try + 1 + 0 > 0
        BY <1>1
      <4> QED
        BY ONLY <3>1, <4>1, <4>2, Zenon
    <3>3. sent[ns].vc = (IF FALSE THEN 1 ELSE 0) + (IF FALSE THEN 1 ELSE 0)
      BY ONLY <1>1, <3>1
    <3> QED
      BY ONLY <3>1, <3>2, <3>3 DEF CircuitsCounted
  <2> QED
    BY <2>2, <2>3, <2>4, <2>4a, <2>5 DEF CallInv
<1>13. CASE SendVc
  <2>1. /\ pc = "send" /\ v_circuit = TRUE
        /\ sent[ns].vc = IF connreset THEN 1 ELSE 0
        /\ \A n \in Servers : /\ n < ns => sent[n].dg + sent[n].vc > 0
                              /\ n > ns => sent[n].vc = 0
    BY <1>1, <1>13 DEF SendVc, CallInv, CircuitsCounted
  <2>2. /\ SentTypeOK'
        /\ \A n \in Servers : /\ sent'[n].vc = IF n = ns THEN sent[n].vc + 1 ELSE sent[n].vc
                              /\ sent'[n].dg = sent[n].dg
    BY <1>1, <1>13, <2>1, CountCircuit DEF SendVc, CallInv
  <2>3. \A n \in Servers : sent'[n].dg <= Retry /\ sent'[n].vc <= 2
    <3>1. \A n \in Servers : sent[n].dg <= Retry /\ sent[n].vc <= 2
      BY DEF CallInv, Attempts
    <3>2. \A n \in Servers : n # ns => sent'[n].dg <= Retry /\ sent'[n].vc <= 2
      BY ONLY <2>2, <3>1, Zenon
    <3>3. sent'[ns].dg <= Retry /\ sent'[ns].vc = sent[ns].vc + 1
      BY ONLY <1>1, <2>2, <3>1, Zenon
    <3>4. sent'[ns].vc <= 2
      <4>1. sent[ns].vc = 0 \/ sent[ns].vc = 1
        BY ONLY <2>1, Zenon
      <4> QED
        BY ONLY <3>3, <4>1
    <3> QED
      BY ONLY <3>2, <3>3, <3>4, Zenon
  <2>4. /\ sent'[ns].vc > 0
        /\ \A n \in Servers : /\ n <= ns => sent'[n].dg + sent'[n].vc > 0
                              /\ n > ns => sent'[n].vc = 0
    <3>1. sent'[ns].vc = sent[ns].vc + 1
      BY ONLY <1>1, <2>2, Zenon
    <3>2. sent'[ns].vc > 0 /\ sent'[ns].dg + sent'[ns].vc > 0
      <4>1. sent[ns].vc \in Nat /\ sent'[ns].dg \in Nat
        BY <1>1, <1>3, <2>2, Zenon
      <4> QED
        BY ONLY <3>1, <4>1
    <3>3. \A n \in Servers : n # ns => sent'[n].dg = sent[n].dg /\ sent'[n].vc = sent[n].vc
      BY ONLY <2>2, Zenon
    <3>4. \A n \in Servers : (n <= ns => n < ns \/ n = ns) /\ (n > ns => n # ns)
      BY <1>1 DEF Servers
    <3> QED
      BY ONLY <2>1, <3>2, <3>3, <3>4, Zenon
  <2>5. Asked(TRUE)
    BY <1>1, <2>1, <2>2, <2>3, <2>4, Zenon DEF Asked
  <2>5a. UNCHANGED <<addrs, own, nsaddrs, options>>
    BY <1>13 DEF SendVc, addrs
  <2>6. CASE /\ nssocks' = IF CheckedVc = _vcsock THEN nssocks ELSE Closed
             /\ _vcsock' = IF CheckedVc = NoSocket THEN Addr(ns) ELSE CheckedVc
             /\ try' = Retry
             /\ pc' = "read"
             /\ UNCHANGED <<v_circuit, ns, connreset, result>>
    <3>1. SendTypeOK'
      <4>1. try' \in 0 .. Retry
        BY <1>1, <2>6
      <4> QED
        BY <1>13, <2>6, <4>1 DEF SendVc, addrs, CallInv, SendTypeOK
    <3>2. CallFreezesServers' /\ CallsApart' /\ NoSocketLeft'
      BY <1>2, <2>1, <2>6, Zenon DEF CallInv, CallFreezesServers, CallsApart, NoSocketLeft
    <3>2a. _vcsock' = Addr(ns)
      BY <2>6 DEF CheckedVc
    <3>2b. RightServer'
      BY <1>2, <2>5a, <2>6, <3>2a, Zenon DEF RightServer
    <3>2c. SocketsMatch'
      <4>1. nssocks' = nssocks \/ nssocks' = Closed
        BY <2>6
      <4>2. SocketsMatch /\ \A n : Addr(n)' = Addr(n)
        BY <1>2, <2>5a, Zenon DEF CallInv
      <4> QED
        BY <2>1, <2>5a, <4>1, <4>2 DEF SocketsMatch, Closed
    <3>3. Attempts'
      BY <2>1, <2>3, <2>6, Zenon DEF CallInv, CallsApart, Attempts, Failures
    <3>4. DatagramsCounted' /\ CircuitsCounted'
      <4>1. DatagramsCounted'
        BY <2>1, <2>6, Zenon DEF DatagramsCounted
      <4>2. \A n \in Servers : n < ns => n <= ns
        BY <1>1 DEF Servers
      <4>3. sent'[ns].vc = (IF connreset' THEN 1 ELSE 0) + (IF pc' = "read" THEN 1 ELSE 0)
        BY ONLY <1>1, <2>1, <2>2, <2>6
      <4> QED
        BY <2>4, <2>6, <4>1, <4>2, <4>3, Zenon DEF CircuitsCounted
    <3> QED
      BY <2>2, <3>1, <3>2, <3>2b, <3>2c, <3>3, <3>4, Zenon DEF CallInv
  <2>7. CASE NextNs(Retry, TRUE) \/ NextNs(Retry, _vcsock # NoSocket)
    BY <1>1, <1>13, <1>5, <2>1, <2>5, <2>5a, <2>7, Zenon DEF SendVc
  <2>8. CASE Fail
    <3>1. NoSocketLeft'
      BY <2>8 DEF Fail, res_nclose, NoSocketLeft, Closed
    <3>2. SocketsMatch'
      BY <1>2, <2>1, <2>5a, <2>8, SocketsKept, Zenon DEF Fail, CallInv
    <3> QED
      BY <1>1, <1>2, <3>2, <2>5a, <1>13, <2>2, <2>3, <2>8, <3>1, ReturnCounted DEF SendVc, CallInv, Fail
  <2> QED
    BY <1>13, <2>6, <2>7, <2>8, Zenon DEF SendVc
<1>14. CASE ReadReset
  <2>1. SendTypeOK'
    BY <1>14 DEF ReadReset, addrs, CallInv, SendTypeOK
  <2>2. SentTypeOK' /\ CallFreezesServers' /\ CallsApart' /\ Attempts'
    BY <1>2, <1>14
       DEF ReadReset, CallInv, SentTypeOK, CallFreezesServers, CallsApart, Attempts
  <2>3. RightServer' /\ NoSocketLeft' /\ DatagramsCounted'
    BY <1>14, Zenon DEF ReadReset, CallInv, RightServer, NoSocketLeft, DatagramsCounted
  <2>4. CircuitsCounted'
    <3>1. pc = "read" /\ pc' = "send" /\ connreset = FALSE /\ connreset' = TRUE
          /\ UNCHANGED <<v_circuit, ns, sent>>
      BY <1>1, <1>14, Zenon DEF ReadReset
    <3>2. v_circuit => sent[ns].vc = 1
      <4>1. v_circuit => sent[ns].vc = (IF connreset THEN 1 ELSE 0) + (IF TRUE THEN 1 ELSE 0)
        BY ONLY <3>1, CallInv DEF CallInv, CircuitsCounted
      <4>2. (IF connreset THEN 1 ELSE 0) = 0
        BY ONLY <3>1, Zenon
      <4> QED
        BY ONLY <4>1, <4>2
    <3> QED
      BY ONLY <3>1, <3>2, CallInv DEF CallInv, CircuitsCounted
  <2>5. SocketsMatch'
    BY <1>2, <1>14, SocketsKept, Zenon DEF ReadReset, addrs, CallInv
  <2> QED
    BY <2>1, <2>2, <2>3, <2>4, <2>5, Zenon DEF CallInv
<1>15. CASE ReadFails
  <2>1. /\ pc = "read" /\ v_circuit = TRUE /\ try = Retry /\ sent[ns].vc > 0
        /\ \A n \in Servers : /\ n < ns => sent[n].dg + sent[n].vc > 0
                              /\ n > ns => sent[n].vc = 0
    <3>1. pc = "read" /\ v_circuit
      BY <1>1, <1>15 DEF ReadFails, CallInv, DatagramsCounted
    <3>2. sent[ns].vc = (IF connreset THEN 1 ELSE 0) + 1
      BY <3>1 DEF CallInv, CircuitsCounted
    <3>3. sent[ns].vc > 0
      BY <3>2
    <3> QED
      BY <1>1, <3>1, <3>3, Zenon DEF CallInv, CircuitsCounted
  <2>2. \A n \in Servers : n <= ns => sent[n].dg + sent[n].vc > 0
    BY <1>1, <1>3, <2>1 DEF Servers
  <2>3. Asked(TRUE)
    BY <1>15, <2>1, <2>2 DEF ReadFails, CallInv, Asked, Attempts, SentTypeOK
  <2> QED
    BY <1>1, <1>15, <1>5, <2>1, <2>3, Zenon DEF ReadFails
<1>16. CASE Answer
  <2>1. gotsomewhere' \in BOOLEAN /\ UNCHANGED <<own, nsaddrs, sent, options>> /\ SentTypeOK'
    BY <1>16 DEF Answer, addrs, CallInv, SentTypeOK
  <2>1a. SocketsMatch'
    <3>1. (res_nclose \/ UNCHANGED sockets) /\ pc' = "idle"
      BY ONLY <1>16, Zenon DEF Answer, SendReturn
    <3>2. SocketsMatch
      BY ONLY CallInv, Zenon DEF CallInv
    <3> QED
      BY ONLY <1>2, <2>1, <3>1, <3>2, SocketsKept, Zenon
  <2>2. NoSocketLeft'
    BY <1>1, <1>16, Zenon
       DEF Answer, SendReturn, res_nclose, sockets, Closed, CallInv, NoSocketLeft, DatagramsCounted
  <2> QED
    BY <1>2, <1>16, <2>1, <2>1a, <2>2, ReturnCounted, Zenon DEF Answer, CallInv, Attempts
<1> QED
  BY <1>6, <1>6a, <1>7, <1>8, <1>10, <1>10a, <1>11, <1>12, <1>13, <1>14, <1>15, <1>16, Zenon

-----------------------------------------------------------------------------
LEMMA SendNextIInv == SendIInv /\ [SendNext]_sendVars => SendIInv'
<1> SUFFICES ASSUME SendIInv, [SendNext]_sendVars
             PROVE  SendIInv'
  OBVIOUS
<1>1. CASE State
  BY <1>1, StateIInv
<1>2. CASE \/ SetOptions \/ (\E n \in Servers : SetServer(n)) \/ Call
           \/ SendDg \/ Timeout \/ NoAnswer \/ Rejected \/ Stray \/ Truncated
           \/ SendVc \/ ReadReset \/ ReadFails \/ Answer
  <2>1. UNCHANGED stateVars
    BY <1>2, Zenon DEF SetOptions, SetServer, Call, SendDg, Timeout, NoAnswer, Rejected, Stray, Truncated, SendVc, ReadReset,
                ReadFails, Answer
  <2> QED
    BY <1>2, <2>1, CallStep, StateVarsSame, Zenon DEF SendIInv, CallInv
<1>3. CASE UNCHANGED sendVars
  <2>1. UNCHANGED stateVars
    BY <1>3, Zenon DEF sendVars
  <2>2. StateTypeOK' /\ ReadIsCurrent'
    BY <2>1, StateVarsSame, Zenon DEF SendIInv
  <2>3. SendTypeOK' /\ SentTypeOK' /\ CallFreezesServers' /\ CallsApart'
    BY <1>3 DEF sendVars, stateVars, addrs, sockets, SendIInv, SendTypeOK, SentTypeOK, CallFreezesServers, CallsApart
  <2>4. DatagramsCounted' /\ CircuitsCounted'
    BY <1>3, Zenon DEF sendVars, stateVars, sockets, SendIInv, DatagramsCounted, CircuitsCounted
  <2>5. Attempts' /\ RightServer' /\ NoSocketLeft' /\ SocketsMatch'
    BY <1>3, Zenon DEF sendVars, stateVars, addrs, sockets, SendIInv, Attempts, RightServer,
                       NoSocketLeft, SocketsMatch, Addr, Closed
  <2> QED
    BY <2>2, <2>3, <2>4, <2>5, Zenon DEF SendIInv
<1> QED
  BY <1>1, <1>2, <1>3 DEF SendNext

LEMMA SendInvariance == SendSpec => []SendIInv
BY SendInitIInv, SendNextIInv, PTL DEF SendSpec

\* Whenever the test of _res_thread_get finds the serial number of net.change
\* unchanged, and nothing is left to announce, the servers of the thread are the
\* current ones, for any number of servers and of changes.
THEOREM ServersCurrent == SendSpec => []UnchangedIsCurrent
<1>1. SendIInv => UnchangedIsCurrent
  <2> SUFFICES ASSUME SendIInv, Unchanged, service = "idle"
               PROVE  rt.nsaddr_list = dns
    BY DEF UnchangedIsCurrent
  <2>1. \A n \in Servers : rt.nsaddr_list[n] = dns[n]
    BY DEF SendIInv, ReadIsCurrent, ReadSoFar, Unchanged
  <2>2. rt.nsaddr_list \in [Servers -> Nat] /\ dns \in [Servers -> Nat]
    BY DEF SendIInv, StateTypeOK, ThreadStates
  <2> QED
    BY <2>1, <2>2
<1> QED
  BY <1>1, SendInvariance, PTL

\* The loops of res_nsend ask every server, RETRY times by datagram, or once over a
\* circuit and once more after a reset, and no more often, before they give up.
THEOREM AttemptsCounted == SendSpec => []Attempts
<1>1. SendIInv => Attempts
  BY DEF SendIInv
<1> QED
  BY <1>1, SendInvariance, PTL

\* send_dg and send_vc await a reply only on a socket connected to the server they
\* have asked.
THEOREM AsksRightServer == SendSpec => []RightServer
<1>1. SendIInv => RightServer
  BY DEF SendIInv
<1> QED
  BY <1>1, SendInvariance, PTL

\* res_nclose has closed what is not kept open on purpose when res_nsend returns.
THEOREM SocketsClosed == SendSpec => []NoSocketLeft
<1>1. SendIInv => NoSocketLeft
  BY DEF SendIInv
<1> QED
  BY <1>1, SendInvariance, PTL
=============================================================================
