-------------------------- MODULE SystemProperties --------------------------
(***************************************************************************)
(* System properties: the readers of libc/bionic/system_properties.c, in   *)
(* any number of processes, and the one writer, another process, which     *)
(* follows the rules in libc/include/sys/_system_properties.h.  Readers    *)
(* use no lock: they copy the value and look at the serial number again.   *)
(*                                                                         *)
(* A value is some words, written and copied one at a time; a word is      *)
(* represented by the number of the write it belongs to.  Memory is        *)
(* sequentially consistent.                                                *)
(***************************************************************************)
EXTENDS Integers, Sequences, FiniteSets

CONSTANTS
  Readers, Names,
  MaxLen,     \* bound: words in a value
  MaxWrites,  \* bound: writes to a property
  SerialSize, \* the counter in a serial number has this many values (2^24)
  None

ASSUME SystemPropertiesAssumption ==
  /\ IsFiniteSet(Names)
  /\ MaxLen \in Nat \ {0}
  /\ MaxWrites \in Nat \ {0}
  /\ SerialSize \in Nat /\ SerialSize > 2 /\ SerialSize % 2 = 0
  /\ None \notin Names

Area == 0                       \* stands for the prop_area in serial
Props == 1 .. Cardinality(Names)
NoValue == [k \in 1 .. MaxLen |-> 0]
NoSerial == [len |-> 0, n |-> 0]

VARIABLES
  toc,    \* the names of the properties that exist; count is its length
  serial, \* of each property and of the area: length of the value, counter
  value,  \* of each property: its words
  log,    \* of each property: the lengths of all values written so far
  w,      \* the writer: its step, and the property, length and next word
  rd      \* of each reader: its step pc; the name it looks for; the index it
          \* is at and the limit of its search; the serial number seen, with
          \* the length of log since when; the copy buf and its next word

vars == <<toc, serial, value, log, w, rd>>

IdleWriter == [pc |-> "idle", prop |-> Area, len |-> 0, next |-> 0]

IdleReader ==
  [pc |-> "idle", name |-> None, index |-> Area, limit |-> 0,
   seen |-> NoSerial, since |-> 0, buf |-> NoValue, next |-> 0]

Init ==
  /\ toc = <<>>
  /\ serial = [i \in Props \cup {Area} |-> NoSerial]
  /\ value = [i \in Props |-> NoValue]
  /\ log = [i \in Props |-> <<>>]
  /\ w = IdleWriter
  /\ rd = [r \in Readers |-> IdleReader]

SERIAL_DIRTY(s) == s.n % 2 = 1

-----------------------------------------------------------------------------
(***************************************************************************)
(* The writer.  A new property is complete before count includes it.       *)
(***************************************************************************)
AddProperty(n, len) ==
  LET i == Len(toc) + 1 IN
  /\ w.pc = "idle"
  /\ n \notin {toc[j] : j \in 1 .. Len(toc)}
  /\ toc' = Append(toc, n)
  /\ value' = [value EXCEPT ![i] = [k \in 1 .. MaxLen |-> IF k <= len THEN 1 ELSE 0]]
  /\ log' = [log EXCEPT ![i] = <<len>>]
  /\ serial' = [serial EXCEPT ![i].len = len]
  /\ w' = [w EXCEPT !.pc = "area"]
  /\ UNCHANGED rd

(***************************************************************************)
(* The counter must not come round between a reader's two loads of it: the *)
(* rules rely on that.                                                     *)
(***************************************************************************)
NoWrap(i) ==
  \A r \in Readers :
    rd[r].pc \in {"copy", "futex", "waitfutex", "asleep", "waitasleep", "waitload"} /\ rd[r].index = i =>
      IF i = Area THEN rd[r].seen.n # (serial[i].n + 1) % SerialSize
                  ELSE Len(log[i]) + 1 - rd[r].since < SerialSize \div 2

WriteDirty(i, len) ==
  /\ w.pc = "idle"
  /\ i <= Len(toc)
  /\ Len(log[i]) < MaxWrites
  /\ serial' = [serial EXCEPT ![i].n = @ + 1]
  /\ w' = [pc |-> "copy", prop |-> i, len |-> len, next |-> 1]
  /\ UNCHANGED <<toc, value, log, rd>>

WriteWord ==
  /\ w.pc = "copy"
  /\ w.next <= w.len
  /\ value' = [value EXCEPT ![w.prop][w.next] = Len(log[w.prop]) + 1]
  /\ w' = [w EXCEPT !.next = @ + 1]
  /\ UNCHANGED <<toc, serial, log, rd>>

WriteSerial ==
  /\ w.pc = "copy"
  /\ w.next > w.len
  /\ NoWrap(w.prop)
  /\ serial' = [serial EXCEPT ![w.prop] = [len |-> w.len, n |-> (@.n + 1) % SerialSize]]
  /\ log' = [log EXCEPT ![w.prop] = Append(@, w.len)]
  /\ w' = [w EXCEPT !.pc = "wake"]
  /\ UNCHANGED <<toc, value, rd>>

\* The step after a sleep on a serial number.
Awake(label) == IF label = "asleep" THEN "load" ELSE "waitload"

\* The futex wake: the readers that sleep on the serial number of i go on.
Wake(i) ==
  rd' = [r \in Readers |->
           IF rd[r].index = i /\ rd[r].pc \in {"asleep", "waitasleep"}
             THEN [rd[r] EXCEPT !.pc = Awake(@)] ELSE rd[r]]

WriteWake ==
  /\ w.pc = "wake"
  /\ Wake(w.prop)
  /\ w' = [w EXCEPT !.pc = "area"]
  /\ UNCHANGED <<toc, serial, value, log>>

\* Every change is announced in the serial number of the area too.
WriteArea ==
  /\ w.pc = "area"
  /\ NoWrap(Area)
  /\ serial' = [serial EXCEPT ![Area].n = (@ + 1) % SerialSize]
  /\ w' = [w EXCEPT !.pc = "areawake"]
  /\ UNCHANGED <<toc, value, log, rd>>

WriteAreaWake ==
  /\ w.pc = "areawake"
  /\ Wake(Area)
  /\ w' = IdleWriter
  /\ UNCHANGED <<toc, serial, value, log>>

-----------------------------------------------------------------------------
\* A step of reader r, which writes nothing that is shared.
Local(r, state) ==
  /\ rd' = [rd EXCEPT ![r] = state]
  /\ UNCHANGED <<toc, serial, value, log, w>>

Goto(r, label) == Local(r, [rd[r] EXCEPT !.pc = label])

\* Loading the serial number of property i or of the area.
Load(r, i, label) ==
  [rd[r] EXCEPT !.pc = label, !.index = i, !.seen = serial[i],
                !.since = IF i = Area THEN 0 ELSE Len(log[i])]

(***************************************************************************)
(* __system_property_get: __system_property_find reads count once, then    *)
(* looks at the entries.                                                   *)
(***************************************************************************)
Get(r, n) ==
  /\ rd[r].pc = "idle"
  /\ Local(r, [rd[r] EXCEPT !.pc = "find", !.name = n, !.index = 1, !.limit = Len(toc)])

Find(r) ==
  /\ rd[r].pc = "find"
  /\ \/ /\ rd[r].index > rd[r].limit
        /\ Goto(r, "notfound")
     \/ /\ rd[r].index <= rd[r].limit
        /\ toc[rd[r].index] # rd[r].name
        /\ Local(r, [rd[r] EXCEPT !.index = @ + 1])
     \/ /\ rd[r].index <= rd[r].limit
        /\ toc[rd[r].index] = rd[r].name
        /\ Goto(r, "load")

\* Mutant of LoadSerial: a dirty value is copied.
LoadSerialDirty(r) ==
  /\ rd[r].pc = "load"
  /\ Local(r, [Load(r, rd[r].index, "copy") EXCEPT !.buf = NoValue, !.next = 1])

(***************************************************************************)
(* __system_property_read: load the serial number, wait while it is dirty, *)
(* copy as many words as it says, and load it again.                       *)
(***************************************************************************)
LoadSerial(r) ==
  LET i == rd[r].index IN
  /\ rd[r].pc = "load"
  /\ Local(r, [Load(r, i, IF SERIAL_DIRTY(serial[i]) THEN "futex" ELSE "copy")
                 EXCEPT !.buf = NoValue, !.next = 1])

\* The futex compares and sleeps, or returns at once.
FutexWait(r) ==
  /\ rd[r].pc = "futex"
  /\ Goto(r, IF serial[rd[r].index] = rd[r].seen THEN "asleep" ELSE "load")

CopyWord(r) ==
  /\ rd[r].pc = "copy"
  /\ rd[r].next <= rd[r].seen.len
  /\ Local(r, [rd[r] EXCEPT !.buf[rd[r].next] = value[rd[r].index][rd[r].next], !.next = @ + 1])

\* Mutant of CheckSerial: the copy is repeated with the old serial number.
CheckSerialKeeps(r) ==
  /\ rd[r].pc = "copy"
  /\ rd[r].next > rd[r].seen.len
  /\ IF serial[rd[r].index] = rd[r].seen THEN Goto(r, "found") ELSE Local(r, [rd[r] EXCEPT !.next = 1])

CheckSerial(r) ==
  /\ rd[r].pc = "copy"
  /\ rd[r].next > rd[r].seen.len
  /\ Goto(r, IF serial[rd[r].index] = rd[r].seen THEN "found" ELSE "load")

(***************************************************************************)
(* __system_property_wait, for a property or for the area.                 *)
(***************************************************************************)
Wait(r, i) ==
  /\ rd[r].pc = "idle"
  /\ i <= Len(toc)
  /\ Local(r, Load(r, i, "waitfutex"))

WaitFutex(r) ==
  /\ rd[r].pc = "waitfutex"
  /\ Goto(r, IF serial[rd[r].index] = rd[r].seen THEN "waitasleep" ELSE "waitload")

WaitCheck(r) ==
  /\ rd[r].pc = "waitload"
  /\ Goto(r, IF serial[rd[r].index] = rd[r].seen THEN "waitfutex" ELSE "changed")

\* A sleep ends because of a signal handler.
Interrupted(r) ==
  /\ rd[r].pc \in {"asleep", "waitasleep"}
  /\ Goto(r, Awake(rd[r].pc))

\* The call returns what it has found.
Return(r) ==
  /\ rd[r].pc \in {"found", "notfound", "changed"}
  /\ Local(r, IdleReader)

FinishWrite == WriteWord \/ WriteSerial \/ WriteWake \/ WriteArea \/ WriteAreaWake

ReaderStep(r) ==
  \/ Find(r) \/ LoadSerial(r) \/ FutexWait(r) \/ CopyWord(r) \/ CheckSerial(r)
  \/ WaitFutex(r) \/ WaitCheck(r) \/ Return(r)

Next ==
  \/ \E len \in 1 .. MaxLen :
       (\E n \in Names : AddProperty(n, len)) \/ (\E i \in Props : WriteDirty(i, len))
  \/ FinishWrite
  \/ \E r \in Readers :
       \/ (\E n \in Names : Get(r, n)) \/ (\E i \in Props \cup {Area} : Wait(r, i))
       \/ ReaderStep(r) \/ Interrupted(r)

Spec == Init /\ [][Next]_vars

\* Writes that have begun are finished, and processes are scheduled.
FairSpec == Spec /\ WF_vars(FinishWrite) /\ \A r \in Readers : WF_vars(ReaderStep(r))

-----------------------------------------------------------------------------
\* Type invariant.
TypeOK ==
  LET Serials == [len : 0 .. MaxLen, n : 0 .. SerialSize - 1]
      Values == [1 .. MaxLen -> 0 .. MaxWrites]
      Steps == {"idle", "find", "load", "futex", "asleep", "copy", "found", "notfound",
                "waitfutex", "waitasleep", "waitload", "changed"}
  IN
  /\ toc \in Seq(Names) /\ Len(toc) <= Cardinality(Names)
  /\ serial \in [Props \cup {Area} -> Serials]
  /\ value \in [Props -> Values]
  /\ w \in [pc : {"idle", "copy", "wake", "area", "areawake"}, prop : Props \cup {Area},
            len : 0 .. MaxLen, next : 0 .. MaxLen + 1]
  /\ rd \in [Readers -> [pc : Steps, name : Names \cup {None}, index : 0 .. Cardinality(Names) + 1,
                         limit : 0 .. Cardinality(Names), seen : Serials, since : 0 .. MaxWrites,
                         buf : Values, next : 0 .. MaxLen + 1]]

\* A get that returns found the property it was asked for, though properties are
\* added while __system_property_find looks, and has copied one value of it as the
\* writer wrote it, of the length it reports, and one that was current at some time
\* since the serial number was last loaded: never a mixture of two writes.
ReadNotTorn ==
  \A r \in Readers : rd[r].pc = "found" =>
    /\ toc[rd[r].index] = rd[r].name
    /\ \E g \in rd[r].since .. Len(log[rd[r].index]) :
         /\ rd[r].seen.len = log[rd[r].index][g]
         /\ \A k \in 1 .. rd[r].seen.len : rd[r].buf[k] = g

\* Once the writer is done, a reader that found the property dirty, or that waits
\* for a change that has been made, does not sleep on: no wake-up is lost between
\* the load of the serial number and the futex call.
NobodySleepsOn ==
  w.pc = "idle" => \A r \in Readers :
    rd[r].pc \in {"asleep", "waitasleep"} =>
      rd[r].pc = "waitasleep" /\ serial[rd[r].index] = rd[r].seen

\* A get returns when the writer stops writing.
GetReturns ==
  \A r \in Readers : rd[r].pc = "find" ~> rd[r].pc \in {"found", "notfound"}
=============================================================================
