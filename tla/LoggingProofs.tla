--------------------------- MODULE LoggingProofs ---------------------------
(***************************************************************************)
(* The safety of Logging for any number of threads, events and days, and   *)
(* any capacity of the ring; and that its files, put together, are what    *)
(* Journal specifies.                                                      *)
(***************************************************************************)
EXTENDS Logging, SequenceTheorems, FiniteSetTheorems, TLAPS

\* An event on its way to the ring has been to the file.
OnItsWayIsKept ==
  \A t \in Thread : Turn(t, "ring") => Kept(pending[t][1].line)

\* Where Polaris does not run, nothing is in memory.
DownIsEmpty ==
  ~up => ring = <<>> /\ handle = {} /\ \A t \in Thread : pending[t] = <<>>

IInv ==
  /\ TypeOK
  /\ OnItsWayIsKept
  /\ DownIsEmpty
  /\ PanelIsOnDisk

\* What remains to be done for an event.
LEMMA TwoSinks ==
  /\ Sinks = <<"file", "ring">> /\ Len(Sinks) = 2 /\ Head(Sinks) = "file"
  /\ Tail(Sinks) = <<"ring">> /\ Len(Tail(Sinks)) = 1 /\ Head(Tail(Sinks)) = "ring"
  BY DEF Sinks

\* The empty ring is a ring.
LEMMA NothingFits == <<>> \in Seq(Line) /\ Len(<<>>) <= RING_CAP
  <1>1. <<>> \in Seq(Line) /\ Len(<<>>) = 0
    OBVIOUS
  <1> QED BY <1>1, LoggingAssumption

\* The event a thread is writing.
LEMMA EventIsTyped ==
  ASSUME TypeOK, NEW t \in Thread, pending[t] # <<>>
  PROVE  /\ pending[t] = <<pending[t][1]>>
         /\ pending[t][1] \in Event
  <1>1. pending[t] \in {<<e>> : e \in Event}
    BY DEF TypeOK
  <1>2. PICK e \in Event : pending[t] = <<e>>
    BY <1>1
  <1> QED BY <1>2

\* A line that is kept stays so, as files only grow while Polaris runs.
LEMMA KeptStays ==
  ASSUME NEW line, Kept(line), lost \subseteq lost',
         \A d \in DOMAIN files :
           /\ d \in DOMAIN files'
           /\ \A x : Contains(files[d], x) => Contains(files'[d], x)
  PROVE  Kept(line)'
  BY DEF Kept

\* Nothing has been logged at first.
LEMMA InitInvariant == Init => IInv
  <1> SUFFICES ASSUME Init PROVE IInv
    OBVIOUS
  <1>1. TypeOK
    <2>1. /\ up \in BOOLEAN /\ enabled \in BOOLEAN /\ filter \in BOOLEAN
          /\ level \in Level /\ retention \in RETENTION_DAYS /\ applied = {}
      BY DEF Init
    <2>5. today \in Day /\ count \in 0..MaxEvents
      BY LoggingAssumption DEF Init, Day
    <2>2. pending \in [Thread -> {<<>>} \cup {<<e>> : e \in Event}]
      BY DEF Init
    <2>3. DOMAIN files = {} /\ DOMAIN mtime = {} /\ handle = {} /\ lost = {}
      BY DEF Init
    <2>4. ring \in Seq(Line) /\ Len(ring) <= RING_CAP
      BY NothingFits DEF Init
    <2> QED BY <2>1, <2>2, <2>3, <2>4, <2>5 DEF TypeOK
  <1>2. OnItsWayIsKept /\ DownIsEmpty /\ PanelIsOnDisk
    BY DEF Init, OnItsWayIsKept, Turn, DownIsEmpty, PanelIsOnDisk
  <1> QED BY <1>1, <1>2 DEF IInv

-----------------------------------------------------------------------------
(* Steps that leave the threads alone.                                     *)

\* Nothing is in memory when files are removed.
LEMMA StartStep ==
  ASSUME IInv, Start
  PROVE  IInv'
  <1>1. /\ ring' = <<>> /\ handle' = {} /\ \A t \in Thread : pending'[t] = <<>>
        /\ UNCHANGED <<applied, pending, handle, ring, today, prefs, count, lost>>
    BY DEF IInv, DownIsEmpty, Start
  <1>2. /\ DOMAIN files' \subseteq DOMAIN files /\ DOMAIN mtime' = DOMAIN files'
        /\ \A d \in DOMAIN files' : files'[d] = files[d] /\ mtime'[d] = mtime[d]
    BY DEF IInv, TypeOK, Start, Cleanup, disk
  <1>3. up' = TRUE /\ filter' \in BOOLEAN
    BY DEF IInv, TypeOK, Start, Passes
  <1>4. TypeOK'
    BY <1>1, <1>2, <1>3 DEF IInv, TypeOK, prefs
  <1>5. (OnItsWayIsKept /\ DownIsEmpty /\ PanelIsOnDisk)'
    BY <1>1, <1>3 DEF OnItsWayIsKept, Turn, DownIsEmpty, PanelIsOnDisk
  <1> QED BY <1>4, <1>5 DEF IInv

\* Stopping empties the memory.
LEMMA StopStep ==
  ASSUME IInv, Stop
  PROVE  IInv'
  <1>1. TypeOK'
    <2>1. /\ up' = FALSE /\ filter' = FALSE /\ applied' = {} /\ handle' = {}
          /\ ring' = <<>> /\ pending' = [t \in Thread |-> <<>>] /\ lost' = {}
          /\ UNCHANGED <<today, enabled, level, retention, files, mtime, count>>
      BY DEF Stop, prefs, disk
    <2>2. (ring \in Seq(Line) /\ Len(ring) <= RING_CAP)'
      BY <2>1, NothingFits
    <2>3. pending' \in [Thread -> {<<>>} \cup {<<e>> : e \in Event}]
      BY <2>1
    <2> QED BY <2>1, <2>2, <2>3 DEF IInv, TypeOK
  <1>2. (OnItsWayIsKept /\ DownIsEmpty /\ PanelIsOnDisk)'
    BY DEF Stop, OnItsWayIsKept, Turn, DownIsEmpty, PanelIsOnDisk
  <1> QED BY <1>1, <1>2 DEF IInv

\* Clearing the panel, the clock, the page and the effect move no line.
LEMMA QuietStep ==
  ASSUME IInv, Midnight \/ Choose \/ ApplyLevel \/ Clear \/ UNCHANGED vars
  PROVE  IInv'
  <1>1. /\ UNCHANGED <<up, pending, handle, disk, count, lost>>
        /\ UNCHANGED ring \/ ring' = <<>>
    BY DEF Midnight, Choose, ApplyLevel, Clear, vars, process
  <1>2. /\ (enabled \in BOOLEAN /\ filter \in BOOLEAN /\ level \in Level)'
        /\ (retention \in RETENTION_DAYS)'
        /\ (applied \subseteq [enabled : BOOLEAN, level : Level])'
    <2> USE DEF IInv, TypeOK, process, prefs
    <2>1. CASE Choose
      BY <2>1 DEF Choose
    <2>2. CASE ApplyLevel
      BY <2>2 DEF ApplyLevel, Passes
    <2>3. CASE Midnight \/ Clear \/ UNCHANGED vars
      BY <2>3 DEF Midnight, Clear, vars
    <2> QED BY <2>1, <2>2, <2>3
  <1>3. today \in Day /\ today' \in Day /\ today <= today'
    BY LoggingAssumption
    DEF IInv, TypeOK, Day, Midnight, Choose, ApplyLevel, Clear, vars, process
  <1>4. TypeOK'
    <2>1. \A d \in DOMAIN files : mtime[d] \in d..today'
      BY <1>3 DEF IInv, TypeOK, Day
    <2>2. (ring \in Seq(Line) /\ Len(ring) <= RING_CAP)'
      BY <1>1, NothingFits DEF IInv, TypeOK
    <2> QED BY <1>1, <1>2, <1>3, <2>1, <2>2 DEF IInv, TypeOK, disk
  <1>5. (OnItsWayIsKept /\ DownIsEmpty /\ PanelIsOnDisk)'
    BY <1>1 DEF IInv, OnItsWayIsKept, Turn, Kept, DownIsEmpty, PanelIsOnDisk, disk
  <1> QED BY <1>4, <1>5 DEF IInv

-----------------------------------------------------------------------------
(* The steps of a thread.                                                  *)

\* A new event goes to the file first.
LEMMA LogStep ==
  ASSUME IInv, NEW t \in Thread, Log(t)
  PROVE  IInv'
  <1> DEFINE new == [line |-> [no |-> count + 1, day |-> today], to |-> Sinks]
  <1>1. /\ up /\ pending' = [pending EXCEPT ![t] = <<new>>]
        /\ count' = count + 1 /\ count < MaxEvents
        /\ UNCHANGED <<up, applied, filter, handle, ring, today, prefs, disk, lost>>
    BY DEF Log
  <1>2. new \in Event /\ count' \in 0..MaxEvents
    BY <1>1, LoggingAssumption DEF IInv, TypeOK, Event, Line
  <1> HIDE DEF new
  <1>3. pending' \in [Thread -> {<<>>} \cup {<<e>> : e \in Event}]
    BY <1>1, <1>2 DEF IInv, TypeOK
  <1>4. TypeOK'
    BY <1>1, <1>2, <1>3 DEF IInv, TypeOK, prefs, disk
  <1>5. Head(new.to) # "ring"
    BY TwoSinks DEF new
  <1>6. OnItsWayIsKept'
    BY <1>1, <1>5 DEF IInv, TypeOK, OnItsWayIsKept, Turn, Kept, disk
  <1>7. (DownIsEmpty /\ PanelIsOnDisk)'
    BY <1>1 DEF IInv, DownIsEmpty, PanelIsOnDisk, Kept, disk
  <1> QED BY <1>4, <1>6, <1>7 DEF IInv

\* From the file an event goes on to the ring.
LEMMA AfterFile ==
  ASSUME TypeOK, NEW t \in Thread, Turn(t, "file"), Done(t)
  PROVE  \E l \in Line :
           /\ pending[t] # <<>> /\ pending[t][1].line = l
           /\ pending' = [pending EXCEPT ![t] = <<[line |-> l, to |-> Tail(Sinks)]>>]
  <1>1. pending[t] # <<>> /\ Head(pending[t][1].to) = "file" /\ pending[t][1] \in Event
    BY EventIsTyped DEF Turn
  <1>2. PICK l \in Line, s \in {Sinks, Tail(Sinks)} :
          pending[t][1] = [line |-> l, to |-> s]
    BY <1>1 DEF Event
  <1>3. s = Sinks
    BY <1>1, <1>2, TwoSinks
  <1>4. pending[t][1].line = l /\ pending[t][1].to = Sinks
    BY <1>2, <1>3
  <1>5. pending' = [pending EXCEPT ![t] = <<[line |-> l, to |-> Tail(Sinks)]>>]
    <2>1. pending' = [pending EXCEPT ![t] =
                        <<[line |-> pending[t][1].line, to |-> Tail(pending[t][1].to)]>>]
      BY <1>4, TwoSinks DEF Done
    <2> QED BY <1>4, <2>1
  <1> QED BY <1>1, <1>4, <1>5

\* From the ring it goes nowhere.
LEMMA AfterRing ==
  ASSUME TypeOK, NEW t \in Thread, Turn(t, "ring"), Done(t)
  PROVE  \E l \in Line :
           /\ pending[t] # <<>> /\ pending[t][1].line = l
           /\ pending' = [pending EXCEPT ![t] = <<>>]
  <1>1. pending[t] # <<>> /\ Head(pending[t][1].to) = "ring" /\ pending[t][1] \in Event
    BY EventIsTyped DEF Turn
  <1>2. PICK l \in Line, s \in {Sinks, Tail(Sinks)} :
          pending[t][1] = [line |-> l, to |-> s]
    BY <1>1 DEF Event
  <1>3. s = Tail(Sinks)
    BY <1>1, <1>2, TwoSinks
  <1>4. pending' = [pending EXCEPT ![t] = <<>>]
    BY <1>2, <1>3, TwoSinks DEF Done
  <1> QED BY <1>1, <1>2, <1>4

\* What a longer file contains.
LEMMA AppendContains ==
  ASSUME NEW S, NEW s \in Seq(S), NEW x \in S
  PROVE  /\ Append(s, x) \in Seq(S)
         /\ Contains(Append(s, x), x)
         /\ \A y : Contains(s, y) => Contains(Append(s, x), y)
  <1>1. /\ Append(s, x) \in Seq(S) /\ Len(Append(s, x)) = Len(s) + 1
        /\ Append(s, x)[Len(s) + 1] = x /\ Len(s) \in Nat
        /\ \A i \in 1..Len(s) : Append(s, x)[i] = s[i]
    OBVIOUS
  <1> QED BY <1>1 DEF Contains

\* The file that is open, or is opened, is one of a day that has come.
LEMMA FileIsOfADay ==
  ASSUME TypeOK
  PROVE  /\ File \in Day /\ File <= today
         /\ handle # {} => File \in DOMAIN files
  <1>1. CASE handle = {}
    BY <1>1 DEF TypeOK, File, Day
  <1>2. CASE handle # {}
    <2>1. File \in handle
      BY <1>2 DEF File
    <2>2. File \in DOMAIN files /\ File \in Day /\ mtime[File] \in File..today
      BY <2>1 DEF TypeOK
    <2> QED BY <2>2 DEF TypeOK, Day
  <1> QED BY <1>1, <1>2

\* Put keeps the files typed, and every line that was in one.
LEMMA PutStep ==
  ASSUME IInv, NEW lines \in Seq(Line), NEW when \in File..today,
         Put(File, lines, when), today' = today,
         \A y : Contains(Opened(File), y) => Contains(lines, y)
  PROVE  /\ File \in DOMAIN files' /\ DOMAIN files' \subseteq Day
         /\ files'[File] = lines
         /\ DOMAIN mtime' = DOMAIN files'
         /\ \A d \in DOMAIN files' : files'[d] \in Seq(Line) /\ mtime'[d] \in d..today'
         /\ \A d \in DOMAIN files :
              /\ d \in DOMAIN files'
              /\ \A y : Contains(files[d], y) => Contains(files'[d], y)
  <1>1. File \in Day
    BY FileIsOfADay DEF IInv
  <1>2. /\ DOMAIN files' = DOMAIN files \cup {File} /\ DOMAIN mtime' = DOMAIN files'
        /\ files'[File] = lines /\ mtime'[File] = when
        /\ \A d \in DOMAIN files \ {File} : files'[d] = files[d] /\ mtime'[d] = mtime[d]
    BY DEF IInv, TypeOK, Put
  <1>3. \A d \in DOMAIN files' : files'[d] \in Seq(Line) /\ mtime'[d] \in d..today'
    BY <1>2 DEF IInv, TypeOK
  <1>4. \A d \in DOMAIN files : \A y : Contains(files[d], y) => Contains(files'[d], y)
    BY <1>2 DEF Opened
  <1> QED BY <1>1, <1>2, <1>3, <1>4 DEF IInv, TypeOK

\* A line that goes to the file is kept, or known to be lost.
LEMMA WriteFileStep ==
  ASSUME IInv, NEW t \in Thread, WriteFile(t)
  PROVE  IInv'
  <1>1. Turn(t, "file") /\ Done(t)
    BY DEF WriteFile
  <1>2. PICK l \in Line :
          /\ pending[t] # <<>> /\ pending[t][1].line = l
          /\ pending' = [pending EXCEPT ![t] = <<[line |-> l, to |-> Tail(Sinks)]>>]
    BY <1>1, AfterFile DEF IInv
  <1>3. UNCHANGED <<up, applied, filter, ring, today, enabled, level, retention, count>>
    BY DEF WriteFile, prefs
  <1>4. l.no \in 1..MaxEvents
    BY DEF Line
  <1>5. Opened(File) \in Seq(Line)
    BY DEF IInv, TypeOK, Opened
  <1>6. (mtime[File] \in File..today) \/ File \notin DOMAIN files
    BY DEF IInv, TypeOK
  <1>7. today \in File..today
    BY FileIsOfADay DEF IInv, TypeOK, Day
  \* Files stay typed, no line is lost from them, and this one is kept.
  <1>8. /\ (handle \subseteq DOMAIN files /\ DOMAIN files \subseteq Day)'
        /\ (DOMAIN mtime = DOMAIN files)'
        /\ \A d \in DOMAIN files' : files'[d] \in Seq(Line) /\ mtime'[d] \in d..today'
        /\ \A d \in DOMAIN files :
             /\ d \in DOMAIN files'
             /\ \A y : Contains(files[d], y) => Contains(files'[d], y)
        /\ lost \subseteq lost' /\ (lost \subseteq 1..MaxEvents)'
        /\ l.no \in lost' \/ \E d \in DOMAIN files' : Contains(files'[d], l)
    <2>1. CASE /\ lost' = lost \cup {l.no}
               /\ UNCHANGED <<disk, handle>>
      BY <1>3, <1>4, <2>1 DEF IInv, TypeOK, disk
    <2>2. CASE /\ handle' = {File} /\ UNCHANGED lost
               /\ Put(File, Append(Opened(File), l), today)
      <3>1. /\ Append(Opened(File), l) \in Seq(Line)
            /\ Contains(Append(Opened(File), l), l)
            /\ \A y : Contains(Opened(File), y)
                       => Contains(Append(Opened(File), l), y)
        BY <1>4, <1>5, AppendContains
      <3>2. today' = today
        BY <1>3
      <3>3. /\ File \in DOMAIN files' /\ DOMAIN files' \subseteq Day
            /\ files'[File] = Append(Opened(File), l)
            /\ DOMAIN mtime' = DOMAIN files'
            /\ \A d \in DOMAIN files' :
                 files'[d] \in Seq(Line) /\ mtime'[d] \in d..today'
            /\ \A d \in DOMAIN files :
                 /\ d \in DOMAIN files'
                 /\ \A y : Contains(files[d], y) => Contains(files'[d], y)
        BY ONLY IInv, <1>7, <2>2, <3>1, <3>2, PutStep
      <3> QED BY <2>2, <3>1, <3>3 DEF IInv, TypeOK
    <2>3. CASE /\ handle' = {File} /\ lost' = lost \cup {l.no}
               /\ Put(File, Opened(File),
                      IF File \in DOMAIN files THEN mtime[File] ELSE today)
      <3> DEFINE when == IF File \in DOMAIN files THEN mtime[File] ELSE today
      <3>1. when \in File..today /\ today' = today
        BY <1>3, <1>6, <1>7
      <3>2. Put(File, Opened(File), when)
        BY <2>3
      <3> HIDE DEF when
      <3>3. /\ File \in DOMAIN files' /\ DOMAIN files' \subseteq Day
            /\ DOMAIN mtime' = DOMAIN files'
            /\ \A d \in DOMAIN files' :
                 files'[d] \in Seq(Line) /\ mtime'[d] \in d..today'
            /\ \A d \in DOMAIN files :
                 /\ d \in DOMAIN files'
                 /\ \A y : Contains(files[d], y) => Contains(files'[d], y)
        BY ONLY IInv, <1>5, <3>1, <3>2, PutStep
      <3> QED BY <1>4, <2>3, <3>3 DEF IInv, TypeOK
    <2> QED BY <1>2, <2>1, <2>2, <2>3 DEF WriteFile
  <1>9. [line |-> l, to |-> Tail(Sinks)] \in Event
    BY DEF Event
  <1>10. TypeOK'
    <2>1. pending' \in [Thread -> {<<>>} \cup {<<x>> : x \in Event}]
      BY <1>2, <1>9 DEF IInv, TypeOK
    <2> QED BY <1>3, <1>8, <2>1 DEF IInv, TypeOK
  <1>11. \A line : Kept(line) => Kept(line)'
    BY <1>8, KeptStays
  <1>12. OnItsWayIsKept'
    <2>1. Kept(l)'
      BY <1>8 DEF Kept
    <2> SUFFICES ASSUME NEW u \in Thread, Turn(u, "ring")'
                 PROVE  Kept(pending[u][1].line)'
      BY DEF OnItsWayIsKept
    <2>2. CASE u = t
      BY <1>2, <2>1, <2>2 DEF IInv, TypeOK
    <2>3. CASE u # t
      BY <1>2, <1>11, <2>3 DEF IInv, TypeOK, OnItsWayIsKept, Turn
    <2> QED BY <2>2, <2>3
  <1>13. DownIsEmpty'
    BY <1>1, <1>3 DEF IInv, DownIsEmpty, Turn
  <1>14. PanelIsOnDisk'
    BY <1>3, <1>11 DEF IInv, PanelIsOnDisk
  <1> QED BY <1>10, <1>12, <1>13, <1>14 DEF IInv

\* The ring gets a line that has been to the file.
LEMMA PushRingStep ==
  ASSUME IInv, NEW t \in Thread, PushRing(t)
  PROVE  IInv'
  <1>1. Turn(t, "ring") /\ Done(t)
    BY DEF PushRing
  <1>2. PICK l \in Line :
          /\ pending[t] # <<>> /\ pending[t][1].line = l
          /\ pending' = [pending EXCEPT ![t] = <<>>]
    BY <1>1, AfterRing DEF IInv
  <1>3. /\ UNCHANGED <<up, applied, filter, handle, today, enabled, level, retention>>
        /\ UNCHANGED <<files, mtime, count, lost>>
    BY DEF PushRing, prefs, disk
  <1>4. Kept(l)
    BY <1>1, <1>2 DEF IInv, OnItsWayIsKept
  <1> DEFINE rest == IF Len(ring) >= RING_CAP THEN Tail(ring) ELSE ring
  <1>5. ring \in Seq(Line) /\ Len(ring) <= RING_CAP /\ RING_CAP \in Nat \ {0}
    BY LoggingAssumption DEF IInv, TypeOK
  <1>6. /\ rest \in Seq(Line) /\ Len(rest) < RING_CAP
        /\ \A i \in DOMAIN rest : \E j \in DOMAIN ring : rest[i] = ring[j]
    <2>1. CASE Len(ring) >= RING_CAP
      <3>1. /\ Tail(ring) \in Seq(Line) /\ Len(Tail(ring)) = Len(ring) - 1
            /\ \A i \in 1..Len(Tail(ring)) : Tail(ring)[i] = ring[i + 1]
        BY <1>5, <2>1
      <3> QED BY <1>5, <2>1, <3>1
    <2>2. CASE Len(ring) < RING_CAP
      BY <1>5, <2>2
    <2> QED BY <1>5, <2>1, <2>2
  <1>7. ring' = Append(rest, l)
    BY <1>2 DEF PushRing, Pushed
  <1> HIDE DEF rest
  <1>8. /\ ring' \in Seq(Line) /\ Len(ring') = Len(rest) + 1
        /\ ring'[Len(ring')] = l
        /\ \A i \in 1..Len(rest) : ring'[i] = rest[i]
    BY <1>6, <1>7
  <1>9. TypeOK'
    <2>1. pending' \in [Thread -> {<<>>} \cup {<<x>> : x \in Event}]
      BY <1>2 DEF IInv, TypeOK
    <2>2. Len(ring') <= RING_CAP
      BY <1>5, <1>6, <1>8
    <2> QED BY <1>3, <1>8, <2>1, <2>2 DEF IInv, TypeOK
  <1>10. \A line : Kept(line) => Kept(line)'
    BY <1>3 DEF Kept
  <1>11. OnItsWayIsKept'
    BY <1>2, <1>10 DEF IInv, TypeOK, OnItsWayIsKept, Turn
  <1>12. DownIsEmpty'
    BY <1>2, <1>3 DEF IInv, DownIsEmpty
  <1>13. PanelIsOnDisk'
    <2> SUFFICES ASSUME NEW i \in DOMAIN ring' PROVE Kept(ring[i])'
      BY DEF PanelIsOnDisk
    <2>1. PICK line : ring'[i] = line
      OBVIOUS
    <2>2. Kept(line)
      <3>1. CASE i = Len(ring')
        BY <1>4, <1>8, <2>1, <3>1
      <3>2. CASE i # Len(ring')
        <4>1. i \in DOMAIN rest /\ rest[i] = line
          BY <1>6, <1>8, <2>1, <3>2
        <4>2. PICK j \in DOMAIN ring : line = ring[j]
          BY <1>6, <4>1
        <4> QED BY <4>2 DEF IInv, PanelIsOnDisk
      <3> QED BY <3>1, <3>2
    <2> QED BY <1>3, <2>1, <2>2 DEF Kept
  <1> QED BY <1>9, <1>11, <1>12, <1>13 DEF IInv

\* Every step keeps the invariant.
LEMMA NextStep == IInv /\ [Next]_vars => IInv'
  <1> SUFFICES ASSUME IInv, [Next]_vars PROVE IInv'
    OBVIOUS
  <1>1. CASE Start
    BY <1>1, StartStep
  <1>2. CASE Stop
    BY <1>2, StopStep
  <1>3. CASE Midnight \/ Choose \/ ApplyLevel \/ Clear \/ UNCHANGED vars
    BY <1>3, QuietStep
  <1>4. CASE \E t \in Thread : Log(t) \/ WriteFile(t) \/ PushRing(t)
    BY <1>4, LogStep, WriteFileStep, PushRingStep
  <1> QED BY <1>1, <1>2, <1>3, <1>4 DEF Next

-----------------------------------------------------------------------------
(* Theorems.                                                               *)

\* The invariant of the log.
THEOREM Invariance == Spec => []IInv
  BY InitInvariant, NextStep, PTL DEF Spec

\* The ring never grows beyond its capacity, every event is between its two
\* sinks, and no file was written on a day before its own.
THEOREM TypeCorrect == Spec => []TypeOK
  <1>1. IInv => TypeOK
    BY DEF IInv
  <1> QED BY <1>1, Invariance, PTL

\* Whatever threads do between stamping, the file and the ring, across
\* midnights and restarts: the Diagnostics page shows no line that was not
\* first written to a file or could not be.
THEOREM PanelAlwaysOnDisk == Spec => []PanelIsOnDisk
  <1>1. IInv => PanelIsOnDisk
    BY DEF IInv
  <1> QED BY <1>1, Invariance, PTL

-----------------------------------------------------------------------------
(* Induction over the numbers, stated without an operator for a parameter. *)

\* A set that has 0, and with every number its successor, has all numbers:
\* else the numbers below one it misses would be a finite set that a function
\* maps into a part of itself, no two to the same.
LEMMA SetInduction ==
  ASSUME NEW S, 0 \in S, \A n \in Nat : n \in S => n + 1 \in S
  PROVE  Nat \subseteq S
  <1> SUFFICES ASSUME NEW m \in Nat, m \notin S PROVE FALSE
    OBVIOUS
  <1> DEFINE D == {k \in 0..m : \A j \in 0..k : j \in S}
  <1>1. IsFiniteSet(D)
    <2>1. D \in SUBSET (0..m)
      OBVIOUS
    <2>2. IsFiniteSet(0..m)
      BY FS_Interval
    <2> HIDE DEF D
    <2> QED BY <2>1, <2>2, FS_Subset
  <1>2. 0 \in D
    OBVIOUS
  <1>3. \A k \in D : k \in Nat /\ k + 1 \in D
    <2> TAKE k \in D
    <2>1. k \in Nat /\ k \in S /\ k # m /\ k <= m /\ k + 1 \in S
      OBVIOUS
    <2>2. \A j \in 0..k + 1 : j \in 0..k \/ j = k + 1
      BY <2>1
    <2> QED BY <2>1, <2>2
  <1> HIDE DEF D
  <1>4. IsFiniteSet(D \ {0}) /\ Cardinality(D \ {0}) < Cardinality(D)
    <2>1. PICK c \in Nat : c = Cardinality(D)
      BY <1>1, FS_CardinalityType
    <2>2. IsFiniteSet(D \ {0}) /\ Cardinality(D \ {0}) = c - 1
      BY <1>1, <1>2, <2>1, FS_RemoveElement
    <2> QED BY <2>1, <2>2
  <1>5. PICK f \in [D -> D \ {0}] : \A k \in D : f[k] = k + 1
    <2>1. [k \in D |-> k + 1] \in [D -> D \ {0}]
      BY <1>3
    <2> QED BY <2>1
  <1>6. PICK x \in D, y \in D : x # y /\ f[x] = f[y]
    BY <1>1, <1>4, FS_PigeonHole
  <1> QED BY <1>3, <1>5, <1>6

-----------------------------------------------------------------------------
(* Lists of lists.                                                         *)

\* F puts the first i lists of q together.
Flattens(F, q, n) ==
  /\ F[1] = q[1]
  /\ \A i \in 2..n : F[i] = F[i - 1] \o q[i]

\* Such an F exists for every list of lists.
LEMMA FlattensExist ==
  ASSUME NEW S, NEW n \in Nat \ {0}, NEW q \in [1..n -> Seq(S)]
  PROVE  \E F \in [1..n -> Seq(S)] : Flattens(F, q, n)
  <1> DEFINE M == {m \in Nat : m + 1 <= n =>
                     \E F \in [1..m + 1 -> Seq(S)] : Flattens(F, q, m + 1)}
  <1>1. 0 \in M
    <2>1. PICK F : F = [i \in 1..1 |-> q[1]]
      OBVIOUS
    <2>2. F \in [1..1 -> Seq(S)] /\ F[1] = q[1]
      BY <2>1
    <2>3. Flattens(F, q, 1)
      BY <2>2 DEF Flattens
    <2> QED BY <2>2, <2>3
  <1>2. ASSUME NEW m \in Nat, m \in M PROVE m + 1 \in M
    <2> SUFFICES ASSUME m + 2 <= n
                 PROVE  \E F \in [1..m + 2 -> Seq(S)] : Flattens(F, q, m + 2)
      OBVIOUS
    <2>1. PICK F \in [1..m + 1 -> Seq(S)] : Flattens(F, q, m + 1)
      BY <1>2
    <2>2. F[m + 1] \in Seq(S) /\ q[m + 2] \in Seq(S)
      OBVIOUS
    <2>3. PICK s \in Seq(S) : s = F[m + 1] \o q[m + 2]
      BY <2>2, ConcatProperties
    <2>4. PICK G : G = [i \in 1..m + 2 |-> IF i = m + 2 THEN s ELSE F[i]]
      OBVIOUS
    <2>5. G \in [1..m + 2 -> Seq(S)]
      BY <2>4
    <2>6. G[m + 2] = s /\ \A i \in 1..m + 1 : G[i] = F[i]
      BY <2>4
    <2>7. ASSUME NEW i \in 2..m + 2 PROVE G[i] = G[i - 1] \o q[i]
      <3>1. CASE i = m + 2
        <4>1. i - 1 = m + 1 /\ G[m + 1] = F[m + 1]
          BY <3>1, <2>6
        <4> QED BY <4>1, <3>1, <2>3, <2>6
      <3>2. CASE i # m + 2
        <4>1. i \in 2..m + 1 /\ i \in 1..m + 1 /\ i - 1 \in 1..m + 1
          BY <3>2
        <4>2. G[i] = F[i] /\ G[i - 1] = F[i - 1]
          BY <4>1, <2>6
        <4>3. F[i] = F[i - 1] \o q[i]
          BY <4>1, <2>1 DEF Flattens
        <4> QED BY <4>2, <4>3
      <3> QED BY <3>1, <3>2
    <2>8. G[1] = q[1]
      BY <2>1, <2>6 DEF Flattens
    <2>9. Flattens(G, q, m + 2)
      BY <2>7, <2>8 DEF Flattens
    <2> QED BY <2>5, <2>9
  <1>3. n - 1 \in M
    <2> HIDE DEF M
    <2>1. n - 1 \in Nat
      OBVIOUS
    <2> QED BY <1>1, <1>2, <2>1, SetInduction
  <1> QED BY <1>3

\* What the last of them is, FlattenSeq returns.
LEMMA FlattenFacts ==
  ASSUME NEW S, NEW n \in Nat \ {0}, NEW q \in [1..n -> Seq(S)]
  PROVE  \E F : /\ Flattens(F, q, n) /\ FlattenSeq(q) = F[n]
                /\ \A i \in 1..n : F[i] \in Seq(S)
  <1> DEFINE Is(f) == f = [i \in 1..n |-> IF i = 1 THEN q[i] ELSE f[i - 1] \o q[i]]
  <1>1. q \in Seq(Seq(S)) /\ Len(q) = n
    BY LenProperties
  <1>2. PICK F : F = CHOOSE f : Is(f)
    OBVIOUS
  <1>3. FlattenSeq(q) = F[n]
    BY <1>1, <1>2 DEF FlattenSeq
  <1>4. \E f : Is(f)
    <2>1. PICK f \in [1..n -> Seq(S)] : Flattens(f, q, n)
      BY FlattensExist
    <2>2. PICK w : w = [i \in 1..n |-> IF i = 1 THEN q[i] ELSE f[i - 1] \o q[i]]
      OBVIOUS
    <2>3. ASSUME NEW i \in 1..n PROVE w[i] = f[i]
      <3>1. CASE i = 1
        BY <2>1, <2>2, <3>1 DEF Flattens
      <3>2. CASE i # 1
        <4>1. i \in 2..n
          BY <3>2
        <4> QED BY <2>1, <2>2, <3>2, <4>1 DEF Flattens
      <3> QED BY <3>1, <3>2
    <2>4. DOMAIN w = 1..n /\ w = [i \in 1..n |-> w[i]]
      BY <2>2
    <2>5. f = w
      BY <2>3, <2>4
    <2> QED BY ONLY <2>2, <2>5
  <1>5. Is(F)
    <2> HIDE DEF Is
    <2> QED BY <1>2, <1>4
  <1>6. PICK w : w = [i \in 1..n |-> IF i = 1 THEN q[i] ELSE F[i - 1] \o q[i]]
    OBVIOUS
  <1>7. F = w
    BY <1>5, <1>6
  <1>8. F[1] = q[1] /\ \A i \in 2..n : F[i] = F[i - 1] \o q[i]
    <2>1. w[1] = q[1]
      BY <1>6
    <2>2. ASSUME NEW i \in 2..n PROVE w[i] = F[i - 1] \o q[i]
      <3>1. i \in 1..n /\ i # 1
        OBVIOUS
      <3> QED BY ONLY <1>6, <3>1
    <2> QED BY ONLY <1>7, <2>1, <2>2
  <1>9. Flattens(F, q, n)
    BY <1>8 DEF Flattens
  <1> HIDE DEF Is
  <1> DEFINE M == {m \in Nat : m + 1 <= n => F[m + 1] \in Seq(S)}
  <1>10. 0 \in M
    BY <1>8
  <1>11. ASSUME NEW m \in Nat, m \in M PROVE m + 1 \in M
    <2> SUFFICES ASSUME m + 2 <= n PROVE F[m + 2] \in Seq(S)
      OBVIOUS
    <2>1. F[m + 2] = F[m + 1] \o q[m + 2]
      <3>1. m + 2 \in 2..n /\ (m + 2) - 1 = m + 1
        OBVIOUS
      <3>2. PICK i \in 2..n : i = m + 2 /\ i - 1 = m + 1
        BY <3>1
      <3> QED BY ONLY <1>8, <3>2
    <2>2. F[m + 1] \in Seq(S) /\ q[m + 2] \in Seq(S)
      BY <1>11
    <2> QED BY <2>1, <2>2, ConcatProperties
  <1>12. ASSUME NEW i \in 1..n PROVE F[i] \in Seq(S)
    <2>1. i - 1 \in M
      <3> HIDE DEF M
      <3>1. i - 1 \in Nat
        OBVIOUS
      <3> QED BY <1>10, <1>11, <3>1, SetInduction
    <2> QED BY <2>1
  <1> QED BY <1>3, <1>9, <1>12

\* What it returns is a list of the same.
LEMMA FlattenIsTyped ==
  ASSUME NEW S, NEW n \in Nat \ {0}, NEW q \in [1..n -> Seq(S)]
  PROVE  FlattenSeq(q) \in Seq(S)
  <1>1. PICK F : FlattenSeq(q) = F[n] /\ \A i \in 1..n : F[i] \in Seq(S)
    BY FlattenFacts
  <1>2. n \in 1..n
    OBVIOUS
  <1> QED BY <1>1, <1>2

\* It does not matter which of three lists are put together first.
Regroups(s, u, v) == (s \o u) \o v = s \o (u \o v)

\* So it does not for any three.
LEMMA Regroup ==
  ASSUME NEW S, NEW s \in Seq(S), NEW u \in Seq(S), NEW v \in Seq(S)
  PROVE  Regroups(s, u, v)
  BY ConcatAssociative DEF Regroups

\* Adding to the second of two lists adds to both put together.
LEMMA ConcatAppend ==
  ASSUME NEW S, NEW s \in Seq(S), NEW u \in Seq(S), NEW x \in S
  PROVE  s \o Append(u, x) = Append(s \o u, x)
  <1>1. /\ Append(u, x) = u \o <<x>> /\ Append(s \o u, x) = (s \o u) \o <<x>>
        /\ <<x>> \in Seq(S)
    <2>1. s \o u \in Seq(S)
      BY ConcatProperties
    <2> QED BY <2>1, AppendIsConcat
  <1>2. (s \o u) \o <<x>> = s \o (u \o <<x>>)
    BY <1>1, Regroup DEF Regroups
  <1> QED BY <1>1, <1>2

\* r is q with an element added to list k, behind which the others are empty.
AddsTo(q, r, n, k, x) ==
  /\ r[k] = Append(q[k], x)
  /\ \A j \in 1..n : j # k => r[j] = q[j]
  /\ \A j \in 1..n : j > k => q[j] = <<>>

\* It is added to all of them put together.
LEMMA FlattenAppend ==
  ASSUME NEW S, NEW n \in Nat \ {0}, NEW q \in [1..n -> Seq(S)], NEW r \in [1..n -> Seq(S)],
         NEW k \in 1..n, NEW x \in S, AddsTo(q, r, n, k, x)
  PROVE  /\ FlattenSeq(r) = Append(FlattenSeq(q), x)
         /\ FlattenSeq(q) \in Seq(S)
  <1>0. /\ r[k] = Append(q[k], x)
        /\ \A j \in 1..n : j # k => r[j] = q[j]
        /\ \A j \in 1..n : j > k => q[j] = <<>>
    BY DEF AddsTo
  <1>1. PICK F : /\ Flattens(F, q, n) /\ FlattenSeq(q) = F[n]
                 /\ \A i \in 1..n : F[i] \in Seq(S)
    BY FlattenFacts
  <1>2. PICK G : /\ Flattens(G, r, n) /\ FlattenSeq(r) = G[n]
                 /\ \A i \in 1..n : G[i] \in Seq(S)
    BY FlattenFacts
  <1> DEFINE M == {m \in Nat : m + 1 <= n =>
                     /\ m + 1 < k => G[m + 1] = F[m + 1]
                     /\ m + 1 >= k => G[m + 1] = Append(F[m + 1], x)}
  <1>3. 0 \in M
    BY <1>0, <1>1, <1>2 DEF Flattens
  <1>4. ASSUME NEW m \in Nat, m \in M PROVE m + 1 \in M
    <2> SUFFICES ASSUME m + 2 <= n
                 PROVE  /\ m + 2 < k => G[m + 2] = F[m + 2]
                        /\ m + 2 >= k => G[m + 2] = Append(F[m + 2], x)
      <3>1. (m + 1) + 1 = m + 2
        OBVIOUS
      <3> QED BY <3>1
    <2>1. PICK i \in 2..n : i = m + 2
      OBVIOUS
    <2>2. F[i] = F[i - 1] \o q[i] /\ G[i] = G[i - 1] \o r[i]
      BY <1>1, <1>2 DEF Flattens
    <2>3. F[i - 1] \in Seq(S) /\ q[i] \in Seq(S) /\ i \in 1..n
      BY <1>1
    <2>4. /\ m + 1 < k => G[m + 1] = F[m + 1]
          /\ m + 1 >= k => G[m + 1] = Append(F[m + 1], x)
      BY <1>4
    <2>5. i - 1 = m + 1 /\ (i < k \/ i = k \/ i > k)
      BY <2>1
    <2> HIDE DEF M
    <2>6. i - 1 < k => G[i - 1] = F[i - 1]
      BY ONLY <2>4, <2>5
    <2>7. i - 1 >= k => G[i - 1] = Append(F[i - 1], x)
      BY ONLY <2>4, <2>5
    <2>8. CASE i < k
      <3>1. r[i] = q[i] /\ G[i - 1] = F[i - 1]
        BY <1>0, <2>3, <2>6, <2>8
      <3>2. G[i] = F[i]
        BY ONLY <2>2, <3>1
      <3> QED BY <2>1, <2>8, <3>2
    <2>9. CASE i = k
      <3>1. r[i] = Append(q[i], x) /\ G[i - 1] = F[i - 1]
        BY <1>0, <2>6, <2>9
      <3>2. PICK s \in Seq(S), u \in Seq(S) : s = F[i - 1] /\ u = q[i]
        BY <2>3
      <3>3. s \o Append(u, x) = Append(s \o u, x)
        BY ONLY s \in Seq(S), u \in Seq(S), x \in S, ConcatAppend
      <3>4. r[i] = Append(u, x)
        BY <2>9, <3>1, <3>2
      <3>5. G[i] = Append(F[i], x)
        BY ONLY <2>2, <3>1, <3>2, <3>3, <3>4
      <3> QED BY <2>1, <2>9, <3>5
    <2>10. CASE i > k
      <3>1. r[i] = <<>> /\ q[i] = <<>> /\ G[i - 1] = Append(F[i - 1], x)
        BY <1>0, <2>3, <2>7, <2>10
      <3>2. Append(F[i - 1], x) \in Seq(S)
        BY <2>3, AppendProperties
      <3>3. F[i] = F[i - 1] /\ G[i] = G[i - 1]
        BY <2>2, <2>3, <3>1, <3>2, ConcatEmptySeq
      <3> QED BY <2>1, <2>10, <3>1, <3>3
    <2> QED BY ONLY <2>8, <2>9, <2>10, <2>5
  <1>5. n - 1 \in M
    <2> HIDE DEF M
    <2>1. n - 1 \in Nat
      OBVIOUS
    <2> QED BY <1>3, <1>4, <2>1, SetInduction
  <1>6. G[n] = Append(F[n], x)
    BY <1>5
  <1> QED BY <1>1, <1>2, <1>6

\* at says where in s, of length m, the elements of t, of length n, are: the
\* others of s are in T.
Keeps(at, s, t, m, n, T) ==
  /\ at \in [1..n -> 1..m]
  /\ \A i, j \in 1..n : i < j => at[i] < at[j]
  /\ \A i \in 1..n : t[i] = s[at[i]]
  /\ \A k \in 1..m : s[k] \in T \/ \E i \in 1..n : at[i] = k

\* t is what is left of s when some of its elements, all of them in T, go.
Thinned(s, t, T) == \E at : Keeps(at, s, t, Len(s), Len(t), T)

\* A list that stays is put behind what is left ...
LEMMA ThinnedStays ==
  ASSUME NEW S, NEW T, NEW s \in Seq(S), NEW t \in Seq(S), NEW u \in Seq(S),
         Thinned(s, t, T)
  PROVE  Thinned(s \o u, t \o u, T)
  <1>1. PICK m \in Nat, n \in Nat, l \in Nat : m = Len(s) /\ n = Len(t) /\ l = Len(u)
    BY LenProperties
  <1>2. PICK at \in [1..n -> 1..m] :
          /\ \A i, j \in 1..n : i < j => at[i] < at[j]
          /\ \A i \in 1..n : t[i] = s[at[i]]
          /\ \A k \in 1..m : s[k] \in T \/ \E i \in 1..n : at[i] = k
    <2>1. PICK at : Keeps(at, s, t, m, n, T)
      BY ONLY <1>1, Thinned(s, t, T) DEF Thinned
    <2> QED BY ONLY <2>1 DEF Keeps
  <1>3. PICK c \in Seq(S) : /\ c = s \o u /\ Len(c) = m + l
                            /\ \A i \in 1..m + l : c[i] = IF i <= m THEN s[i] ELSE u[i - m]
    <2>1. /\ s \o u \in Seq(S) /\ Len(s \o u) = Len(s) + Len(u)
          /\ \A i \in 1..Len(s) + Len(u) :
               (s \o u)[i] = IF i <= Len(s) THEN s[i] ELSE u[i - Len(s)]
      BY ConcatProperties
    <2> QED BY ONLY <1>1, <2>1
  <1>4. PICK d \in Seq(S) : /\ d = t \o u /\ Len(d) = n + l
                            /\ \A i \in 1..n + l : d[i] = IF i <= n THEN t[i] ELSE u[i - n]
    <2>1. /\ t \o u \in Seq(S) /\ Len(t \o u) = Len(t) + Len(u)
          /\ \A i \in 1..Len(t) + Len(u) :
               (t \o u)[i] = IF i <= Len(t) THEN t[i] ELSE u[i - Len(t)]
      BY ConcatProperties
    <2> QED BY ONLY <1>1, <2>1
  <1>5. PICK to : to = [i \in 1..n + l |-> IF i <= n THEN at[i] ELSE m + (i - n)]
    OBVIOUS
  <1>6. /\ \A i \in 1..n : to[i] = at[i] /\ at[i] \in 1..m
        /\ \A i \in 1..n + l : i > n => to[i] = m + (i - n) /\ i - n \in 1..l
    BY <1>5
  <1>7. to \in [1..n + l -> 1..m + l]
    <2>1. ASSUME NEW i \in 1..n + l PROVE to[i] \in 1..m + l
      <3>1. CASE i <= n
        BY <1>6, <3>1
      <3>2. CASE i > n
        BY <1>6, <3>2
      <3> QED BY <3>1, <3>2
    <2> QED BY <1>5, <2>1
  <1>8. ASSUME NEW i \in 1..n + l, NEW j \in 1..n + l, i < j PROVE to[i] < to[j]
    <2>1. CASE j <= n
      BY <1>2, <1>6, <1>8, <2>1
    <2>2. CASE i <= n /\ j > n
      BY <1>6, <2>2
    <2>3. CASE i > n
      BY <1>6, <1>8, <2>3
    <2> QED BY <2>1, <2>2, <2>3
  <1>9. ASSUME NEW i \in 1..n + l PROVE d[i] = c[to[i]]
    <2>1. CASE i <= n
      <3>1. i \in 1..n /\ to[i] \in 1..m /\ to[i] = at[i]
        BY <1>6, <2>1
      <3>2. to[i] \in 1..m + l /\ to[i] <= m /\ i \in 1..n + l
        BY <3>1
      <3>3. c[to[i]] = s[to[i]] /\ d[i] = t[i]
        BY ONLY <1>3, <1>4, <2>1, <3>2
      <3> QED BY ONLY <1>2, <3>1, <3>3
    <2>2. CASE i > n
      <3>1. PICK k \in 1..l : k = i - n /\ to[i] = m + k
        BY <1>6, <2>2
      <3>2. m + k \in 1..m + l /\ ~(m + k <= m) /\ (m + k) - m = k
        OBVIOUS
      <3>3. c[m + k] = u[k]
        BY <1>3, <3>2
      <3>4. d[i] = u[i - n]
        <4>1. ~(i <= n)
          BY <2>2
        <4> QED BY ONLY <1>4, <4>1, i \in 1..n + l
      <3> QED BY <3>1, <3>3, <3>4
    <2> QED BY <2>1, <2>2
  <1>10. ASSUME NEW k \in 1..m + l PROVE c[k] \in T \/ \E i \in 1..n + l : to[i] = k
    <2>1. CASE k <= m
      <3>1. k \in 1..m /\ c[k] = s[k]
        BY <1>3, <2>1
      <3>2. CASE s[k] \in T
        BY <3>1, <3>2
      <3>3. CASE s[k] \notin T
        <4>1. PICK i \in 1..n : at[i] = k
          BY <1>2, <3>1, <3>3
        <4>2. i \in 1..n + l /\ to[i] = k
          BY <1>6, <4>1
        <4> QED BY <4>2
      <3> QED BY <3>2, <3>3
    <2>2. CASE k > m
      <3>1. n + (k - m) \in 1..n + l /\ n + (k - m) > n /\ m + ((n + (k - m)) - n) = k
        BY <2>2
      <3> QED BY <1>6, <3>1
    <2> QED BY <2>1, <2>2
  <1>11. Thinned(c, d, T)
    <2>1. Keeps(to, c, d, m + l, n + l, T)
      BY ONLY <1>7, <1>8, <1>9, <1>10 DEF Keeps
    <2> QED BY ONLY <1>3, <1>4, <2>1 DEF Thinned
  <1> QED BY <1>3, <1>4, <1>11

\* ... and of one that goes nothing is.
LEMMA ThinnedGoes ==
  ASSUME NEW S, NEW T, T \subseteq S, NEW s \in Seq(S), NEW t \in Seq(S), NEW u \in Seq(T),
         Thinned(s, t, T)
  PROVE  Thinned(s \o u, t, T)
  <1>1. u \in Seq(S)
    BY SeqMonotonic
  <1>2. PICK m \in Nat, n \in Nat, l \in Nat : m = Len(s) /\ n = Len(t) /\ l = Len(u)
    BY LenProperties
  <1>3. PICK at \in [1..n -> 1..m] :
          /\ \A i, j \in 1..n : i < j => at[i] < at[j]
          /\ \A i \in 1..n : t[i] = s[at[i]]
          /\ \A k \in 1..m : s[k] \in T \/ \E i \in 1..n : at[i] = k
    <2>1. PICK at : Keeps(at, s, t, m, n, T)
      BY ONLY <1>2, Thinned(s, t, T) DEF Thinned
    <2> QED BY ONLY <2>1 DEF Keeps
  <1>4. PICK c \in Seq(S) : /\ c = s \o u /\ Len(c) = m + l
                            /\ \A i \in 1..m + l : c[i] = IF i <= m THEN s[i] ELSE u[i - m]
    <2>1. /\ s \o u \in Seq(S) /\ Len(s \o u) = Len(s) + Len(u)
          /\ \A i \in 1..Len(s) + Len(u) :
               (s \o u)[i] = IF i <= Len(s) THEN s[i] ELSE u[i - Len(s)]
      BY <1>1, ConcatProperties
    <2> QED BY ONLY <1>2, <2>1
  <1>5. at \in [1..n -> 1..m + l]
    <2>1. \A i \in 1..n : at[i] \in 1..m + l
      OBVIOUS
    <2> QED BY <2>1
  <1>6. ASSUME NEW i \in 1..n PROVE t[i] = c[at[i]]
    <2>1. at[i] \in 1..m /\ at[i] \in 1..m + l /\ at[i] <= m
      OBVIOUS
    <2> QED BY <1>3, <1>4, <2>1
  <1>7. ASSUME NEW k \in 1..m + l PROVE c[k] \in T \/ \E i \in 1..n : at[i] = k
    <2>1. CASE k <= m
      <3>1. k \in 1..m /\ c[k] = s[k]
        BY <1>4, <2>1
      <3> QED BY <1>3, <3>1
    <2>2. CASE k > m
      <3>1. k - m \in 1..l /\ c[k] = u[k - m]
        BY <1>4, <2>2
      <3>2. u[k - m] \in T
        BY <1>2, <3>1, ElementOfSeq
      <3> QED BY <3>1, <3>2
    <2> QED BY <2>1, <2>2
  <1>8. Thinned(c, t, T)
    <2>1. Keeps(at, c, t, m + l, n, T)
      BY ONLY <1>3, <1>5, <1>6, <1>7 DEF Keeps
    <2> QED BY ONLY <1>2, <1>4, <2>1 DEF Thinned
  <1> QED BY <1>4, <1>8

\* A list of lists of which some, all of T, are emptied.
LEMMA FlattenThins ==
  ASSUME NEW S, NEW T, T \subseteq S, NEW n \in Nat \ {0},
         NEW q \in [1..n -> Seq(S)], NEW r \in [1..n -> Seq(S)],
         \A j \in 1..n : r[j] = q[j] \/ (q[j] \in Seq(T) /\ r[j] = <<>>)
  PROVE  Thinned(FlattenSeq(q), FlattenSeq(r), T)
  <1>1. PICK F : /\ Flattens(F, q, n) /\ FlattenSeq(q) = F[n]
                 /\ \A i \in 1..n : F[i] \in Seq(S)
    BY FlattenFacts
  <1>2. PICK G : /\ Flattens(G, r, n) /\ FlattenSeq(r) = G[n]
                 /\ \A i \in 1..n : G[i] \in Seq(S)
    BY FlattenFacts
  <1>3. PICK none : none = <<>> /\ none \in Seq(S) /\ Len(none) = 0
    <2>1. <<>> \in Seq(S) /\ Len(<<>>) = 0
      OBVIOUS
    <2> QED BY <2>1
  <1>4. Thinned(none, none, T)
    <2>1. PICK at : at = [i \in 1..0 |-> i]
      OBVIOUS
    <2>2. Keeps(at, none, none, 0, 0, T)
      BY ONLY <2>1 DEF Keeps
    <2> QED BY ONLY <1>3, <2>2 DEF Thinned
  \* One list more.
  <1>5. ASSUME NEW s \in Seq(S), NEW t \in Seq(S), Thinned(s, t, T), NEW i \in 1..n
        PROVE  Thinned(s \o q[i], t \o r[i], T)
    <2>1. CASE r[i] = q[i]
      BY <1>5, <2>1, ThinnedStays
    <2>2. CASE q[i] \in Seq(T) /\ r[i] = none
      <3>1. t \o r[i] = t
        BY <1>3, <2>2, ConcatEmptySeq
      <3> QED BY <1>5, <2>2, <3>1, ThinnedGoes
    <2> QED BY <1>3, <2>1, <2>2
  <1> DEFINE M == {m \in Nat : m + 1 <= n => Thinned(F[m + 1], G[m + 1], T)}
  <1>6. 0 \in M
    <2>1. 1 \in 1..n /\ F[1] = q[1] /\ G[1] = r[1]
      BY <1>1, <1>2 DEF Flattens
    <2>2. none \o q[1] = q[1] /\ none \o r[1] = r[1]
      BY <1>3, <2>1, ConcatEmptySeq
    <2>3. Thinned(none \o q[1], none \o r[1], T)
      BY <1>3, <1>4, <1>5, <2>1
    <2>4. Thinned(F[1], G[1], T)
      BY ONLY <2>1, <2>2, <2>3
    <2> QED BY <2>4
  <1>7. ASSUME NEW m \in Nat, m \in M PROVE m + 1 \in M
    <2> SUFFICES ASSUME m + 2 <= n PROVE Thinned(F[m + 2], G[m + 2], T)
      OBVIOUS
    <2>1. PICK i \in 2..n : i = m + 2 /\ i - 1 = m + 1
      OBVIOUS
    <2>2. F[i] = F[i - 1] \o q[i] /\ G[i] = G[i - 1] \o r[i]
      BY ONLY <1>1, <1>2, i \in 2..n DEF Flattens
    <2>4. i \in 1..n /\ i - 1 \in 1..n
      OBVIOUS
    <2>3. Thinned(F[m + 1], G[m + 1], T)
      BY <1>7
    <2> HIDE DEF M
    <2> QED BY <1>1, <1>2, <1>5, <2>1, <2>2, <2>3, <2>4
  <1>8. n - 1 \in M
    <2> HIDE DEF M
    <2>1. n - 1 \in Nat
      OBVIOUS
    <2> QED BY <1>6, <1>7, <2>1, SetInduction
  <1>9. Thinned(F[n], G[n], T)
    BY <1>8
  <1> QED BY <1>1, <1>2, <1>9

-----------------------------------------------------------------------------
(* What a journal of lists does.                                           *)

\* An element more makes a list longer by it, at its end.
LEMMA AppendIsWrite ==
  ASSUME NEW S, NEW s \in Seq(S), NEW x \in S
  PROVE  /\ Len(Append(s, x)) = Len(s) + 1
         /\ IsPrefix(s, Append(s, x))
         /\ Last(Append(s, x)) = x
  <1>1. /\ Append(s, x) \in Seq(S) /\ Len(Append(s, x)) = Len(s) + 1
        /\ Append(s, x)[Len(s) + 1] = x /\ Len(s) \in Nat
    BY AppendProperties, LenProperties
  <1>2. SubSeq(s, 1, Len(s)) = SubSeq(Append(s, x), 1, Len(s))
    <2>1. CASE Len(s) = 0
      BY <2>1, SubSeqEmpty
    <2>2. CASE Len(s) # 0
      <3>1. Append(s, x) = s \o <<x>> /\ <<x>> \in Seq(S)
        BY AppendIsConcat
      <3>2. 1 \in 1..Len(s) /\ Len(s) \in 1..Len(s)
        BY <1>1, <2>2
      <3>3. SubSeq(s \o <<x>>, 1, Len(s)) = SubSeq(s, 1, Len(s))
        BY ONLY <3>1, <3>2, s \in Seq(S), SubSeqOfConcat1
      <3> QED BY <3>1, <3>3
    <2> QED BY <2>1, <2>2
  <1> QED BY <1>1, <1>2 DEF IsPrefix, Last

-----------------------------------------------------------------------------
(* The days of lines and of files.                                         *)

\* The file that is open is the one of the latest day.
OpenIsLast == \A h \in handle : \A d \in DOMAIN files : d <= h

\* No line is stamped later than its file was written.
LinesInTime ==
  \A d \in DOMAIN files : \A i \in 1..Len(files[d]) : files[d][i].day <= mtime[d]

\* Nor does the clock go back behind the stamp of a line under way.
StampsPast == \A t \in Thread : pending[t] # <<>> => pending[t][1].line.day <= today

\* The invariant of the journal.
DInv ==
  /\ IInv
  /\ OpenIsLast
  /\ LinesInTime
  /\ StampsPast

\* The days are numbers.
LEMMA DaysAreNats == Day \subseteq Nat /\ MaxDay + 1 \in Nat \ {0}
  BY LoggingAssumption DEF Day

\* So are the stamps of the lines.
LEMMA StampIsANat == \A l \in Line : l.day \in Nat
  <1>1. \A l \in Line : l.day \in Day
    BY DEF Line
  <1> QED BY <1>1, DaysAreNats

\* At first there is nothing to be out of order.
LEMMA InitDays == Init => DInv
  <1> SUFFICES ASSUME Init PROVE DInv
    OBVIOUS
  <1>1. DOMAIN files = {} /\ handle = {} /\ \A t \in Thread : pending[t] = <<>>
    BY DEF Init
  <1> QED BY <1>1, InitInvariant DEF DInv, OpenIsLast, LinesInTime, StampsPast

\* Files that remain are as they were.
LEMMA StartDays ==
  ASSUME DInv, Start
  PROVE  DInv'
  <1>1. /\ DOMAIN files' \subseteq DOMAIN files
        /\ \A d \in DOMAIN files' : files'[d] = files[d] /\ mtime'[d] = mtime[d]
        /\ UNCHANGED <<pending, handle, today>>
    BY DEF DInv, IInv, TypeOK, Start, Cleanup, disk
  <1>2. IInv'
    BY StartStep DEF DInv
  <1>3. (OpenIsLast /\ StampsPast)'
    BY <1>1 DEF DInv, OpenIsLast, StampsPast
  <1>4. LinesInTime'
    BY <1>1 DEF DInv, LinesInTime
  <1> QED BY <1>2, <1>3, <1>4 DEF DInv

\* Steps that leave the files alone and bring no new line.
LEMMA QuietDays ==
  ASSUME DInv,
         \/ Stop \/ Midnight \/ Choose \/ ApplyLevel \/ Clear \/ UNCHANGED vars
         \/ \E t \in Thread : PushRing(t)
  PROVE  DInv'
  <1>1. IInv'
    BY StopStep, QuietStep, PushRingStep DEF DInv
  <1>2. UNCHANGED <<files, mtime>> /\ (UNCHANGED handle \/ handle' = {})
    BY DEF Stop, Midnight, Choose, ApplyLevel, Clear, PushRing, vars, process, disk
  <1>3. (OpenIsLast /\ LinesInTime)'
    BY <1>2 DEF DInv, OpenIsLast, LinesInTime
  <1>4. StampsPast'
    <2>1. CASE Stop
      BY <2>1 DEF Stop, StampsPast
    <2>2. CASE \E t \in Thread : PushRing(t)
      <3>1. PICK t \in Thread : PushRing(t)
        BY <2>2
      <3>2. pending' = [pending EXCEPT ![t] = <<>>] /\ today' = today
        BY <3>1, AfterRing DEF DInv, IInv, PushRing
      <3> QED BY <3>2 DEF DInv, IInv, TypeOK, StampsPast
    <2>3. CASE Midnight \/ Choose \/ ApplyLevel \/ Clear \/ UNCHANGED vars
      <3>1. UNCHANGED pending /\ (today' = today \/ today' = today + 1)
        BY <2>3 DEF Midnight, Choose, ApplyLevel, Clear, vars, process
      <3> SUFFICES ASSUME NEW t \in Thread, pending[t] # <<>>
                   PROVE  pending[t][1].line.day <= today'
        BY <3>1 DEF StampsPast
      <3>2. pending[t][1].line.day <= today
        BY DEF DInv, StampsPast
      <3>3. PICK l \in Line, s \in {Sinks, Tail(Sinks)} : pending[t][1] = [line |-> l, to |-> s]
        BY EventIsTyped DEF DInv, IInv, Event
      <3>4. pending[t][1].line.day \in Nat /\ today \in Nat
        <4>1. pending[t][1].line = l /\ l.day \in Nat
          BY <3>3, StampIsANat
        <4> QED BY <4>1, DaysAreNats DEF DInv, IInv, TypeOK
      <3> QED BY <3>1, <3>2, <3>4
    <2> QED BY <2>1, <2>2, <2>3
  <1> QED BY <1>1, <1>3, <1>4 DEF DInv

\* A new line is stamped today.
LEMMA LogDays ==
  ASSUME DInv, NEW t \in Thread, Log(t)
  PROVE  DInv'
  <1> DEFINE new == [line |-> [no |-> count + 1, day |-> today], to |-> Sinks]
  <1>1. /\ pending' = [pending EXCEPT ![t] = <<new>>]
        /\ UNCHANGED <<files, mtime, handle, today>>
    BY DEF Log, disk
  <1>2. IInv'
    BY LogStep DEF DInv
  <1>3. (OpenIsLast /\ LinesInTime)'
    BY <1>1 DEF DInv, OpenIsLast, LinesInTime
  <1>4. new.line.day = today /\ today <= today
    BY DaysAreNats DEF DInv, IInv, TypeOK
  <1> HIDE DEF new
  <1>5. StampsPast'
    BY <1>1, <1>4 DEF DInv, IInv, TypeOK, StampsPast
  <1> QED BY <1>2, <1>3, <1>5 DEF DInv

-----------------------------------------------------------------------------
(* What writing does to the files.                                         *)

\* The file written to is the one of the latest day.
LEMMA FileIsLast ==
  ASSUME DInv
  PROVE  \A d \in DOMAIN files : d <= File /\ mtime[d] <= today
  <1> SUFFICES ASSUME NEW d \in DOMAIN files PROVE d <= File /\ mtime[d] <= today
    OBVIOUS
  <1>1. mtime[d] \in d..today /\ d \in Nat /\ today \in Nat
    BY DaysAreNats DEF DInv, IInv, TypeOK
  <1>2. CASE handle = {}
    BY <1>1, <1>2 DEF File
  <1>3. CASE handle # {}
    <2>1. File \in handle
      BY <1>3 DEF File
    <2> QED BY <1>1, <2>1 DEF DInv, OpenIsLast
  <1> QED BY <1>2, <1>3

\* The line, if any, is the last of the last file.
LEMMA WriteFileSays ==
  ASSUME DInv, NEW t \in Thread, WriteFile(t)
  PROVE  \E l \in Line :
           /\ pending[t] # <<>> /\ pending[t][1].line = l /\ l.day <= today
           /\ pending' = [pending EXCEPT ![t] = <<[line |-> l, to |-> Tail(Sinks)]>>]
           /\ UNCHANGED <<today, retention>>
           /\ \/ UNCHANGED <<files, mtime, handle>>
              \/ /\ handle' = {File}
                 /\ \/ Put(File, Append(Opened(File), l), today)
                    \/ Put(File, Opened(File),
                           IF File \in DOMAIN files THEN mtime[File] ELSE today)
  <1>1. Turn(t, "file") /\ Done(t) /\ UNCHANGED <<today, retention>>
    BY DEF WriteFile, prefs
  <1>2. PICK l \in Line :
          /\ pending[t] # <<>> /\ pending[t][1].line = l
          /\ pending' = [pending EXCEPT ![t] = <<[line |-> l, to |-> Tail(Sinks)]>>]
    BY <1>1, AfterFile DEF DInv, IInv
  <1>3. l.day <= today
    BY <1>2 DEF DInv, StampsPast
  <1>4. \/ UNCHANGED <<files, mtime, handle>>
        \/ /\ handle' = {File}
           /\ \/ Put(File, Append(Opened(File), l), today)
              \/ Put(File, Opened(File), IF File \in DOMAIN files THEN mtime[File] ELSE today)
    BY <1>2 DEF WriteFile, disk
  <1> QED BY <1>1, <1>2, <1>3, <1>4

\* A file put in the last place, with lines that are no later than it.
LEMMA PutDays ==
  ASSUME DInv, handle' = {File}, today' = today,
         NEW lines \in Seq(Line), NEW when \in File..today,
         Put(File, lines, when),
         \A i \in 1..Len(lines) : lines[i].day <= when,
         File \in DOMAIN files => mtime[File] <= when,
         when = today \/ (File \in DOMAIN files /\ when = mtime[File])
  PROVE  (OpenIsLast /\ LinesInTime)'
  <1>1. File \in Day /\ \A d \in DOMAIN files : d \in Nat /\ mtime[d] \in Nat
    <2>1. File \in Day
      BY FileIsOfADay DEF DInv, IInv
    <2>2. ASSUME NEW d \in DOMAIN files PROVE d \in Nat /\ mtime[d] \in Nat
      <3>1. mtime[d] \in d..today /\ d \in Nat /\ today \in Nat
        BY DaysAreNats DEF DInv, IInv, TypeOK
      <3> QED BY <3>1
    <2> QED BY <2>1, <2>2
  <1>2. /\ DOMAIN files' = DOMAIN files \cup {File}
        /\ files'[File] = lines /\ mtime'[File] = when
        /\ \A d \in DOMAIN files \ {File} : files'[d] = files[d] /\ mtime'[d] = mtime[d]
    BY DEF DInv, IInv, TypeOK, Put
  <1>3. \A d \in DOMAIN files : d <= File
    BY FileIsLast
  <1>4. OpenIsLast'
    BY <1>1, <1>2, <1>3, DaysAreNats DEF OpenIsLast
  <1>6. LinesInTime'
    <2> SUFFICES ASSUME NEW d \in DOMAIN files', NEW i \in 1..Len(files'[d])
                 PROVE  files'[d][i].day <= mtime'[d]
      BY DEF LinesInTime
    <2>1. CASE d = File
      BY <1>2, <2>1
    <2>2. CASE d # File
      BY <1>2, <2>2 DEF DInv, LinesInTime
    <2> QED BY <2>1, <2>2
  <1> QED BY <1>4, <1>6

\* The order survives a line that is written, and one that is not.
LEMMA WriteFileDays ==
  ASSUME DInv, NEW t \in Thread, WriteFile(t)
  PROVE  DInv'
  <1>1. PICK l \in Line :
          /\ pending[t] # <<>> /\ pending[t][1].line = l /\ l.day <= today
          /\ pending' = [pending EXCEPT ![t] = <<[line |-> l, to |-> Tail(Sinks)]>>]
          /\ UNCHANGED <<today, retention>>
          /\ \/ UNCHANGED <<files, mtime, handle>>
             \/ /\ handle' = {File}
                /\ \/ Put(File, Append(Opened(File), l), today)
                   \/ Put(File, Opened(File),
                          IF File \in DOMAIN files THEN mtime[File] ELSE today)
    BY WriteFileSays
  <1>2. IInv'
    BY WriteFileStep DEF DInv
  <1>3. StampsPast'
    BY <1>1 DEF DInv, IInv, TypeOK, StampsPast
  <1>4. /\ Opened(File) \in Seq(Line) /\ today \in File..today /\ today <= today
        /\ File \in DOMAIN files => mtime[File] \in File..today /\ mtime[File] <= mtime[File]
    <2>1. File \in Nat /\ File <= today /\ today \in Nat
      BY FileIsOfADay, DaysAreNats DEF DInv, IInv, TypeOK
    <2> QED BY <2>1 DEF DInv, IInv, TypeOK, Opened
  <1>5. \A i \in 1..Len(Opened(File)) :
          /\ Opened(File)[i].day \in Nat /\ Opened(File)[i].day <= today
          /\ File \in DOMAIN files /\ Opened(File)[i].day <= mtime[File]
    <2> TAKE i \in 1..Len(Opened(File))
    <2>1. File \in DOMAIN files /\ Opened(File) = files[File]
      BY DEF Opened
    <2>2. Opened(File)[i] \in Line
      BY <1>4
    <2>3. Opened(File)[i].day \in Nat /\ today \in Nat /\ mtime[File] \in Nat
      <3>1. mtime[File] \in File..today /\ File \in Nat /\ today \in Nat
        BY <2>1, DaysAreNats DEF DInv, IInv, TypeOK
      <3> QED BY <2>2, <3>1, StampIsANat
    <2>4. Opened(File)[i].day <= mtime[File] /\ mtime[File] <= today
      BY <2>1, FileIsLast DEF DInv, LinesInTime
    <2> QED BY <2>1, <2>3, <2>4
  <1>6. (OpenIsLast /\ LinesInTime)'
    <2>1. CASE UNCHANGED <<files, mtime, handle>>
      BY <2>1 DEF DInv, OpenIsLast, LinesInTime
    <2>2. CASE handle' = {File} /\ Put(File, Append(Opened(File), l), today)
      <3>1. PICK lines \in Seq(Line) :
              /\ lines = Append(Opened(File), l)
              /\ \A i \in 1..Len(lines) : lines[i].day <= today
        <4>1. /\ Append(Opened(File), l) \in Seq(Line)
              /\ Len(Append(Opened(File), l)) = Len(Opened(File)) + 1
              /\ \A i \in 1..Len(Opened(File)) : Append(Opened(File), l)[i] = Opened(File)[i]
              /\ Append(Opened(File), l)[Len(Opened(File)) + 1] = l
              /\ Len(Opened(File)) \in Nat
          BY <1>4, AppendProperties, LenProperties
        <4>2. ASSUME NEW i \in 1..Len(Append(Opened(File), l))
              PROVE  Append(Opened(File), l)[i].day <= today
          <5>1. CASE i \in 1..Len(Opened(File))
            BY <1>5, <4>1, <5>1
          <5>2. CASE i = Len(Opened(File)) + 1
            BY <1>1, <4>1, <5>2
          <5> QED BY <4>1, <5>1, <5>2
        <4> QED BY <4>1, <4>2
      <3>2. File \in DOMAIN files => mtime[File] <= today
        BY FileIsLast
      <3>3. PICK when \in File..today : when = today
        BY <1>4
      <3>4. Put(File, lines, when) /\ \A i \in 1..Len(lines) : lines[i].day <= when
        BY <2>2, <3>1, <3>3
      <3> QED
        <4>1. handle' = {File} /\ today' = today
          BY <1>1, <2>2
        <4>2. File \in DOMAIN files => mtime[File] <= when
          BY <3>2, <3>3
        <4>3. when = today \/ (File \in DOMAIN files /\ when = mtime[File])
          BY <3>3
        <4> QED BY ONLY DInv, when \in File..today, lines \in Seq(Line),
                        <3>4, <4>1, <4>2, <4>3, PutDays
    <2>3. CASE /\ handle' = {File}
               /\ Put(File, Opened(File),
                      IF File \in DOMAIN files THEN mtime[File] ELSE today)
      <3>1. CASE File \in DOMAIN files
        <4>1. PICK when \in File..today : when = mtime[File]
          BY <1>4, <3>1
        <4>2. Put(File, Opened(File), when)
          BY <2>3, <3>1, <4>1
        <4> QED BY <1>1, <1>4, <1>5, <2>3, <3>1, <4>1, <4>2, PutDays
      <3>2. CASE File \notin DOMAIN files
        <4>1. PICK when \in File..today : when = today
          BY <1>4
        <4>2. Put(File, Opened(File), when)
          BY <2>3, <3>2, <4>1
        <4> QED BY <1>1, <1>4, <1>5, <2>3, <3>2, <4>1, <4>2, PutDays
      <3> QED BY <3>1, <3>2
    <2> QED BY <1>1, <2>1, <2>2, <2>3
  <1> QED BY <1>2, <1>3, <1>6 DEF DInv

\* Every step keeps the days in order.
LEMMA NextDays == DInv /\ [Next]_vars => DInv'
  <1> SUFFICES ASSUME DInv, [Next]_vars PROVE DInv'
    OBVIOUS
  <1>1. CASE Start
    BY <1>1, StartDays
  <1>2. CASE \/ Stop \/ Midnight \/ Choose \/ ApplyLevel \/ Clear \/ UNCHANGED vars
             \/ \E t \in Thread : PushRing(t)
    BY <1>2, QuietDays
  <1>3. CASE \E t \in Thread : Log(t) \/ WriteFile(t)
    BY <1>3, LogDays, WriteFileDays
  <1> QED BY <1>1, <1>2, <1>3 DEF Next

-----------------------------------------------------------------------------
(* The files, put together.                                                *)

\* A day without a file has no lines.
LEMMA OpenedIsTyped ==
  ASSUME TypeOK, NEW d
  PROVE  Opened(d) \in Seq(Line)
  <1>1. <<>> \in Seq(Line)
    BY NothingFits
  <1> QED BY <1>1 DEF TypeOK, Opened

\* The files before and after a step, as two lists of lists.
LEMMA ExportedIs ==
  ASSUME TypeOK, TypeOK'
  PROVE  \E q \in [1..MaxDay + 1 -> Seq(Line)], r \in [1..MaxDay + 1 -> Seq(Line)] :
           /\ Exported = FlattenSeq(q) /\ Exported' = FlattenSeq(r)
           /\ \A i \in 1..MaxDay + 1 : q[i] = Opened(i - 1) /\ r[i] = Opened(i - 1)'
  <1>1. PICK q : q = [i \in 1..MaxDay + 1 |-> Opened(i - 1)]
    OBVIOUS
  <1>2. PICK r : r = [i \in 1..MaxDay + 1 |-> Opened(i - 1)']
    OBVIOUS
  <1>3. Exported = FlattenSeq(q)
    BY <1>1 DEF Exported
  <1>4. Exported' = FlattenSeq(r)
    BY <1>2 DEF Exported
  <1>5. \A i \in 1..MaxDay + 1 : Opened(i - 1) \in Seq(Line)
    BY OpenedIsTyped
  <1>6. \A i \in 1..MaxDay + 1 : Opened(i - 1)' \in Seq(Line)
    <2> TAKE i \in 1..MaxDay + 1
    <2>1. <<>> \in Seq(Line)
      BY NothingFits
    <2> QED BY <2>1 DEF TypeOK, Opened
  <1>7. q \in [1..MaxDay + 1 -> Seq(Line)] /\ r \in [1..MaxDay + 1 -> Seq(Line)]
    BY <1>1, <1>2, <1>5, <1>6
  <1>8. \A i \in 1..MaxDay + 1 : q[i] = Opened(i - 1) /\ r[i] = Opened(i - 1)'
    BY <1>1, <1>2
  <1> QED BY <1>3, <1>4, <1>7, <1>8

\* A step after which every day's lines are the same exports the same.
LEMMA SameFiles ==
  ASSUME \A d : Opened(d)' = Opened(d)
  PROVE  Exported' = Exported
  <1>1. PICK q : q = [i \in 1..MaxDay + 1 |-> Opened(i - 1)]
    OBVIOUS
  <1>2. PICK r : r = [i \in 1..MaxDay + 1 |-> Opened(i - 1)']
    OBVIOUS
  <1>3. r = q
    BY <1>1, <1>2
  <1>4. Exported = FlattenSeq(q)
    BY <1>1 DEF Exported
  <1>5. Exported' = FlattenSeq(r)
    BY <1>2 DEF Exported
  <1> QED BY <1>3, <1>4, <1>5

\* At first there are no files.
LEMMA InitExports ==
  ASSUME Init
  PROVE  Exported = <<>>
  <1>1. PICK n \in Nat \ {0} : n = MaxDay + 1
    BY DaysAreNats
  <1>2. PICK q : q = [i \in 1..n |-> Opened(i - 1)]
    OBVIOUS
  <1>3. \A i \in 1..n : q[i] = <<>> /\ q[i] \in Seq({})
    BY <1>2 DEF Init, Opened
  <1>4. q \in [1..n -> Seq({})]
    BY <1>2, <1>3
  <1>5. FlattenSeq(q) \in Seq({})
    BY <1>4, FlattenIsTyped
  <1>6. FlattenSeq(q) = <<>>
    <2>1. \A i \in 1..Len(FlattenSeq(q)) : FlattenSeq(q)[i] \in {}
      BY <1>5, ElementOfSeq
    <2>2. Len(FlattenSeq(q)) \in Nat /\ Len(FlattenSeq(q)) = 0
      BY <1>5, <2>1, LenProperties
    <2> QED BY <1>5, <2>2, EmptySeq
  <1>7. Exported = FlattenSeq(q)
    BY <1>1, <1>2 DEF Exported
  <1> QED BY <1>6, <1>7

-----------------------------------------------------------------------------
(* The steps of the journal.                                               *)

\* Removing files, any of the old ones, expires lines that are old enough.
LEMMA CleanupExpires ==
  ASSUME DInv, TypeOK', Cleanup, today' = today, retention' = retention
  PROVE  Diary!Expire
  <1>1. PICK gone \in SUBSET {d \in DOMAIN files : Old(d)} :
          files' = [d \in DOMAIN files \ gone |-> files[d]]
    BY DEF Cleanup
  <1>2. PICK n \in Nat \ {0} : n = MaxDay + 1
    BY DaysAreNats
  <1>3. PICK q \in [1..n -> Seq(Line)], r \in [1..n -> Seq(Line)] :
          /\ Exported = FlattenSeq(q) /\ Exported' = FlattenSeq(r)
          /\ \A i \in 1..n : q[i] = Opened(i - 1) /\ r[i] = Opened(i - 1)'
    BY <1>2, ExportedIs DEF DInv, IInv
  <1> DEFINE T == {l \in Line : l.day + retention <= today}
             K == {i \in 1..n : i - 1 \in gone}
  <1>4. retention \in Nat /\ today \in Nat /\ DOMAIN files \subseteq Nat
    BY LoggingAssumption, DaysAreNats DEF DInv, IInv, TypeOK
  \* What is in a file that goes is as old as the file.
  <1>5. \A d \in gone : files[d] \in Seq(T)
    <2> TAKE d \in gone
    <2>1. d \in DOMAIN files /\ mtime[d] + retention <= today
      BY DEF Old
    <2>2. PICK s \in Seq(Line) : s = files[d]
      BY <2>1 DEF DInv, IInv, TypeOK
    <2>3. mtime[d] \in d..today /\ d \in Nat
      BY <1>4, <2>1 DEF DInv, IInv, TypeOK
    <2>4. ASSUME NEW i \in 1..Len(s) PROVE s[i] \in T
      <3>1. s[i] \in Line /\ s[i].day \in Nat
        BY ElementOfSeq, StampIsANat
      <3>2. s[i].day <= mtime[d]
        BY <2>1, <2>2 DEF DInv, LinesInTime
      <3>3. s[i].day + retention <= today
        BY <1>4, <2>1, <2>3, <3>1, <3>2
      <3> QED BY <3>1, <3>3
    <2> HIDE DEF T
    <2>5. PICK m \in Nat : m = Len(s) /\ s \in [1..m -> Line]
      BY LenProperties
    <2>6. s \in [1..m -> T]
      BY <2>4, <2>5
    <2>7. s \in Seq(T)
      BY <2>6
    <2> QED BY <2>2, <2>7
  <1>6. \A j \in 1..n : j \in K => q[j] \in Seq(T) /\ r[j] = <<>>
    <2> HIDE DEF T
    <2> SUFFICES ASSUME NEW j \in 1..n, j - 1 \in gone PROVE q[j] \in Seq(T) /\ r[j] = <<>>
      OBVIOUS
    <2>1. q[j] = files[j - 1]
      BY <1>3 DEF Opened
    <2>2. j - 1 \notin DOMAIN files'
      BY <1>1
    <2>3. r[j] = <<>>
      BY <1>3, <2>2 DEF Opened
    <2> QED BY <1>5, <2>1, <2>3
  <1>7. \A j \in 1..n : j \notin K => r[j] = q[j]
    <2> SUFFICES ASSUME NEW j \in 1..n, j - 1 \notin gone PROVE r[j] = q[j]
      OBVIOUS
    <2>1. PICK d : d = j - 1
      OBVIOUS
    <2>2. Opened(d)' = Opened(d)
      BY <1>1, <2>1 DEF Opened
    <2> QED
      BY <1>3, <2>1, <2>2
  <1>8. T \subseteq Line /\ \A l \in T : l.day + retention <= today
    OBVIOUS
  <1> HIDE DEF T, K
  <1>9. \A j \in 1..n : r[j] = q[j] \/ (q[j] \in Seq(T) /\ r[j] = <<>>)
    BY <1>6, <1>7
  <1>10. Thinned(Exported, Exported', T)
    <2>1. Thinned(FlattenSeq(q), FlattenSeq(r), T)
      BY <1>8, <1>9, FlattenThins
    <2> QED BY ONLY <1>3, <2>1
  <1>11. PICK at \in [1..Len(Exported') -> 1..Len(Exported)] :
           /\ \A i, j \in 1..Len(Exported') : i < j => at[i] < at[j]
           /\ \A i \in 1..Len(Exported') : Exported'[i] = Exported[at[i]]
           /\ \A k \in 1..Len(Exported) :
                Exported[k] \in T \/ \E i \in 1..Len(Exported') : at[i] = k
    <2>1. PICK at : Keeps(at, Exported, Exported', Len(Exported), Len(Exported'), T)
      BY <1>10 DEF Thinned
    <2> QED BY ONLY <2>1 DEF Keeps
  <1>12. Exported \in Seq(Line) /\ Exported' \in Seq(Line)
    <2>1. FlattenSeq(q) \in Seq(Line) /\ FlattenSeq(r) \in Seq(Line)
      BY FlattenIsTyped
    <2> QED BY <1>3, <2>1
  <1>13. DOMAIN Exported = 1..Len(Exported) /\ DOMAIN Exported' = 1..Len(Exported')
    BY <1>12
  <1>14. \A k \in 1..Len(Exported) :
           \/ Exported[k].day + retention <= today
           \/ \E i \in 1..Len(Exported') : at[i] = k
    BY <1>8, <1>11
  <1>15. /\ at \in [DOMAIN Exported' -> DOMAIN Exported]
         /\ \A i, j \in DOMAIN Exported' : i < j => at[i] < at[j]
         /\ \A i \in DOMAIN Exported' : Exported'[i] = Exported[at[i]]
         /\ \A k \in DOMAIN Exported : \/ Exported[k].day + retention <= today
                                       \/ \E i \in DOMAIN Exported' : at[i] = k
    BY ONLY <1>11, <1>13, <1>14
  <1> QED BY ONLY <1>15, today' = today, retention' = retention DEF Diary!Expire

\* A line that is written is written at the end of the journal.
LEMMA LineIsWritten ==
  ASSUME DInv, TypeOK', NEW l \in Line, l.day <= today,
         Put(File, Append(Opened(File), l), today), today' = today, retention' = retention
  PROVE  Diary!Write
  <1>1. PICK n \in Nat \ {0} : n = MaxDay + 1
    BY DaysAreNats
  <1>2. PICK q \in [1..n -> Seq(Line)], r \in [1..n -> Seq(Line)] :
          /\ Exported = FlattenSeq(q) /\ Exported' = FlattenSeq(r)
          /\ \A i \in 1..n : q[i] = Opened(i - 1) /\ r[i] = Opened(i - 1)'
    BY <1>1, ExportedIs DEF DInv, IInv
  <1>3. PICK f \in 0..n - 1 : f = File
    <2>1. File \in 0..MaxDay /\ MaxDay \in Nat
      BY FileIsOfADay, LoggingAssumption DEF DInv, IInv, Day
    <2> QED BY <1>1, <2>1
  <1>4. PICK k \in 1..n : k = f + 1 /\ k - 1 = f
    OBVIOUS
  <1>5. r[k] = Append(q[k], l)
    <2>1. Opened(f)' = Append(Opened(f), l)
      BY <1>3 DEF Put, Opened
    <2> QED BY <1>2, <1>4, <2>1
  <1>6. \A j \in 1..n : j # k => r[j] = q[j]
    <2> SUFFICES ASSUME NEW j \in 1..n, j # k PROVE r[j] = q[j]
      OBVIOUS
    <2>1. PICK d \in Int : d = j - 1 /\ d # f
      BY <1>4
    <2>2. Opened(d)' = Opened(d)
      BY <1>3, <2>1 DEF Put, Opened
    <2> QED BY <1>2, <2>1, <2>2
  <1>7. \A j \in 1..n : j > k => q[j] = <<>>
    <2> SUFFICES ASSUME NEW j \in 1..n, j > k PROVE q[j] = <<>>
      OBVIOUS
    <2>1. PICK d \in Int : d = j - 1 /\ ~(d <= f)
      BY <1>4
    <2>2. d \notin DOMAIN files
      BY <1>3, <2>1, FileIsLast
    <2> QED BY <1>2, <2>1, <2>2 DEF Opened
  <1>8. FlattenSeq(r) = Append(FlattenSeq(q), l) /\ FlattenSeq(q) \in Seq(Line)
    <2>1. AddsTo(q, r, n, k, l)
      BY <1>5, <1>6, <1>7 DEF AddsTo
    <2> QED BY <2>1, FlattenAppend
  <1>9. PICK s \in Seq(Line) : s = Exported /\ Exported' = Append(s, l)
    BY <1>2, <1>8
  <1>10. Len(Append(s, l)) = Len(s) + 1 /\ IsPrefix(s, Append(s, l)) /\ Last(Append(s, l)) = l
    BY AppendIsWrite
  <1>11. /\ Len(Exported') = Len(Exported) + 1 /\ IsPrefix(Exported, Exported')
         /\ Last(Exported').day <= today
    BY <1>9, <1>10
  <1> QED BY <1>11 DEF Diary!Write, IsPrefix, Last, Diary!IsPrefix, Diary!Last

\* Nothing is added to a file that could not be written.
LEMMA NothingIsWritten ==
  ASSUME Put(File, Opened(File), IF File \in DOMAIN files THEN mtime[File] ELSE today)
  PROVE  Exported' = Exported
  <1>1. ASSUME NEW d PROVE Opened(d)' = Opened(d)
    BY DEF Put, Opened
  <1> QED BY <1>1, SameFiles

\* A step that leaves the files alone exports the same.
LEMMA SameDisk ==
  ASSUME files' = files
  PROVE  Exported' = Exported
  <1>1. ASSUME NEW d PROVE Opened(d)' = Opened(d)
    BY DEF Opened
  <1> QED BY <1>1, SameFiles

\* The journal starts empty.
LEMMA JournalInit == Init => Diary!Init
  <1> SUFFICES ASSUME Init PROVE Diary!Init
    OBVIOUS
  <1>1. today = 0 /\ retention \in Nat
    BY LoggingAssumption DEF Init
  <1> QED BY <1>1, InitExports DEF Diary!Init

\* Every step is one of the journal, or leaves it alone.
LEMMA JournalStep == DInv /\ DInv' /\ [Next]_vars => [Diary!Next]_(Diary!vars)
  <1> SUFFICES ASSUME DInv, DInv', [Next]_vars
               PROVE  Diary!Next \/ UNCHANGED <<Exported, today, retention>>
    BY DEF Diary!vars
  <1>1. CASE Start
    <2>1. today' = today /\ retention' = retention /\ TypeOK'
      BY <1>1 DEF Start, prefs, DInv, IInv
    <2>2. CASE enabled
      BY <1>1, <2>1, <2>2, CleanupExpires DEF Start, Diary!Next
    <2>3. CASE ~enabled
      <3>1. files' = files
        BY <1>1, <2>3 DEF Start, disk
      <3> QED BY <2>1, <3>1, SameDisk
    <2> QED BY <2>2, <2>3
  <1>2. CASE Midnight
    <2>1. files' = files /\ today' = today + 1 /\ retention' = retention
      BY <1>2 DEF Midnight, prefs, disk
    <2> QED BY <2>1, SameDisk DEF Diary!Next, Diary!Midnight
  <1>3. CASE Choose
    <2>1. files' = files /\ today' = today /\ retention' \in Nat
      BY <1>3, LoggingAssumption DEF Choose, disk, DInv, IInv, TypeOK
    <2> QED BY <2>1, SameDisk DEF Diary!Next, Diary!Choose
  <1>4. CASE \/ Stop \/ ApplyLevel \/ Clear \/ UNCHANGED vars
             \/ \E t \in Thread : Log(t) \/ PushRing(t)
    <2>1. files' = files /\ today' = today /\ retention' = retention
      BY <1>4 DEF Stop, ApplyLevel, Clear, Log, PushRing, vars, prefs, disk
    <2> QED BY <2>1, SameDisk
  <1>5. CASE \E t \in Thread : WriteFile(t)
    <2>1. PICK t \in Thread : WriteFile(t)
      BY <1>5
    <2>2. PICK l \in Line :
            /\ l.day <= today /\ UNCHANGED <<today, retention>>
            /\ \/ UNCHANGED files
               \/ Put(File, Append(Opened(File), l), today)
               \/ Put(File, Opened(File), IF File \in DOMAIN files THEN mtime[File] ELSE today)
      BY <2>1, WriteFileSays
    <2>3. CASE UNCHANGED files
      BY <2>2, <2>3, SameDisk
    <2>4. CASE Put(File, Append(Opened(File), l), today)
      BY <2>2, <2>4, LineIsWritten DEF DInv, IInv, Diary!Next
    <2>5. CASE Put(File, Opened(File), IF File \in DOMAIN files THEN mtime[File] ELSE today)
      BY <2>2, <2>5, NothingIsWritten
    <2> QED BY <2>2, <2>3, <2>4, <2>5
  <1> QED BY <1>1, <1>2, <1>3, <1>4, <1>5 DEF Next

\* The days of the lines, the files and the clock stay in order.
THEOREM DaysInvariance == Spec => []DInv
  BY InitDays, NextDays, PTL DEF Spec

\* The log files are one journal, whatever threads are overtaken in, however
\* long a file stays open and whenever Polaris is restarted: lines are added
\* at the end of it, and stay, in their order, at least for their time, though
\* removing a file may fail.
THEOREM ImplementsJournal == Spec => JournalSpec
  <1>1. Spec => []DInv
    BY DaysInvariance
  <1>2. Spec => Diary!Init /\ [][Diary!Next]_(Diary!vars)
    BY <1>1, JournalInit, JournalStep, PTL DEF Spec
  <1> QED BY <1>2 DEF JournalSpec, Diary!Spec

=============================================================================
