-------------------------- MODULE DashboardProofs ---------------------------
(***************************************************************************)
(* Type correctness of the cycle log and the dashboard and the dashboard's *)
(* three safety properties, for any solutions and any number of cycles,    *)
(* restarts and outages.                                                   *)
(*                                                                         *)
(* The Controller numbers its records, so a line it begins is none that    *)
(* anybody has read; a torn line is the last one or stays torn.            *)
(***************************************************************************)
EXTENDS Dashboard, SequenceTheorems, TLAPS

Lines == Records \cup {Torn}

Views == [pc : {"idle", "reading"}, opened : Seq(Lines), pos : Nat, records : Seq(Records)]

-----------------------------------------------------------------------------
(***************************************************************************)
(* Sequences of lines                                                      *)
(***************************************************************************)

\* Another last line: the others stay.
LEMMA LastReplaced ==
    ASSUME NEW S, NEW lines \in Seq(S), lines # <<>>, NEW last \in S,
           NEW new, new = [lines EXCEPT ![Len(lines)] = last]
    PROVE  /\ new \in Seq(S) /\ Len(new) = Len(lines)
           /\ \A i \in 1..(Len(lines) - 1) : new[i] = lines[i]
           /\ new[Len(lines)] = last
<1>1. Len(lines) \in 1..Len(lines)
    BY EmptySeq
<1>2. QED
    BY <1>1, ExceptSeq, LenProperties

\* One line more: the others stay.
LEMMA LineAdded ==
    ASSUME NEW S, NEW lines \in Seq(S), NEW last \in S
    PROVE  /\ Append(lines, last) \in Seq(S) /\ Append(lines, last) # <<>>
           /\ Len(Append(lines, last)) = Len(lines) + 1
           /\ \A i \in 1..Len(lines) : Append(lines, last)[i] = lines[i]
           /\ Append(lines, last)[Len(lines) + 1] = last
    BY AppendProperties

-----------------------------------------------------------------------------
(***************************************************************************)
(* Types                                                                   *)
(***************************************************************************)

\* Incarnations and numbers stay within their bounds.
Counting == inc <= faults /\ cycleNum <= cycles

\* A line that is not ended is the last one.
AtTheEnd ==
    /\ tail # "ended" => log # <<>>
    /\ writing # NoRecord => tail = "half"
    /\ tail = "half" => log[Len(log)] = Torn

TypeInv == TypeOK /\ view \in Views /\ Counting /\ AtTheEnd

\* The record of a cycle that may still be counted
LEMMA RecordType ==
    ASSUME TypeInv, NEW plan \in Plans, cycles < MaxCycles
    PROVE  BuildRecord(plan) \in Records /\ BuildRecord(plan) # NoRecord
    BY CycleLogAssumption, TornAssumption
    DEF TypeInv, TypeOK, LogTypeOK, Counting, BuildRecord, Records

\* What the steps of the Controller do to the last line and its record
LineBegins ==
    /\ writing = NoRecord /\ cycles < MaxCycles
    /\ \E plan \in Plans : writing' = BuildRecord(plan)
    /\ cycleNum' = cycleNum + 1 /\ cycles' = cycles + 1
    /\ \/ tail = "ended" /\ log' = Append(log, Torn)
       \/ tail # "ended" /\ log' = [log EXCEPT ![Len(log)] = Torn]
    /\ tail' = "half" /\ joined' \in BOOLEAN
    /\ UNCHANGED <<inc, encoder, disk, skipped, faults, hosting>>

LineEnds ==
    /\ writing # NoRecord /\ writing' = NoRecord /\ joined' = FALSE
    /\ \/ /\ tail' \in {"ended", "noNewline"}
          /\ \E line \in {Torn, writing} : log' = [log EXCEPT ![Len(log)] = line]
       \/ tail' = "half" /\ UNCHANGED log
    /\ encoder' \in {encoder, "failed"}
    /\ UNCHANGED <<inc, cycleNum, disk, skipped, cycles, faults, hosting>>

ControllerRestarts ==
    /\ faults < MaxFaults /\ faults' = faults + 1
    /\ inc' = inc + 1 /\ cycleNum' = 0
    /\ writing' = NoRecord /\ joined' = FALSE /\ encoder' = "ok"
    /\ \/ hosting = "local" /\ UNCHANGED <<log, tail>>
       \/ hosting # "local" /\ log' = <<>> /\ tail' = "ended"
    /\ UNCHANGED <<disk, skipped, cycles, hosting>>

FileStays ==
    /\ UNCHANGED <<file, inc, hosting>>
    /\ \/ /\ writing = NoRecord /\ cycles < MaxCycles
          /\ cycles' = cycles + 1 /\ cycleNum' = cycleNum + 1 /\ faults' = faults
       \/ /\ cycles' = cycles /\ cycleNum' = cycleNum
          /\ faults' = faults \/ (faults < MaxFaults /\ faults' = faults + 1)
    /\ encoder' \in {encoder, "failed"} /\ disk' \in {"ok", "full"} /\ skipped' \in BOOLEAN

\* Every step of the Controller is one of these.
LEMMA LogStep ==
    ASSUME TypeInv, LogNext
    PROVE  LineBegins \/ LineEnds \/ ControllerRestarts \/ FileStays
<1> USE DEF TypeInv, TypeOK, LogTypeOK
<1>1. ASSUME NEW plan \in Plans, EndCycle(plan) PROVE LineBegins \/ FileStays
    BY <1>1 DEF EndCycle, StartLine, LineBegins, FileStays, LogNext, file
<1>2. CASE EndCycleUnencodable
    BY <1>2 DEF EndCycleUnencodable, FileStays, LogNext, file
<1>3. CASE FinishLine
    BY <1>3 DEF FinishLine, LastLine, LineEnds, LogNext
<1>4. CASE CutLine
    BY <1>4 DEF CutLine, LastLine, LineEnds, LogNext
<1>5. CASE Restart
    BY <1>5 DEF Restart, ControllerRestarts, LogNext
<1>6. CASE DiskFills \/ DiskFreed
    BY <1>6 DEF DiskFills, DiskFreed, FileStays, LogNext, file
<1>7. QED
    BY <1>1, <1>2, <1>3, <1>4, <1>5, <1>6 DEF LogNext

LEMMA TypeController ==
    ASSUME TypeInv, Controller
    PROVE  TypeInv'
<1> USE CycleLogAssumption
<1>1. /\ inc \in Nat /\ faults \in Nat /\ cycleNum \in Nat /\ cycles \in Nat
      /\ inc <= faults /\ faults <= MaxFaults /\ cycleNum <= cycles /\ cycles <= MaxCycles
    BY DEF TypeInv, TypeOK, LogTypeOK, Counting
<1>2. /\ log \in Seq(Lines) /\ Torn \in Lines
      /\ writing # NoRecord => writing \in Lines
      /\ tail # "ended" => log # <<>>
      /\ writing # NoRecord => tail = "half"
      /\ tail = "half" => log[Len(log)] = Torn
    BY DEF TypeInv, TypeOK, LogTypeOK, AtTheEnd, Lines
<1>3. LineBegins \/ LineEnds \/ ControllerRestarts \/ FileStays
    BY LogStep DEF Controller
<1>4. /\ inc' \in 0..MaxFaults /\ faults' \in 0..MaxFaults /\ Counting'
      /\ cycleNum' \in 0..MaxCycles /\ cycles' \in 0..MaxCycles
    <2>1. CASE LineBegins
        BY <1>1, <2>1 DEF Counting, LineBegins
    <2>2. CASE LineEnds
        BY <1>1, <2>2 DEF Counting, LineEnds
    <2>3. CASE ControllerRestarts
        BY <1>1, <2>3 DEF Counting, ControllerRestarts
    <2>4. CASE FileStays
        BY <1>1, <2>4 DEF Counting, FileStays, file
    <2>5. QED
        BY <1>3, <2>1, <2>2, <2>3, <2>4
<1>5. log' \in Seq(Lines) /\ AtTheEnd'
    <2>1. CASE LineBegins
        <3>1. CASE log' = Append(log, Torn)
            BY <1>2, <2>1, <3>1, LineAdded DEF LineBegins, AtTheEnd
        <3>2. CASE tail # "ended" /\ log' = [log EXCEPT ![Len(log)] = Torn]
            <4>1. log' \in Seq(Lines) /\ Len(log') = Len(log) /\ log'[Len(log)] = Torn
                BY <1>2, <3>2, LastReplaced
            <4>2. log' # <<>>
                BY <1>2, <3>2, <4>1, EmptySeq
            <4>3. QED
                BY <2>1, <4>1, <4>2 DEF LineBegins, AtTheEnd
        <3>3. QED
            BY <2>1, <3>1, <3>2 DEF LineBegins
    <2>2. CASE LineEnds
        <3>1. ASSUME NEW line \in {Torn, writing}, log' = [log EXCEPT ![Len(log)] = line]
              PROVE  log' \in Seq(Lines) /\ log' # <<>>
            <4>1. log # <<>> /\ line \in Lines
                BY <1>2, <2>2 DEF LineEnds
            <4>2. log' \in Seq(Lines) /\ Len(log') = Len(log)
                BY <1>2, <3>1, <4>1, LastReplaced
            <4>3. QED
                BY <1>2, <4>1, <4>2, EmptySeq
        <3>2. QED
            BY <1>2, <2>2, <3>1 DEF LineEnds, AtTheEnd
    <2>3. CASE ControllerRestarts
        <3>1. CASE UNCHANGED <<log, tail>>
            BY <1>2, <2>3, <3>1 DEF ControllerRestarts, AtTheEnd
        <3>2. CASE log' = <<>> /\ tail' = "ended"
            BY <2>3, <3>2, EmptySeq DEF ControllerRestarts, AtTheEnd
        <3>3. QED
            BY <2>3, <3>1, <3>2 DEF ControllerRestarts
    <2>4. CASE FileStays
        BY <1>2, <2>4 DEF FileStays, file, AtTheEnd
    <2>5. QED
        BY <1>3, <2>1, <2>2, <2>3, <2>4
<1>6. writing' \in Records \cup {NoRecord}
    BY <1>3, RecordType
    DEF LineBegins, LineEnds, ControllerRestarts, FileStays, file, TypeInv, TypeOK, LogTypeOK
<1>7. /\ tail' \in {"ended", "half", "noNewline"} /\ joined' \in BOOLEAN /\ skipped' \in BOOLEAN
      /\ encoder' \in {"ok", "failed"} /\ disk' \in {"ok", "full"} /\ hosting' \in Hostings
    BY <1>3
    DEF LineBegins, LineEnds, ControllerRestarts, FileStays, file, TypeInv, TypeOK, LogTypeOK
<1>8. UNCHANGED <<syncPc, fetched, copy, view, panels, shown, legible>>
    BY DEF Controller, syncVars, viewVars
<1>9. LogTypeOK'
    BY <1>4, <1>5, <1>6, <1>7 DEF LogTypeOK, Lines
<1>10. QED
    BY <1>4, <1>5, <1>8, <1>9 DEF TypeInv, TypeOK

\* The log is not the dashboard's to change.
LEMMA TypeLogStays ==
    ASSUME TypeInv, UNCHANGED <<inc, cycleNum, file, cycles, encoder, disk, skipped, hosting>>,
           faults' = faults \/ (faults < MaxFaults /\ faults' = faults + 1)
    PROVE  LogTypeOK' /\ Counting' /\ AtTheEnd'
    BY CycleLogAssumption DEF TypeInv, TypeOK, LogTypeOK, Counting, AtTheEnd, file

LEMMA TypeSync ==
    ASSUME TypeInv, Sync \/ SyncFail
    PROVE  TypeInv'
<1>1. LogTypeOK' /\ Counting' /\ AtTheEnd'
    BY TypeLogStays
    DEF Sync, SyncFail, SyncExec, SyncWrite, SyncWake, logVars, file
<1>2. UNCHANGED <<view, panels, shown, legible>>
    BY DEF Sync, SyncFail, SyncExec, SyncWrite, SyncWake, viewVars
<1>3. syncPc' \in {"exec", "write", "sleep"} /\ {fetched', copy'} \subseteq Seq(Lines)
    <2>1. {log, fetched, copy, <<>>} \subseteq Seq(Lines)
        BY DEF TypeInv, TypeOK, LogTypeOK, Lines
    <2>2. fetched' \in {log, fetched, <<>>} /\ copy' \in {copy, fetched}
        BY DEF Sync, SyncFail, SyncExec, SyncWrite, SyncWake
    <2>3. syncPc' \in {"exec", "write", "sleep"}
        BY DEF Sync, SyncFail, SyncExec, SyncWrite, SyncWake
    <2>4. QED
        BY <2>1, <2>2, <2>3
<1>4. QED
    BY <1>1, <1>2, <1>3 DEF TypeInv, TypeOK, Lines

LEMMA TypeRefresh ==
    ASSUME TypeInv, Refresh
    PROVE  TypeInv'
<1>1. LogTypeOK' /\ Counting' /\ AtTheEnd' /\ UNCHANGED <<syncPc, fetched, copy>>
    BY TypeLogStays DEF Refresh, Open, ReadLine, Draw, logVars, file, syncVars
<1>2. /\ NoView \in Views /\ log \in Seq(Lines) /\ copy \in Seq(Lines)
      /\ view.opened \in Seq(Lines) /\ view.records \in Seq(Records) /\ view \in Views
    BY DEF TypeInv, TypeOK, LogTypeOK, NoView, Views, Lines
<1>3. view' \in Views
    <2>1. CASE Open
        BY <1>2, <2>1 DEF Open, Views, NoView, Lines
    <2>2. CASE ReadLine
        <3> DEFINE line == FileRead[view.pos + 1]
                   more == IF line = Torn THEN view.records ELSE Append(view.records, line)
        <3>1. line \in Lines
            <4>1. FileRead \in Seq(Lines) /\ view.pos \in Nat /\ view.pos < Len(FileRead)
                BY <1>2, <2>2 DEF ReadLine, FileRead, Views
            <4>2. view.pos + 1 \in 1..Len(FileRead)
                BY <4>1, LenProperties
            <4>3. QED
                BY <4>1, <4>2, ElementOfSeq
        <3>2. more \in Seq(Records)
            BY <1>2, <3>1, AppendProperties DEF Lines
        <3>3. view' = [view EXCEPT !.pos = @ + 1, !.records = more]
            BY <2>2 DEF ReadLine
        <3> HIDE DEF line, more
        <3>4. QED
            <4>1. view.pos + 1 \in Nat /\ more \in Seq(Records) /\ view \in Views
                BY <1>2, <3>2 DEF Views
            <4>2. QED
                BY <3>3, <4>1 DEF Views
    <2>3. CASE Draw
        BY <1>2, <2>3 DEF Draw
    <2>4. QED
        BY <2>1, <2>2, <2>3 DEF Refresh
<1>4. legible' \subseteq Records
    <2>1. Whole(log) \subseteq Records /\ Whole(copy) \subseteq Records
        BY <1>2, ElementOfSeq, LenProperties DEF Whole, Lines
    <2>2. QED
        BY <2>1 DEF Refresh, Open, ReadLine, Draw, TypeInv, TypeOK
<1>5. shown' \subseteq Records
    <2>1. Range(view.records) \subseteq Records
        BY <1>2, ElementOfSeq, LenProperties DEF Range
    <2>2. QED
        BY <2>1 DEF Refresh, Open, ReadLine, Draw, TypeInv, TypeOK
<1>6. DOMAIN panels' = DOMAIN NoPanels
    <2>1. DOMAIN Figures(view.records) = DOMAIN NoPanels
        BY DEF Figures, NoPanels
    <2>2. QED
        BY <2>1 DEF Refresh, Open, ReadLine, Draw, TypeInv, TypeOK
<1>7. QED
    BY <1>1, <1>2, <1>3, <1>4, <1>5, <1>6 DEF TypeInv, TypeOK, Views, Lines

LEMMA TypeInvariant == Spec => []TypeInv
<1>1. Init => TypeInv
    <2> SUFFICES ASSUME Init PROVE TypeInv
        OBVIOUS
    <2>1. LogTypeOK /\ Counting /\ AtTheEnd
        <3>1. log \in Seq(Records \cup {Torn})
            BY DEF Init, LogInit
        <3>2. 0 \in 0..MaxFaults /\ 0 \in 0..MaxCycles
            BY CycleLogAssumption
        <3>3. QED
            <4>1. Counting /\ AtTheEnd
                BY DEF Init, LogInit, Counting, AtTheEnd
            <4>2. joined \in BOOLEAN /\ skipped \in BOOLEAN
                BY DEF Init, LogInit
            <4>3. QED
                BY <3>1, <3>2, <4>1, <4>2 DEF Init, LogInit, LogTypeOK
    <2>2. view \in Views
        BY DEF Init, Views, NoView
    <2>3. QED
        BY <2>1, <2>2 DEF Init, TypeInv, TypeOK, NoView
<1>2. TypeInv /\ [Next]_vars => TypeInv'
    <2> SUFFICES ASSUME TypeInv, [Next]_vars PROVE TypeInv'
        OBVIOUS
    <2>1. CASE UNCHANGED vars
        BY <2>1 DEF vars, logVars, syncVars, viewVars, file, TypeInv, TypeOK, LogTypeOK, Counting,
                    AtTheEnd
    <2>2. QED
        BY <2>1, TypeController, TypeSync, TypeRefresh DEF Next
<1>3. QED
    BY <1>1, <1>2, PTL DEF Spec

\* The log holds records and lines that do not parse, whatever is cut off or joined; the copies and
\* the page hold nothing else, and the counters stay within their bounds.
THEOREM TypeCorrect == Spec => []TypeOK
    BY TypeInvariant, PTL DEF TypeInv

-----------------------------------------------------------------------------
(***************************************************************************)
(* What a step of the Controller does to the lines and to the numbers      *)
(***************************************************************************)

\* A line that is new in the file is the record that was being written.
NewLines ==
    \A i \in DOMAIN log' :
        \/ log'[i] = Torn
        \/ i \in DOMAIN log /\ log'[i] = log[i]
        \/ /\ i \in DOMAIN log /\ i = Len(log)
           /\ writing # NoRecord /\ log'[i] = writing /\ writing' = NoRecord

\* A line of a file that stays can be lost but never becomes another one.
OldLines ==
    ~PodSync =>
    /\ Len(log) <= Len(log')
    /\ \A i \in DOMAIN log : log[i] # Torn => log'[i] \in {log[i], Torn}

Numbers ==
    \/ /\ inc' = inc + 1 /\ cycleNum' = 0 /\ writing' = NoRecord
       /\ PodSync => log' = <<>>
    \/ inc' = inc /\ cycleNum' = cycleNum /\ writing' \in {writing, NoRecord}
    \/ /\ inc' = inc /\ cycleNum' = cycleNum + 1 /\ writing = NoRecord
       /\ \/ writing' = NoRecord
          \/ writing' \in Records /\ writing'.inc = inc /\ writing'.cycle = cycleNum + 1

LEMMA ControllerStep ==
    ASSUME TypeInv, Controller
    PROVE  NewLines /\ OldLines /\ Numbers /\ UNCHANGED hosting
<1>1. /\ log \in Seq(Lines) /\ Torn \in Lines
      /\ writing # NoRecord => writing \in Lines /\ log # <<>> /\ log[Len(log)] = Torn
      /\ tail # "ended" => log # <<>>
      /\ hosting \in {"local", "pod"}
    BY CycleLogAssumption DEF TypeInv, TypeOK, LogTypeOK, AtTheEnd, Lines
<1>2. DOMAIN log = 1..Len(log) /\ Len(log) \in Nat
    BY <1>1, LenProperties
<1>3. CASE LineBegins
    <2>1. /\ Len(log') \in Nat /\ Len(log) <= Len(log') /\ DOMAIN log' = 1..Len(log')
          /\ \A i \in DOMAIN log' : log'[i] = Torn \/ (i \in DOMAIN log /\ log'[i] = log[i])
          /\ \A i \in DOMAIN log : log'[i] \in {log[i], Torn}
        <3>1. CASE log' = Append(log, Torn)
            <4>1. /\ log' \in Seq(Lines) /\ Len(log') = Len(log) + 1 /\ log'[Len(log) + 1] = Torn
                  /\ \A i \in 1..Len(log) : log'[i] = log[i]
                BY <1>1, <3>1, LineAdded
            <4>2. DOMAIN log' = 1..(Len(log) + 1)
                BY <4>1, LenProperties
            <4>3. QED
                BY <1>2, <4>1, <4>2
        <3>2. CASE tail # "ended" /\ log' = [log EXCEPT ![Len(log)] = Torn]
            <4>1. /\ log' \in Seq(Lines) /\ Len(log') = Len(log) /\ log'[Len(log)] = Torn
                  /\ \A i \in 1..(Len(log) - 1) : log'[i] = log[i]
                BY <1>1, <3>2, LastReplaced
            <4>2. DOMAIN log' = 1..Len(log)
                BY <4>1, LenProperties
            <4>3. QED
                BY <1>2, <4>1, <4>2
        <3>3. QED
            BY <1>3, <3>1, <3>2 DEF LineBegins
    <2>2. NewLines
        BY <2>1 DEF NewLines
    <2>3. OldLines
        BY <2>1 DEF OldLines
    <2>4. Numbers
        BY <1>3, RecordType DEF Numbers, LineBegins, BuildRecord
    <2>5. QED
        BY <1>3, <2>2, <2>3, <2>4 DEF LineBegins
<1>4. CASE LineEnds
    <2>1. NewLines /\ OldLines
        <3>1. CASE UNCHANGED log
            BY <1>2, <3>1 DEF NewLines, OldLines
        <3>2. ASSUME NEW line \in {Torn, writing}, log' = [log EXCEPT ![Len(log)] = line]
              PROVE  NewLines /\ OldLines
            <4>1. line \in Lines /\ log # <<>> /\ log[Len(log)] = Torn
                BY <1>1, <1>4 DEF LineEnds
            <4>2. /\ log' \in Seq(Lines) /\ Len(log') = Len(log) /\ log'[Len(log)] = line
                  /\ \A i \in 1..(Len(log) - 1) : log'[i] = log[i]
                BY <1>1, <3>2, <4>1, LastReplaced
            <4>3. DOMAIN log' = 1..Len(log)
                BY <4>2, LenProperties
            <4>4. ASSUME NEW i \in 1..Len(log), i # Len(log) PROVE log'[i] = log[i]
                <5>1. \A n \in Nat : \A j \in 1..n : j # n => j \in 1..(n - 1)
                    OBVIOUS
                <5>2. i \in 1..(Len(log) - 1)
                    BY <1>2, <4>4, <5>1
                <5>3. QED
                    BY <4>2, <5>2
            <4>5. NewLines
                <5>1. ASSUME NEW i \in DOMAIN log'
                      PROVE  \/ log'[i] = Torn
                             \/ i \in DOMAIN log /\ log'[i] = log[i]
                             \/ i \in DOMAIN log /\ i = Len(log) /\ log'[i] = writing
                    BY <1>2, <4>1, <4>2, <4>3, <4>4
                <5>2. QED
                    BY <1>4, <5>1 DEF NewLines, LineEnds
            <4>6. OldLines
                <5>1. ASSUME NEW i \in DOMAIN log, log[i] # Torn PROVE log'[i] = log[i]
                    BY <1>2, <4>1, <4>4, <5>1
                <5>2. QED
                    BY <1>2, <4>2, <5>1 DEF OldLines
            <4>7. QED
                BY <4>5, <4>6
        <3>3. QED
            BY <1>4, <3>1, <3>2 DEF LineEnds
    <2>2. Numbers
        BY <1>4 DEF Numbers, LineEnds
    <2>3. QED
        BY <1>4, <2>1, <2>2 DEF LineEnds
<1>5. CASE ControllerRestarts
    <2>1. CASE hosting = "local"
        BY <1>2, <1>5, <2>1 DEF ControllerRestarts, NewLines, OldLines, Numbers, PodSync
    <2>2. CASE hosting = "pod"
        <3>1. log' = <<>> /\ DOMAIN log' = {}
            BY <1>5, <2>2 DEF ControllerRestarts
        <3>2. QED
            BY <1>5, <2>2, <3>1 DEF ControllerRestarts, NewLines, OldLines, Numbers, PodSync
    <2>3. QED
        BY <1>1, <2>1, <2>2
<1>6. CASE FileStays
    BY <1>2, <1>6 DEF FileStays, file, NewLines, OldLines, Numbers
<1>7. QED
    BY <1>3, <1>4, <1>5, <1>6, LogStep DEF Controller

-----------------------------------------------------------------------------
(***************************************************************************)
(* The numbers of the records                                              *)
(***************************************************************************)

\* The records somebody has seen or can see
Known == Whole(log) \cup Whole(fetched) \cup Whole(copy) \cup legible

Past(rec) == rec.inc < inc \/ (rec.inc = inc /\ rec.cycle <= cycleNum)

\* The record being written is newer than every record that is known.
WritingIsNew ==
    /\ \A rec \in Known : Past(rec)
    /\ writing # NoRecord =>
          /\ writing.inc = inc /\ writing.cycle = cycleNum
          /\ \A rec \in Known : rec.inc = inc => rec.cycle < cycleNum

LinesDistinct == \A i, j \in DOMAIN log :
    log[i] # Torn /\ log[j] # Torn /\ log[i].inc = log[j].inc /\ log[i].cycle = log[j].cycle
        => i = j

NumbersDistinct(lines) == \A i, j \in DOMAIN lines :
    lines[i] # Torn /\ lines[j] # Torn /\ lines[i].cycle = lines[j].cycle => i = j

\* A file that does not outlive its Controller has each cycle number once.
PodFiles == PodSync =>
    /\ \A rec \in Whole(log) : rec.inc = inc
    /\ NumbersDistinct(log) /\ NumbersDistinct(fetched)
    /\ NumbersDistinct(copy) /\ NumbersDistinct(view.opened)

NumberInv == WritingIsNew /\ LinesDistinct /\ PodFiles

LEMMA KnownType ==
    ASSUME TypeInv
    PROVE  /\ Known \subseteq Records
           /\ \A rec \in Records : rec.inc \in Nat /\ rec.cycle \in Nat /\ rec # Torn /\ rec # NoRecord
           /\ inc \in Nat /\ cycleNum \in Nat
           /\ writing # NoRecord => writing \in Records
           /\ hosting \in {"local", "pod"}
<1>1. ASSUME NEW lines \in Seq(Lines) PROVE Whole(lines) \subseteq Records
    BY ElementOfSeq, LenProperties DEF Whole, Lines
<1>2. log \in Seq(Lines) /\ fetched \in Seq(Lines) /\ copy \in Seq(Lines) /\ legible \subseteq Records
    BY DEF TypeInv, TypeOK, LogTypeOK, Lines
<1>3. Known \subseteq Records
    BY <1>1, <1>2 DEF Known
<1>4. \A rec \in Records : rec.inc \in Nat /\ rec.cycle \in Nat /\ rec # Torn /\ rec # NoRecord
    BY CycleLogAssumption, TornAssumption DEF Records
<1>5. QED
    BY <1>3, <1>4, CycleLogAssumption DEF TypeInv, TypeOK, LogTypeOK

LEMMA NumbersController ==
    ASSUME TypeInv, NumberInv, Controller
    PROVE  NumberInv'
<1>1. NewLines /\ Numbers /\ UNCHANGED <<hosting, fetched, copy, legible, view>>
    BY ControllerStep DEF Controller, syncVars, viewVars
<1>2. WritingIsNew /\ LinesDistinct /\ PodFiles
    BY DEF NumberInv
<1>3. ASSUME NEW rec \in Known'
      PROVE  rec \in Known \/ (rec = writing /\ writing # NoRecord /\ writing' = NoRecord)
    BY <1>1 DEF Known, Whole, NewLines
<1>4. WritingIsNew'
    <2>1. ASSUME NEW rec \in Known' PROVE Past(rec) /\ Past(rec)'
        BY <1>1, <1>2, <1>3, KnownType DEF WritingIsNew, Past, Numbers
    <2>2. ASSUME writing' # NoRecord
          PROVE  /\ writing'.inc = inc' /\ writing'.cycle = cycleNum'
                 /\ \A rec \in Known' : rec.inc = inc' => rec.cycle < cycleNum'
        BY <1>1, <1>2, <1>3, <2>2, KnownType DEF WritingIsNew, Past, Numbers
    <2>3. QED
        BY <2>1, <2>2 DEF WritingIsNew
<1>5. LinesDistinct'
    <2> SUFFICES ASSUME NEW i \in DOMAIN log', NEW j \in DOMAIN log',
                        log'[i] # Torn, log'[j] # Torn,
                        log'[i].inc = log'[j].inc, log'[i].cycle = log'[j].cycle
                 PROVE  i = j
        BY DEF LinesDistinct
    <2> DEFINE Old(k) == k \in DOMAIN log /\ log'[k] = log[k]
               New(k) == k = Len(log) /\ writing # NoRecord /\ log'[k] = writing
    <2>1. (Old(i) \/ New(i)) /\ (Old(j) \/ New(j))
        BY <1>1 DEF NewLines
    <2>2. ASSUME NEW k, NEW l, Old(k), log'[k] # Torn, New(l), log'[k].inc = log'[l].inc,
                 log'[k].cycle = log'[l].cycle
          PROVE  FALSE
        <3>1. log[k] \in Known
            BY <2>2 DEF Known, Whole
        <3>2. QED
            BY <1>2, <2>2, <3>1, KnownType DEF WritingIsNew
    <2>3. CASE Old(i) /\ Old(j)
        BY <1>2, <2>3 DEF LinesDistinct
    <2>4. QED
        BY <2>1, <2>2, <2>3
<1>6. ASSUME PodSync, NEW rec \in Whole(log') PROVE rec.inc = inc'
    <2>1. log' # <<>>
        BY <1>6 DEF Whole
    <2>2. inc' = inc
        BY <1>1, <1>6, <2>1 DEF Numbers, PodSync
    <2>3. rec \in Whole(log) \/ (rec = writing /\ writing # NoRecord)
        BY <1>1, <1>6 DEF NewLines, Whole
    <2>4. QED
        BY <1>2, <1>6, <2>2, <2>3 DEF PodFiles, WritingIsNew
<1>7. PodFiles'
    <2>1. ASSUME PodSync PROVE NumbersDistinct(log')
        BY <1>5, <1>6, <2>1 DEF NumbersDistinct, LinesDistinct, Whole
    <2>2. QED
        BY <1>1, <1>2, <1>6, <2>1 DEF PodFiles, PodSync, NumbersDistinct
<1>8. QED
    BY <1>4, <1>5, <1>7 DEF NumberInv

\* The dashboard takes whole files.
LEMMA NumbersDashboard ==
    ASSUME TypeInv, NumberInv, Sync \/ SyncFail \/ Refresh
    PROVE  NumberInv'
<1>1. UNCHANGED <<inc, cycleNum, log, writing, hosting>>
    BY DEF Sync, SyncExec, SyncWrite, SyncWake, SyncFail, Refresh, Open, ReadLine, Draw, logVars, file
<1>2. fetched' \in {log, fetched, <<>>} /\ copy' \in {copy, fetched}
    BY DEF Sync, SyncExec, SyncWrite, SyncWake, SyncFail, Refresh, Open, ReadLine, Draw, syncVars
<1>3. /\ view'.opened \in {view.opened, copy, <<>>}
      /\ legible' \in {legible, Whole(copy), Whole(log)}
    <2>1. view \in Views
        BY DEF TypeInv
    <2>2. CASE Sync \/ SyncFail
        BY <2>2 DEF Sync, SyncExec, SyncWrite, SyncWake, SyncFail, viewVars
    <2>3. CASE Open
        BY <2>3 DEF Open, NoView
    <2>4. CASE ReadLine
        BY <2>1, <2>4 DEF ReadLine, Views
    <2>5. CASE Draw
        BY <2>5 DEF Draw, NoView
    <2>6. QED
        BY <2>2, <2>3, <2>4, <2>5 DEF Refresh
<1>4. Known' \subseteq Known
    BY <1>1, <1>2, <1>3 DEF Known, Whole
<1>5. WritingIsNew'
    BY <1>1, <1>4 DEF NumberInv, WritingIsNew, Past
<1>6. PodFiles'
    BY <1>1, <1>2, <1>3 DEF NumberInv, PodFiles, PodSync, NumbersDistinct
<1>7. QED
    BY <1>1, <1>5, <1>6 DEF NumberInv, LinesDistinct

LEMMA NumberInvariant == Spec => []NumberInv
<1>1. Init => NumberInv
    BY DEF Init, LogInit, NumberInv, WritingIsNew, Known, Whole, LinesDistinct, PodFiles,
           NumbersDistinct, NoView
<1>2. TypeInv /\ NumberInv /\ [Next]_vars => NumberInv'
    <2> SUFFICES ASSUME TypeInv, NumberInv, [Next]_vars PROVE NumberInv'
        OBVIOUS
    <2>1. CASE UNCHANGED vars
        BY <2>1 DEF vars, logVars, syncVars, viewVars, file, NumberInv, WritingIsNew, Known, Past,
                    Whole, LinesDistinct, PodFiles, PodSync, NumbersDistinct
    <2>2. QED
        BY <2>1, NumbersController, NumbersDashboard DEF Next
<1>3. QED
    BY <1>1, <1>2, TypeInvariant, PTL DEF Spec

-----------------------------------------------------------------------------
(***************************************************************************)
(* The refresh                                                             *)
(***************************************************************************)

Position ==
    /\ view.pc = "idle" => view = NoView
    /\ ~PodSync => view.opened = <<>>
    /\ view.pos <= Len(FileRead)
    /\ view.records # <<>> => FileRead # <<>>

\* What the page was drawn from is still there in some form.
NotBlank ==
    /\ syncPc = "write" => fetched # <<>>
    /\ view.opened # <<>> => copy # <<>>
    /\ shown # {} => (IF PodSync THEN copy ELSE log) # <<>>
    /\ view.pc = "reading" /\ shown # {} => FileRead # <<>>

LinesRead == {view.opened[i] : i \in 1..view.pos} \ {Torn}

PodReading == PodSync /\ view.pc = "reading" =>
    /\ legible = Whole(view.opened)
    /\ Range(view.records) = LinesRead

PodRecords == PodSync => NumbersDistinct(view.records)

\* Where the file grows meanwhile, a record is read, ahead, or lost.
LocalReading == ~PodSync /\ view.pc = "reading" => \A rec \in legible :
    \/ rec \in Range(view.records)
    \/ \E i \in DOMAIN log : view.pos < i /\ log[i] = rec
    \/ rec \notin Whole(log)

ReadInv == Position /\ NotBlank /\ PodReading /\ PodRecords /\ LocalReading

LEMMA ReadTypes ==
    ASSUME TypeInv
    PROVE  /\ view \in Views /\ view.pos \in Nat
           /\ view.opened \in Seq(Lines) /\ view.records \in Seq(Records)
           /\ log \in Seq(Lines) /\ copy \in Seq(Lines) /\ FileRead \in Seq(Lines)
           /\ DOMAIN FileRead = 1..Len(FileRead) /\ Len(FileRead) \in Nat
           /\ DOMAIN log = 1..Len(log) /\ Len(log) \in Nat
           /\ Torn \notin Records
<1>1. /\ view \in Views /\ view.pos \in Nat
      /\ view.opened \in Seq(Lines) /\ view.records \in Seq(Records)
      /\ log \in Seq(Lines) /\ copy \in Seq(Lines)
    BY DEF TypeInv, TypeOK, LogTypeOK, Views, Lines
<1>2. FileRead \in Seq(Lines)
    BY <1>1 DEF FileRead
<1>3. QED
    BY <1>1, <1>2, LenProperties, TornAssumption

\* The next line: a record is added to the records, anything else is passed over.
LEMMA LineRead ==
    ASSUME TypeInv, ReadLine
    PROVE  LET line == FileRead[view.pos + 1] IN
           /\ view.pos + 1 \in DOMAIN FileRead
           /\ view'.pc = "reading" /\ view'.opened = view.opened /\ view'.pos = view.pos + 1
           /\ view'.records = IF line = Torn THEN view.records ELSE Append(view.records, line)
           /\ line # Torn => line \in Records
           /\ Range(view'.records) = Range(view.records) \cup ({line} \ {Torn})
<1> DEFINE line == FileRead[view.pos + 1]
           more == IF line = Torn THEN view.records ELSE Append(view.records, line)
<1>1. view.pos + 1 \in DOMAIN FileRead /\ line \in Lines
    BY ReadTypes, ElementOfSeq DEF ReadLine
<1>2. view.pc = "reading" /\ view' = [view EXCEPT !.pos = @ + 1, !.records = more]
    BY DEF ReadLine
<1>3. Range(more) = Range(view.records) \cup ({line} \ {Torn})
    <2>1. CASE line = Torn
        BY <2>1
    <2>2. CASE line # Torn
        <3>1. line \in Records /\ more = Append(view.records, line)
            BY <1>1, <2>2 DEF Lines
        <3>2. /\ more \in Seq(Records) /\ Len(more) = Len(view.records) + 1
              /\ \A i \in 1..Len(view.records) : more[i] = view.records[i]
              /\ more[Len(view.records) + 1] = line
            BY <3>1, ReadTypes, AppendProperties
        <3>3. /\ DOMAIN more = 1..(Len(view.records) + 1) /\ Len(view.records) \in Nat
              /\ DOMAIN view.records = 1..Len(view.records)
            BY <3>2, ReadTypes, LenProperties
        <3> HIDE DEF more, line
        <3>4. Range(more) = Range(view.records) \cup {line}
            BY <3>2, <3>3 DEF Range
        <3>5. QED
            BY <2>2, <3>4
    <2>3. QED
        BY <2>1, <2>2
<1>4. line # Torn => line \in Records
    BY <1>1 DEF Lines
<1>5. /\ view'.pc = "reading" /\ view'.opened = view.opened /\ view'.pos = view.pos + 1
      /\ view'.records = more
    <2> HIDE DEF more, line
    <2>1. QED
        BY <1>2, ReadTypes DEF Views
<1>6. QED
    BY <1>1, <1>3, <1>4, <1>5

LEMMA ReadController ==
    ASSUME TypeInv, NumberInv, ReadInv, Controller
    PROVE  ReadInv'
<1>1. /\ NewLines /\ OldLines
      /\ UNCHANGED <<hosting, syncPc, fetched, copy, view, panels, shown, legible>>
    BY ControllerStep DEF Controller, syncVars, viewVars
<1>2. Position /\ NotBlank /\ PodReading /\ PodRecords /\ LocalReading
    BY DEF ReadInv
<1>3. PodReading' /\ PodRecords'
    BY <1>1, <1>2 DEF PodReading, PodRecords, PodSync, LinesRead, NumbersDistinct
<1>4. log' \in Seq(Lines) /\ Len(log') \in Nat /\ DOMAIN log' = 1..Len(log')
    <2>1. log' \in Seq(Lines)
        BY TypeController DEF TypeInv, TypeOK, LogTypeOK, Lines
    <2>2. QED
        BY <2>1, LenProperties
<1>5. CASE PodSync
    BY <1>1, <1>2, <1>3, <1>5 DEF ReadInv, Position, NotBlank, LocalReading, FileRead, PodSync
<1>6. CASE ~PodSync
    <2>1. Len(log) <= Len(log') /\ FileRead = log /\ FileRead' = log' /\ ~PodSync'
        BY <1>1, <1>6 DEF OldLines, FileRead, PodSync
    <2>2. log # <<>> => log' # <<>>
        BY <1>4, <2>1, ReadTypes, EmptySeq
    <2>3. Position'
        <3>1. view.pos <= Len(log')
            BY <1>2, <1>4, <2>1, ReadTypes DEF Position
        <3>2. /\ view'.pos <= Len(FileRead')
              /\ view'.records # <<>> => FileRead' # <<>>
            BY <1>1, <1>2, <2>1, <2>2, <3>1 DEF Position
        <3>3. /\ view'.pc = "idle" => view' = NoView
              /\ view'.opened = <<>>
            BY <1>1, <1>2, <1>6 DEF Position
        <3>4. QED
            BY <3>2, <3>3 DEF Position
    <2>4. NotBlank'
        BY <1>1, <1>2, <1>6, <2>1, <2>2 DEF NotBlank
    <2>5. LocalReading'
        <3> SUFFICES ASSUME view.pc = "reading", NEW rec \in legible, rec \notin Range(view.records),
                            rec \in Whole(log')
                     PROVE  \E i \in DOMAIN log' : view.pos < i /\ log'[i] = rec
            BY <1>1 DEF LocalReading
        <3>1. writing # NoRecord => rec # writing
            BY KnownType DEF NumberInv, WritingIsNew, Known
        <3>2. rec # Torn
            BY KnownType DEF Known
        <3>3. PICK j \in DOMAIN log' : log'[j] = rec
            BY DEF Whole
        <3>4. j \in DOMAIN log /\ log[j] = rec
            BY <1>1, <3>1, <3>2, <3>3 DEF NewLines
        <3>5. rec \in Whole(log)
            BY <3>2, <3>4 DEF Whole
        <3>6. PICK i \in DOMAIN log : view.pos < i /\ log[i] = rec
            BY <1>2, <1>6, <3>5 DEF LocalReading
        <3>7. i = j
            BY <3>2, <3>4, <3>6 DEF NumberInv, LinesDistinct
        <3>8. QED
            BY <3>3, <3>6, <3>7
    <2>6. QED
        BY <1>3, <2>3, <2>4, <2>5 DEF ReadInv
<1>7. QED
    BY <1>5, <1>6

LEMMA ReadSync ==
    ASSUME TypeInv, ReadInv, PodSync, Sync \/ SyncFail
    PROVE  ReadInv'
<1>1. UNCHANGED <<log, hosting, view, shown, legible>>
    BY DEF Sync, SyncExec, SyncWrite, SyncWake, SyncFail, logVars, file, viewVars
<1>2. Position /\ NotBlank /\ PodReading /\ PodRecords /\ LocalReading
    BY DEF ReadInv
<1>3. NotBlank'
    <2>1. CASE SyncExec
        BY <1>1, <1>2, <2>1 DEF SyncExec, NotBlank, PodSync, FileRead
    <2>2. CASE SyncWrite
        BY <1>1, <1>2, <2>2 DEF SyncWrite, NotBlank, PodSync, FileRead
    <2>3. CASE SyncWake \/ SyncFail
        BY <1>1, <1>2, <2>3 DEF SyncWake, SyncFail, NotBlank, PodSync, FileRead
    <2>4. QED
        BY <2>1, <2>2, <2>3 DEF Sync
<1>4. QED
    BY <1>1, <1>2, <1>3
    DEF ReadInv, Position, PodReading, PodRecords, LocalReading, PodSync, FileRead, LinesRead,
        NumbersDistinct

LEMMA ReadRefresh ==
    ASSUME TypeInv, NumberInv, ReadInv, Refresh
    PROVE  ReadInv'
<1>1. /\ UNCHANGED <<log, hosting, syncPc, fetched, copy>> /\ PodSync' = PodSync
      /\ Position /\ NotBlank /\ PodReading /\ PodRecords /\ LocalReading
    BY DEF ReadInv, Refresh, Open, ReadLine, Draw, logVars, file, syncVars, PodSync
<1>2. CASE Open
    <2>1. /\ view'.pc = "reading" /\ view'.pos = 0 /\ view'.records = <<>>
          /\ view'.opened = IF PodSync THEN copy ELSE <<>>
          /\ legible' = Whole(IF PodSync THEN copy ELSE log) /\ shown' = shown
        BY <1>2 DEF Open, NoView
    <2>2. FileRead' = IF PodSync THEN copy ELSE log
        BY <1>1, <2>1 DEF FileRead
    <2>3. Len(copy) \in Nat /\ Len(log) \in Nat
        BY ReadTypes, LenProperties
    <2>4. Position' /\ NotBlank'
        BY <1>1, <2>1, <2>2, <2>3 DEF Position, NotBlank
    <2>5. PodReading' /\ PodRecords'
        BY <1>1, <2>1 DEF PodReading, PodRecords, LinesRead, NumbersDistinct, Range
    <2>6. LocalReading'
        BY <1>1, <2>1, ReadTypes DEF LocalReading, Whole
    <2>7. QED
        BY <2>4, <2>5, <2>6 DEF ReadInv
<1>3. CASE ReadLine
    <2> DEFINE line == FileRead[view.pos + 1]
    <2>1. /\ view.pos + 1 \in DOMAIN FileRead
          /\ view'.pc = "reading" /\ view'.opened = view.opened /\ view'.pos = view.pos + 1
          /\ view'.records = IF line = Torn THEN view.records ELSE Append(view.records, line)
          /\ line # Torn => line \in Records
          /\ Range(view'.records) = Range(view.records) \cup ({line} \ {Torn})
        BY <1>3, LineRead
    <2>2. view.pc = "reading" /\ shown' = shown /\ legible' = legible /\ FileRead' = FileRead
        BY <1>1, <1>3, <2>1 DEF ReadLine, FileRead
    <2>3. FileRead # <<>>
        BY <2>1
    <2>4. Position' /\ NotBlank'
        BY <1>1, <2>1, <2>2, <2>3, ReadTypes DEF Position, NotBlank
    <2>5. PodReading'
        <3> SUFFICES ASSUME PodSync PROVE PodReading'
            BY <1>1 DEF PodReading
        <3>1. legible = Whole(view.opened) /\ Range(view.records) = LinesRead /\ FileRead = view.opened
            BY <1>1, <2>2 DEF PodReading, FileRead
        <3>2. 1..(view.pos + 1) = (1..view.pos) \cup {view.pos + 1}
            BY ReadTypes
        <3>3. LinesRead' = LinesRead \cup ({line} \ {Torn})
            BY <2>1, <3>1, <3>2 DEF LinesRead
        <3>4. QED
            BY <2>1, <2>2, <3>1, <3>3 DEF PodReading
    <2>6. PodRecords'
        <3> SUFFICES ASSUME PodSync PROVE NumbersDistinct(view'.records)
            BY <1>1 DEF PodRecords
        <3>1. CASE line = Torn
            BY <1>1, <2>1, <3>1 DEF PodRecords
        <3>2. CASE line # Torn
            <4> DEFINE more == view'.records
                       n == Len(view.records)
            <4>1. /\ more \in Seq(Records) /\ Len(more) = n + 1 /\ n \in Nat
                  /\ \A i \in 1..n : more[i] = view.records[i]
                  /\ more[n + 1] = line
                  /\ DOMAIN view.records = 1..n
                BY <2>1, <3>2, ReadTypes, AppendProperties, LenProperties
            <4>2. DOMAIN more = 1..(n + 1)
                BY <4>1, LenProperties
            <4>3. ASSUME NEW i \in 1..n PROVE more[i].cycle # line.cycle
                <5>1. more[i] \in LinesRead
                    BY <1>1, <2>2, <4>1 DEF PodReading, Range
                <5>2. PICK k \in 1..view.pos : view.opened[k] = more[i] /\ more[i] # Torn
                    BY <5>1 DEF LinesRead
                <5>3. /\ FileRead = view.opened /\ DOMAIN view.opened = 1..Len(view.opened)
                      /\ k \in DOMAIN view.opened /\ view.pos + 1 \in DOMAIN view.opened
                      /\ k # view.pos + 1
                    BY <1>1, <2>1, ReadTypes DEF FileRead, Position
                <5>4. NumbersDistinct(view.opened)
                    BY DEF NumberInv, PodFiles
                <5>5. QED
                    BY <3>2, <5>2, <5>3, <5>4 DEF NumbersDistinct
            <4>4. NumbersDistinct(view.records)
                BY <1>1 DEF PodRecords
            <4> HIDE DEF more, n, line
            <4>5. ASSUME NEW i \in 1..(n + 1), NEW j \in 1..(n + 1), more[i] # Torn, more[j] # Torn,
                         more[i].cycle = more[j].cycle
                  PROVE  i = j
                <5>1. CASE i \in 1..n /\ j \in 1..n
                    BY <4>1, <4>4, <4>5, <5>1 DEF NumbersDistinct
                <5>2. CASE i \in 1..n /\ j = n + 1
                    BY <4>1, <4>3, <4>5, <5>2
                <5>3. CASE i = n + 1 /\ j \in 1..n
                    BY <4>1, <4>3, <4>5, <5>3
                <5>4. QED
                    BY <4>1, <5>1, <5>2, <5>3
            <4>6. QED
                BY <4>2, <4>5 DEF NumbersDistinct, more
        <3>3. QED
            BY <3>1, <3>2
    <2>7. LocalReading'
        <3> SUFFICES ASSUME ~PodSync, NEW rec \in legible, rec \notin Range(view.records), rec # line,
                            rec \in Whole(log)
                     PROVE  \E i \in DOMAIN log : view.pos + 1 < i /\ log[i] = rec
            <4>1. \A rec \in legible : rec # Torn
                BY KnownType DEF Known
            <4>2. QED
                BY <1>1, <2>1, <2>2, <4>1 DEF LocalReading
        <3>1. PICK i \in DOMAIN log : view.pos < i /\ log[i] = rec
            BY <1>1, <2>2 DEF LocalReading
        <3>2. i # view.pos + 1
            BY <3>1 DEF FileRead
        <3>3. QED
            BY <3>1, <3>2, ReadTypes
    <2>8. QED
        BY <2>4, <2>5, <2>6, <2>7 DEF ReadInv
<1>4. CASE Draw
    <2>1. view' = NoView /\ shown' = Range(view.records) /\ view.pc = "reading"
        BY <1>4 DEF Draw
    <2>2. /\ NoView.pc = "idle" /\ NoView.opened = <<>> /\ NoView.pos = 0 /\ NoView.records = <<>>
        BY DEF NoView
    <2>3. (FileRead = IF PodSync THEN <<>> ELSE log)' /\ Len(<<>>) = 0
        BY <2>1, <2>2, EmptySeq DEF FileRead
    <2>4. Position'
        BY <1>1, <2>1, <2>2, <2>3, ReadTypes DEF Position
    <2>5. view.records = <<>> => Range(view.records) = {}
        BY DEF Range
    <2>6. NotBlank'
        BY <1>1, <2>1, <2>2, <2>3, <2>5 DEF NotBlank, Position, FileRead
    <2>7. PodReading' /\ PodRecords' /\ LocalReading'
        BY <1>1, <2>1, <2>2 DEF PodReading, PodRecords, LocalReading, NumbersDistinct
    <2>8. QED
        BY <2>4, <2>6, <2>7 DEF ReadInv
<1>5. QED
    BY <1>2, <1>3, <1>4 DEF Refresh

LEMMA ReadInvariant == Spec => []ReadInv
<1>1. Init => ReadInv
    <2> SUFFICES ASSUME Init PROVE ReadInv
        OBVIOUS
    <2>1. /\ view.pc = "idle" /\ view.opened = <<>> /\ view.pos = 0 /\ view.records = <<>>
          /\ view = NoView /\ log = <<>> /\ syncPc = "exec" /\ shown = {} /\ FileRead = <<>>
          /\ Len(<<>>) = 0
        BY EmptySeq DEF Init, LogInit, NoView, FileRead
    <2>2. QED
        BY <2>1 DEF ReadInv, Position, NotBlank, PodReading, PodRecords, LocalReading, NumbersDistinct
<1>2. TypeInv /\ NumberInv /\ ReadInv /\ [Next]_vars => ReadInv'
    <2> SUFFICES ASSUME TypeInv, NumberInv, ReadInv, [Next]_vars PROVE ReadInv'
        OBVIOUS
    <2>1. CASE UNCHANGED vars
        BY <2>1 DEF vars, logVars, syncVars, viewVars, file, ReadInv, Position, NotBlank, PodReading,
                    PodRecords, LocalReading, PodSync, FileRead, LinesRead, NumbersDistinct, Whole
    <2>2. QED
        BY <2>1, ReadController, ReadSync, ReadRefresh DEF Next, Sync
<1>3. QED
    BY <1>1, <1>2, TypeInvariant, NumberInvariant, PTL DEF Spec

-----------------------------------------------------------------------------
(***************************************************************************)
(* The properties                                                          *)
(***************************************************************************)

\* At the end of a pod's file all its whole lines have been read.
LEMMA PodRead ==
    ASSUME TypeInv, ReadInv, PodSync, Draw
    PROVE  shown' = Whole(view.opened)
<1>1. view.pc = "reading" /\ view.pos >= Len(view.opened) /\ shown' = Range(view.records)
    BY DEF Draw, FileRead
<1>2. view.pos = Len(view.opened) /\ DOMAIN view.opened = 1..Len(view.opened)
    BY <1>1, ReadTypes DEF ReadInv, Position, FileRead
<1>3. QED
    BY <1>1, <1>2 DEF ReadInv, PodReading, LinesRead, Whole

\* A refresh shows every record that was legible when it opened the file, whatever the Controller
\* appends, cuts off or joins meanwhile, unless the record itself was lost to a joined line.
THEOREM RefreshIsComplete == Spec => RefreshComplete
<1> DEFINE A == view.pc = "reading" /\ view'.pc = "idle" =>
                  \A rec \in legible : rec \in shown' \/ (~PodSync /\ rec \notin Whole(log))
<1>1. ASSUME TypeInv, ReadInv, [Next]_vars PROVE [A]_vars
    <2> SUFFICES ASSUME view.pc = "reading", view'.pc = "idle", NEW rec \in legible
                 PROVE  rec \in shown' \/ (~PodSync /\ rec \notin Whole(log))
        OBVIOUS
    <2>1. Draw
        <3>1. UNCHANGED vars \/ Controller \/ Sync \/ SyncFail => UNCHANGED view
            BY DEF vars, viewVars, Controller, Sync, SyncExec, SyncWrite, SyncWake, SyncFail
        <3>2. ~ReadLine
            BY <1>1, LineRead
        <3>3. ~Open
            BY DEF Open
        <3>4. QED
            BY <1>1, <3>1, <3>2, <3>3 DEF Next, Refresh
    <2>2. CASE PodSync
        BY <1>1, <2>1, <2>2, PodRead DEF ReadInv, PodReading
    <2>3. CASE ~PodSync
        <3>1. view.pos >= Len(log) /\ shown' = Range(view.records)
            BY <2>1, <2>3 DEF Draw, FileRead
        <3>2. ~\E i \in DOMAIN log : view.pos < i
            BY <1>1, <3>1, ReadTypes
        <3>3. QED
            BY <1>1, <2>3, <3>1, <3>2 DEF ReadInv, LocalReading
    <2>4. QED
        BY <2>2, <2>3
<1>2. RefreshComplete <=> [][A]_vars
    BY DEF RefreshComplete
<1> HIDE DEF A
<1>3. QED
    BY <1>1, <1>2, TypeInvariant, ReadInvariant, PTL DEF Spec

\* The page goes blank only for a file that has lines, and in a pod only for a copy none of whose
\* lines parses: not when the Controller comes back with an empty log.
THEOREM NeverGoesBlank == Spec => NeverBlank
<1> DEFINE A == shown # {} /\ shown' = {} => FileRead # <<>> /\ Whole(view.opened) = {}
<1>1. ASSUME TypeInv, ReadInv, [Next]_vars PROVE [A]_vars
    <2> SUFFICES ASSUME shown # {}, shown' = {}
                 PROVE  FileRead # <<>> /\ Whole(view.opened) = {}
        OBVIOUS
    <2>1. Draw
        BY <1>1 DEF vars, viewVars, Next, Controller, Sync, SyncExec, SyncWrite, SyncWake, SyncFail,
                    Refresh, Open, ReadLine
    <2>2. FileRead # <<>>
        BY <1>1, <2>1 DEF ReadInv, NotBlank, Draw
    <2>3. CASE PodSync
        BY <1>1, <2>1, <2>2, <2>3, PodRead
    <2>4. CASE ~PodSync
        BY <1>1, <2>2, <2>4 DEF ReadInv, Position, Whole
    <2>5. QED
        BY <2>3, <2>4
<1>2. NeverBlank <=> [][A]_vars
    BY DEF NeverBlank
<1> HIDE DEF A
<1>3. QED
    BY <1>1, <1>2, TypeInvariant, ReadInvariant, PTL DEF Spec

\* Records with distinct numbers are all in the cost panel, as they are in the replicas panel.
LEMMA CostOfDistinct ==
    ASSUME NEW recs \in Seq(Records), NumbersDistinct(recs)
    PROVE  {<<pt.x, pt.from>> : pt \in Figures(recs).cost}
              = {<<pt.x, pt.from>> : pt \in Figures(recs).replicas}
<1>1. CASE recs = <<>>
    BY <1>1 DEF Figures, NoPanels
<1>2. CASE recs # <<>>
    <2> DEFINE Numbered == {<<rec.cycle, rec>> : rec \in Range(recs)}
    <2>1. /\ Figures(recs).cost = fig_cost(recs)
          /\ Figures(recs).replicas = ServerPoints(recs)
        BY <1>2 DEF Figures, fig_replicas
    <2>2. /\ DOMAIN recs = 1..Len(recs) /\ Len(recs) \in Nat
          /\ \A i \in DOMAIN recs : recs[i] \in Records /\ recs[i] # Torn
        BY LenProperties, ElementOfSeq, TornAssumption
    <2>3. {<<pt.x, pt.from>> : pt \in fig_cost(recs)} = Numbered
        <3>1. \A j \in DOMAIN recs : \A k \in 1..(j - 1) : k \in DOMAIN recs /\ k # j
            BY <2>2
        <3>2. fig_cost(recs) = {Point("cost", recs[i]) : i \in DOMAIN recs}
            BY <2>2, <3>1 DEF fig_cost, NumbersDistinct
        <3>3. QED
            <4>1. ASSUME NEW i \in DOMAIN recs
                  PROVE  /\ <<Point("cost", recs[i]).x, Point("cost", recs[i]).from>> \in Numbered
                         /\ Point("cost", recs[i]) \in fig_cost(recs)
                BY <3>2 DEF Point, Range
            <4>2. ASSUME NEW rec \in Range(recs)
                  PROVE  \E pt \in fig_cost(recs) : <<pt.x, pt.from>> = <<rec.cycle, rec>>
                <5>1. PICK i \in DOMAIN recs : recs[i] = rec
                    BY DEF Range
                <5>2. QED
                    BY <4>1, <5>1 DEF Point
            <4>3. ASSUME NEW pt \in fig_cost(recs) PROVE <<pt.x, pt.from>> \in Numbered
                BY <3>2, <4>1
            <4>4. QED
                BY <4>2, <4>3
    <2>4. {<<pt.x, pt.from>> : pt \in ServerPoints(recs)} = Numbered
        <3>1. \A rec \in Range(recs) : DOMAIN rec.plan # {}
            BY <2>2, CycleLogAssumption DEF Range, Records
        <3>2. ASSUME NEW pt \in ServerPoints(recs) PROVE <<pt.x, pt.from>> \in Numbered
            BY DEF ServerPoints, Point
        <3>3. ASSUME NEW rec \in Range(recs)
              PROVE  \E pt \in ServerPoints(recs) : <<pt.x, pt.from>> = <<rec.cycle, rec>>
            <4>1. PICK s \in DOMAIN rec.plan : TRUE
                BY <3>1
            <4>2. Point(s, rec) \in ServerPoints(recs)
                BY <4>1 DEF ServerPoints
            <4>3. QED
                BY <4>2 DEF Point
        <3>4. QED
            BY <3>2, <3>3
    <2>5. QED
        BY <2>1, <2>3, <2>4
<1>3. QED
    BY <1>1, <1>2

\* In a pod the cost panel, which keeps the first record of a cycle number, loses none.
THEOREM CostsMatch == Spec => []CostMatchesReplicas
<1>1. Init => CostMatchesReplicas
    BY DEF Init, NoPanels, CostMatchesReplicas
<1>2. TypeInv /\ ReadInv /\ CostMatchesReplicas /\ [Next]_vars => CostMatchesReplicas'
    <2> SUFFICES ASSUME TypeInv, ReadInv, CostMatchesReplicas, [Next]_vars PROVE CostMatchesReplicas'
        OBVIOUS
    <2>1. hosting' = hosting
        BY DEF Next, Controller, LogNext, Sync, SyncExec, SyncWrite, SyncWake, SyncFail, Refresh,
               Open, ReadLine, Draw, vars, logVars
    <2>2. CASE Draw
        <3>1. panels' = Figures(view.records)
            BY <2>2 DEF Draw
        <3>2. hosting = "pod" => NumbersDistinct(view.records)
            BY DEF ReadInv, PodRecords, PodSync
        <3>3. QED
            BY <2>1, <3>1, <3>2, ReadTypes, CostOfDistinct DEF CostMatchesReplicas
    <2>3. CASE ~Draw
        <3>1. panels' = panels
            BY <2>3 DEF Next, Controller, Sync, SyncExec, SyncWrite, SyncWake, SyncFail, Refresh,
                        Open, ReadLine, vars, viewVars
        <3>2. QED
            BY <2>1, <3>1 DEF CostMatchesReplicas
    <2>4. QED
        BY <2>2, <2>3
<1>3. QED
    BY <1>1, <1>2, TypeInvariant, ReadInvariant, PTL DEF Spec

=============================================================================
