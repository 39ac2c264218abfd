-------------------------------- MODULE Logger --------------------------------
(***************************************************************************)
(* packages/logger: a log entry goes to all transports at once; the        *)
(* rotating file transport looks at the size of its file and renames it    *)
(* and its predecessors, one awaited call of the file system after the     *)
(* other. The file system is external: each call of it is atomic. What the *)
(* formatters make of an entry is left out.                                *)
(***************************************************************************)
EXTENDS Integers, Sequences, FiniteSets

CONSTANTS
    MaxEntries,            \* how often the application logs
    LoggedWith,            \* the methods of Logger that the application calls
    LoggerConfigurations,  \* sets of transports, kind -> minLevel
    MaxPending,            \* calls of the application that overlap
    MaxSize,               \* of the file, in entries
    MaxFiles,              \* rotated files that are kept
    Missing                \* no such file

LogLevel == [Trace |-> 0, Debug |-> 1, Info |-> 2, Warn |-> 3, Error |-> 4, Fatal |-> 5]
Methods == [info |-> LogLevel.Info, warn |-> LogLevel.Warn, error |-> LogLevel.Error,
            debug |-> LogLevel.Debug, trace |-> LogLevel.Trace, fatal |-> LogLevel.Fatal]

\* rotate renames the current file to number 1 whatever maxFiles is.
ASSUME LoggerAssumptions ==
    /\ MaxSize \in Nat \ {0} /\ MaxFiles \in Nat \ {0}
    /\ LoggedWith \subseteq DOMAIN Methods
    /\ Missing \notin Seq(Nat)

VARIABLES
    transports,
    overlap,   \* how many calls the application makes without awaiting them
    calls,     \* sequence of [level, state], state that of the promise of log
    writes,    \* call -> kind -> the step of write with the number it renames,
               \* "done" or "failed"
    files,     \* 0 .. MaxFiles -> the entries of the file, 0 the current one
    others     \* kind -> the entries it received, for all but rotating

logVars == <<transports, overlap, calls, writes, files, others>>

Transports == DOMAIN transports
Rotating == "rotating"

LogInit ==
    /\ transports \in LoggerConfigurations
    /\ overlap \in 1 .. MaxPending
    /\ calls = <<>>
    /\ writes = <<>>
    /\ files = [i \in 0 .. MaxFiles |-> Missing]
    /\ others = [k \in Transports \ {Rotating} |-> <<>>]

-----------------------------------------------------------------------------
(* Logger.log: every transport starts at once.                             *)

IsLogged(level, kind) == kind # "null" /\ level >= transports[kind]

Begin(level, kind) == IF IsLogged(level, kind) THEN <<"begun", 0>> ELSE <<"done", 0>>

Log(level) ==
    /\ Len(calls) < MaxEntries
    /\ Cardinality({i \in DOMAIN calls : calls[i].state = "pending"}) < overlap
    /\ calls' = Append(calls, [level |-> level, state |-> "pending"])
    /\ writes' = Append(writes, [k \in Transports |-> Begin(level, k)])
    /\ UNCHANGED <<transports, overlap, files, others>>

IsAt(i, kind, step) == writes[i][kind][1] = step
GoTo(i, kind, step) == writes' = [writes EXCEPT ![i][kind] = <<step, 0>>]

\* Written before the promise of write is returned.
Receive(i, kind) ==
    /\ kind \in Transports /\ IsAt(i, kind, "begun")
    /\ others' = [others EXCEPT ![kind] = Append(@, i)]
    /\ GoTo(i, kind, "done")
    /\ UNCHANGED <<transports, overlap, calls, files>>

WriteMemory(i) == Receive(i, "memory")
WriteStream(i) == Receive(i, "stream")
WriteConsole(i) == Receive(i, "console")

\* fetch resolves for every answer of the server, and rejects without one.
FetchFails(i, kind) ==
    /\ kind \in Transports /\ IsAt(i, kind, "begun")
    /\ GoTo(i, kind, "failed")
    /\ UNCHANGED <<transports, overlap, calls, files, others>>

WriteHttp(i) == Receive(i, "http") \/ FetchFails(i, "http")
WriteWebhook(i) == Receive(i, "webhook") \/ FetchFails(i, "webhook")

-----------------------------------------------------------------------------
(* RotatingFileTransport.                                                  *)

Size(file) == IF file = Missing THEN 0 ELSE Len(file)
IsFull(file) == file # Missing /\ Size(file) >= MaxSize

\* Not the code: for the mutants.
FromTheFirst == 0

FirstRenamed == MaxFiles - 1

Stat(i) ==
    /\ Rotating \in Transports /\ IsAt(i, Rotating, "begun")
    /\ writes' = [writes EXCEPT ![i][Rotating] =
                    IF IsFull(files[0]) THEN <<"rename", FirstRenamed>> ELSE <<"append", 0>>]
    /\ UNCHANGED <<transports, overlap, calls, files, others>>

\* The source of a rename replaces its target; a rename without a source throws, and is caught.
Rename(n) ==
    files' = IF files[n] = Missing THEN files
             ELSE [files EXCEPT ![n] = Missing, ![n + 1] = files[n]]

AfterRename(n) == IF n = 0 THEN <<"append", 0>> ELSE <<"rename", n - 1>>
Rotate(i, n) ==
    /\ Rotating \in Transports /\ writes[i][Rotating] = <<"rename", n>>
    /\ Rename(n)
    /\ writes' = [writes EXCEPT ![i][Rotating] = AfterRename(n)]
    /\ UNCHANGED <<transports, overlap, calls, others>>

AppendFile(i) ==
    /\ Rotating \in Transports /\ IsAt(i, Rotating, "append")
    /\ files' = [files EXCEPT ![0] = IF @ = Missing THEN <<i>> ELSE Append(@, i)]
    /\ GoTo(i, Rotating, "done")
    /\ UNCHANGED <<transports, overlap, calls, others>>

-----------------------------------------------------------------------------
\* Promise.all: rejects with the first failure, resolves when all are done.
SettlesWith(i) ==
    CASE \E k \in Transports : IsAt(i, k, "failed") -> "rejected"
      [] \A k \in Transports : IsAt(i, k, "done") -> "resolved"
      [] OTHER -> "pending"

Settle(i) ==
    /\ calls[i].state = "pending" /\ SettlesWith(i) # "pending"
    /\ calls' = [calls EXCEPT ![i].state = SettlesWith(i)]
    /\ UNCHANGED <<transports, overlap, writes, files, others>>

LogNext ==
    \/ \E method \in LoggedWith : Log(Methods[method])
    \/ \E i \in DOMAIN calls :
        \/ WriteMemory(i) \/ WriteStream(i) \/ WriteConsole(i) \/ WriteHttp(i) \/ WriteWebhook(i) \/ Stat(i) \/ AppendFile(i) \/ Settle(i)
        \/ \E n \in 0 .. MaxFiles - 1 : Rotate(i, n)

LogSpec == LogInit /\ [][LogNext]_logVars

-----------------------------------------------------------------------------
(* Properties.                                                             *)

Contents(n) == IF files[n] = Missing THEN <<>> ELSE files[n]
Places == UNION {{n} \X DOMAIN Contents(n) : n \in 0 .. MaxFiles}
EntryAt(p) == Contents(p[1])[p[2]]
IsBefore(p, q) == p[1] > q[1] \/ (p[1] = q[1] /\ p[2] < q[2])

Kept == {EntryAt(p) : p \in Places}
InFile == {i \in DOMAIN calls : Rotating \in Transports /\ IsLogged(calls[i].level, Rotating) /\ IsAt(i, Rotating, "done")}

\* One call after the other, and no transport that can fail one.
IsAwaited == overlap = 1 /\ Transports \cap {"http", "webhook"} = {}

RotationKeepsTheNewest ==
    IsAwaited =>
        /\ Kept \subseteq InFile
        /\ \A i \in InFile, j \in Kept : i > j => i \in Kept
        /\ Kept # InFile => Cardinality(InFile) > MaxSize * MaxFiles
        /\ \A p, q \in Places : IsBefore(p, q) => EntryAt(p) < EntryAt(q)
        /\ \A n \in 0 .. MaxFiles : Len(Contents(n)) <= MaxSize

ReceivedOnce(i, kind) ==
    \E x \in DOMAIN others[kind] : \A y \in DOMAIN others[kind] : others[kind][y] = i <=> y = x

ResolvedIsWritten ==
    /\ \A i \in DOMAIN calls : calls[i].state = "resolved" =>
        \A k \in Transports : IsLogged(calls[i].level, k) =>
            IF k = Rotating THEN IsAt(i, k, "done") ELSE ReceivedOnce(i, k)
    /\ \A p, q \in Places : EntryAt(p) = EntryAt(q) => p = q

\* A call that resolved has written its entry to every transport that takes its
\* level, once, and no entry is ever in a file twice, however the calls overlap.
\* When the application awaits its calls, and no transport fails it earlier, the
\* files hold the last entries in their order, from the oldest file to the
\* current one, nothing is lost while a number is free, and no file exceeds its
\* size. (Logger.log, RotatingFileTransport.write.)
LogIsKept == RotationKeepsTheNewest /\ ResolvedIsWritten
=============================================================================
