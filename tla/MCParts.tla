------------------------------ MODULE MCParts ------------------------------
(***************************************************************************)
(* The sequential parts and the small ones, for TLC: a behaviour is that   *)
(* of one of them, while the others stay where they start.                 *)
(***************************************************************************)
EXTENDS MCExtentCache

CONSTANTS Thread, Hinfo, NULL,                      \* Handle
          Byte, Zero, MaxOff, MaxLen, Width,        \* FileData
          MaxXid, MaxReports,                       \* XidRep
          Base, Initial, MaxItems,                  \* Marshal
          Msec, Nsec, ToMin, Timeouts, MaxClock     \* Deadlines

VARIABLES part,         \* the part that takes steps
          hmap, info, cl_mutex, h, pc, answered,
          data, size, bytes,
          xid_rep_window_, reports,
          m, items, sent, u, got, whole,
          clock, start, to, curr_to, nextdeadline, finaldeadline, at

H == INSTANCE Handle
F == INSTANCE FileData
X == INSTANCE XidRep
M == INSTANCE Marshal
D == INSTANCE Deadlines

handleVars == <<hmap, info, cl_mutex, h, pc, answered>>
fileVars == <<data, size, bytes>>
xidVars == <<xid_rep_window_, reports>>
marshalVars == <<m, items, sent, u, got, whole>>
deadlineVars == <<clock, start, to, curr_to, nextdeadline, finaldeadline, at>>
partVars == <<part, vars, handleVars, fileVars, xidVars, marshalVars, deadlineVars>>

PartsInit ==
    /\ part \in {"ExtentCache", "Handle", "FileData", "XidRep", "Marshal", "Deadlines"}
    /\ Init /\ H!Init /\ F!Init /\ X!Init /\ M!Init /\ D!Init
    /\ part # "ExtentCache" => contents = Empty

ExtentStep ==
    /\ part = "ExtentCache" /\ Next
    /\ UNCHANGED <<part, handleVars, fileVars, xidVars, marshalVars, deadlineVars>>

HandleStep ==
    /\ part = "Handle" /\ H!Next
    /\ UNCHANGED <<part, vars, fileVars, xidVars, marshalVars, deadlineVars>>

FileStep ==
    /\ part = "FileData" /\ F!Next
    /\ UNCHANGED <<part, vars, handleVars, xidVars, marshalVars, deadlineVars>>

XidStep ==
    /\ part = "XidRep" /\ X!Next
    /\ UNCHANGED <<part, vars, handleVars, fileVars, marshalVars, deadlineVars>>

MarshalStep ==
    /\ part = "Marshal" /\ M!Next
    /\ UNCHANGED <<part, vars, handleVars, fileVars, xidVars, deadlineVars>>

DeadlinesStep ==
    /\ part = "Deadlines" /\ D!Next
    /\ UNCHANGED <<part, vars, handleVars, fileVars, xidVars, marshalVars>>

PartsNext == ExtentStep \/ HandleStep \/ FileStep \/ XidStep \/ MarshalStep \/ DeadlinesStep

PartsSpec == PartsInit /\ [][PartsNext]_partVars

-----------------------------------------------------------------------------
\* A handle's hinfo and the client in use are not deleted (handle.cc).
HandleLives == H!HandleLives

\* safebind answers a handle always the same (handle.cc).
SafebindStable == H!SafebindStable

\* What read() returns for any range is what the file has there (yfs_client.cc).
ReadsFile == F!ReadsFile

\* The front that rpcc sends as xid_rep is exact, and the list complete (rpc.cc).
FrontExact == X!FrontExact

\* What is put into a message comes out of it (marshall.h, rpc.cc).
RoundTrip == M!RoundTrip

\* A message that was cut is noticed (marshall.h, rpc.cc).
TruncatedRefused == M!TruncatedRefused

\* call1 waits until its timeout, and no longer (rpc.cc).
TimesOutOnTime == D!TimesOutOnTime
=============================================================================
