------------------------------- MODULE Session -------------------------------
(***************************************************************************)
(* The per-request Session of modelbox (session.h) as far as the virtual   *)
(* nodes observe it: the two atomic flags closed_ and abort_, and the weak *)
(* reference io_handle_ to the caller's SessionIO.  The caller's thread    *)
(* flips these at any time; the engine's nodes only read them.             *)
(***************************************************************************)
CONSTANT Sessions          \* the live sessions (model values)

VARIABLES
    closed,                \* Session::closed_  (std::atomic_bool)
    abort,                 \* Session::abort_   (std::atomic_bool)
    ioLive                 \* io_handle_.lock() != nullptr: the caller still
                           \* holds its SessionIO (ExternalDataMap)

sessionVars == <<closed, abort, ioLive>>

SessionTypeOK ==
    /\ closed \in [Sessions -> BOOLEAN]
    /\ abort  \in [Sessions -> BOOLEAN]
    /\ ioLive \in [Sessions -> BOOLEAN]

\* A session is created with both flags cleared and the caller's handle set
\* (SessionManager::CreateSession followed by Session::SetSessionIO).
SessionInit ==
    /\ closed = [s \in Sessions |-> FALSE]
    /\ abort  = [s \in Sessions |-> FALSE]
    /\ ioLive = [s \in Sessions |-> TRUE]

\* Session::Close: end the session after the data in the engine is
\* processed; setting the flag again is a no-op, so only the first call is
\* a step.
Close(s) ==
    /\ ~closed[s]
    /\ closed' = [closed EXCEPT ![s] = TRUE]
    /\ UNCHANGED <<abort, ioLive>>

\* Session::Abort: abort the session immediately.
Abort(s) ==
    /\ ~abort[s]
    /\ abort' = [abort EXCEPT ![s] = TRUE]
    /\ UNCHANGED <<closed, ioLive>>

\* The caller drops its SessionIO: the weak io_handle_ expires and every
\* later Session::GetSessionIO returns nullptr.  It never comes back.
ReleaseIO(s) ==
    /\ ioLive[s]
    /\ ioLive' = [ioLive EXCEPT ![s] = FALSE]
    /\ UNCHANGED <<closed, abort>>

SessionNext == \E s \in Sessions : Close(s) \/ Abort(s) \/ ReleaseIO(s)
=============================================================================
