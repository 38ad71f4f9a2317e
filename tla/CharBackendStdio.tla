--------------------------- MODULE CharBackendStdio ---------------------------
(***************************************************************************)
(* The stdio UART backend (src/include/greensocs/systemc-uarts/backends/   *)
(* char-bf/stdio.h): a receive thread that reads stdin one byte at a time  *)
(* and enqueues each byte on the biflow socket, a SIGINT handler that      *)
(* enqueues Ctrl-C, and a destructor that stops the receive thread with    *)
(* m_running = false and SIGURG and then joins it.                         *)
(*                                                                         *)
(* SIGURG is caught by catch_fn with sa_flags = 0, so a signal delivered   *)
(* while the thread is blocked in read() makes read() return -1 (EINTR);   *)
(* one delivered at any other moment only runs the empty handler.          *)
(***************************************************************************)
EXTENDS Naturals, Sequences, FiniteSets

CONSTANTS
    Chars,       \* the bytes stdin may deliver
    CtrlC,       \* the byte '\x03' the SIGINT handler enqueues
    MaxInput,    \* bound on the bytes typed on stdin
    MaxCtrlC     \* bound on the SIGINTs

ASSUME StdioAssumption ==
    /\ CtrlC \notin Chars
    /\ MaxInput \in Nat
    /\ MaxCtrlC \in Nat

VARIABLES
    m_running,       \* CharBackendStdio::m_running
    pidSet,          \* rcv_pthread_id != 0
    masked,          \* SIGURG blocked in the receive thread's signal mask
    sigPending,      \* a SIGURG sent by pthread_kill and not yet delivered
    rpc,             \* where the receive thread is
    mpc,             \* where the owning (SystemC) thread is
    input,           \* every byte written to stdin so far
    eof,             \* stdin has been closed
    pos,             \* bytes of input read so far
    c,               \* rcv_thread's local "char c"
    queue,           \* bytes enqueued on the socket, in order
    nCtrlC           \* SIGINTs seen so far

vars == <<m_running, pidSet, masked, sigPending, rpc, mpc, input, eof, pos, c,
          queue, nCtrlC>>

RcvStates == {"none", "start", "setid", "unmask", "check", "read", "inread", "done"}

\* The constructor: p_read_write decides whether rcv_thread is started; the
\* thread inherits the creator's signal mask, which may block SIGURG.
Init ==
    /\ m_running = TRUE
    /\ pidSet = FALSE
    /\ masked \in BOOLEAN
    /\ sigPending = FALSE
    /\ rpc \in {"none", "start"}
    /\ mpc = "sim"
    /\ input = <<>>
    /\ eof = FALSE
    /\ pos = 0
    /\ c \in Chars               \* "char c;" is uninitialized
    /\ queue = <<>>
    /\ nCtrlC = 0

-----------------------------------------------------------------------------
(* rcv_thread(), lines 92-117.                                             *)

\* sigaction(SIGURG, catch_fn).
InstallHandler ==
    /\ rpc = "start" /\ rpc' = "setid"
    /\ UNCHANGED <<m_running, pidSet, masked, sigPending, mpc, input, eof, pos, c, queue, nCtrlC>>

\* rcv_pthread_id = pthread_self().
SetId ==
    /\ rpc = "setid" /\ rpc' = "unmask"
    /\ pidSet' = TRUE
    /\ UNCHANGED <<m_running, masked, sigPending, mpc, input, eof, pos, c, queue, nCtrlC>>

\* pthread_sigmask(SIG_UNBLOCK): a SIGURG already pending is delivered now,
\* to the empty handler, before the loop starts.
Unmask ==
    /\ rpc = "unmask" /\ rpc' = "check"
    /\ masked' = FALSE
    /\ sigPending' = FALSE
    /\ UNCHANGED <<m_running, pidSet, mpc, input, eof, pos, c, queue, nCtrlC>>

\* while (m_running)
CheckRunning ==
    /\ rpc = "check"
    /\ rpc' = IF m_running THEN "read" ELSE "done"
    /\ UNCHANGED <<m_running, pidSet, masked, sigPending, mpc, input, eof, pos, c, queue, nCtrlC>>

\* The call of read(fd, &c, 1) begins; from here on it blocks.
EnterRead ==
    /\ rpc = "read" /\ rpc' = "inread"
    /\ UNCHANGED <<m_running, pidSet, masked, sigPending, mpc, input, eof, pos, c, queue, nCtrlC>>

\* Mutant: the "if (r == 1)" guard is dropped, so an interrupted read
\* enqueues whatever c still holds.
ReadInterrupted_Enqueue ==
    /\ sigPending /\ ~masked /\ rpc = "inread"
    /\ sigPending' = FALSE
    /\ rpc' = "check"
    /\ queue' = Append(queue, c)
    /\ UNCHANGED <<m_running, pidSet, masked, mpc, input, eof, pos, c, nCtrlC>>

\* read() returns 1: enqueue(c).
ReadByte ==
    /\ rpc = "inread"
    /\ pos < Len(input)
    /\ c' = input[pos + 1]
    /\ pos' = pos + 1
    /\ queue' = Append(queue, input[pos + 1])
    /\ rpc' = "check"
    /\ UNCHANGED <<m_running, pidSet, masked, sigPending, mpc, input, eof, nCtrlC>>

\* Mutant: "if (r == 0) break" is dropped; at end of file the loop goes on.
ReadEOF_NoBreak ==
    /\ rpc = "inread"
    /\ pos = Len(input) /\ eof
    /\ rpc' = "check"
    /\ UNCHANGED <<m_running, pidSet, masked, sigPending, mpc, input, eof, pos, c, queue, nCtrlC>>

\* read() returns 0 at end of file: break, the thread returns.
ReadEOF ==
    /\ rpc = "inread"
    /\ pos = Len(input) /\ eof
    /\ rpc' = "done"
    /\ UNCHANGED <<m_running, pidSet, masked, sigPending, mpc, input, eof, pos, c, queue, nCtrlC>>

\* SIGURG is delivered to the receive thread.  Inside read() it makes
\* read() return -1 (nothing enqueued, the loop re-checks m_running);
\* anywhere else only catch_fn runs and the signal is gone.
ReadInterrupted ==
    /\ sigPending /\ ~masked /\ rpc = "inread"
    /\ sigPending' = FALSE
    /\ rpc' = "check"
    /\ UNCHANGED <<m_running, pidSet, masked, mpc, input, eof, pos, c, queue, nCtrlC>>

SignalLost ==
    /\ sigPending /\ ~masked /\ rpc # "inread"
    /\ sigPending' = FALSE
    /\ UNCHANGED <<m_running, pidSet, masked, rpc, mpc, input, eof, pos, c, queue, nCtrlC>>

RcvStep ==
    \/ InstallHandler \/ SetId \/ Unmask \/ CheckRunning \/ EnterRead
    \/ ReadByte \/ ReadEOF

-----------------------------------------------------------------------------
(* ~CharBackendStdio(), lines 128-133, run by the owning thread.           *)

\* m_running = false
StopRunning ==
    /\ mpc = "sim" /\ mpc' = "kill"
    /\ m_running' = FALSE
    /\ UNCHANGED <<pidSet, masked, sigPending, rpc, input, eof, pos, c, queue, nCtrlC>>

\* if (rcv_pthread_id) pthread_kill(rcv_pthread_id, SIGURG)
Kill ==
    /\ mpc = "kill" /\ mpc' = "join"
    /\ sigPending' = (sigPending \/ pidSet)
    /\ UNCHANGED <<m_running, pidSet, masked, rpc, input, eof, pos, c, queue, nCtrlC>>

\* if (rcv_thread_id.joinable()) rcv_thread_id.join()
Join ==
    /\ mpc = "join"
    /\ rpc \in {"none", "done"}
    /\ mpc' = "joined"
    /\ UNCHANGED <<m_running, pidSet, masked, sigPending, rpc, input, eof, pos, c, queue, nCtrlC>>

-----------------------------------------------------------------------------
(* The environment: the terminal and SIGINT.                               *)

Type(ch) ==
    /\ ~eof /\ Len(input) < MaxInput
    /\ input' = Append(input, ch)
    /\ UNCHANGED <<m_running, pidSet, masked, sigPending, rpc, mpc, eof, pos, c, queue, nCtrlC>>

CloseStdin ==
    /\ ~eof /\ eof' = TRUE
    /\ UNCHANGED <<m_running, pidSet, masked, sigPending, rpc, mpc, input, pos, c, queue, nCtrlC>>

\* The handler registered in the constructor (lines 78-83): SIGINT
\* enqueues Ctrl-C.  It is never unregistered; after the join the object
\* is being destroyed and the model stops it there.
SigInt ==
    /\ mpc # "joined" /\ nCtrlC < MaxCtrlC
    /\ nCtrlC' = nCtrlC + 1
    /\ queue' = Append(queue, CtrlC)
    /\ UNCHANGED <<m_running, pidSet, masked, sigPending, rpc, mpc, input, eof, pos, c>>

Next ==
    \/ RcvStep \/ ReadInterrupted \/ SignalLost
    \/ StopRunning \/ Kill \/ Join
    \/ \E ch \in Chars : Type(ch)
    \/ CloseStdin \/ SigInt
    \/ (mpc = "joined" /\ UNCHANGED vars)

Spec == Init /\ [][Next]_vars

\* Both threads run when they can, and the kernel delivers a pending,
\* unblocked signal.  The terminal, the start of the destructor and
\* SIGINT are not required to happen.
Fairness ==
    /\ WF_vars(RcvStep)
    /\ WF_vars(ReadInterrupted \/ SignalLost)
    /\ WF_vars(Kill) /\ WF_vars(Join)

FairSpec == Spec /\ Fairness

-----------------------------------------------------------------------------
(* Properties.                                                             *)

TypeOK ==
    /\ m_running \in BOOLEAN /\ pidSet \in BOOLEAN /\ masked \in BOOLEAN
    /\ sigPending \in BOOLEAN /\ eof \in BOOLEAN
    /\ rpc \in RcvStates
    /\ mpc \in {"sim", "kill", "join", "joined"}
    /\ input \in Seq(Chars) /\ Len(input) <= MaxInput
    /\ pos \in 0..Len(input)
    /\ c \in Chars
    /\ queue \in Seq(Chars \cup {CtrlC})
    /\ nCtrlC \in 0..MaxCtrlC

IsData(b) == b # CtrlC

\* The places of a queue q that hold a byte of stdin, and the number of
\* such places up to j: the byte at j is the Rank(q, j)-th byte of data.
DataPos(q) == {j \in 1..Len(q) : IsData(q[j])}
Rank(q, j) == Cardinality({d \in DataPos(q) : d <= j})

\* The bytes of stdin reach the socket exactly once each and in order,
\* whatever interrupted reads and SIGINTs interleave with them: the queue
\* without its Ctrl-C bytes is the part of stdin read so far.  (It is
\* SelectSeq(queue, IsData) = SubSeq(input, 1, pos), said without the
\* recursion of SelectSeq: there are pos data bytes, the k-th is input[k].)
InputForwardedInOrder ==
    /\ Cardinality(DataPos(queue)) = pos
    /\ \A j \in DataPos(queue) : queue[j] = input[Rank(queue, j)]

\* Once stdin is closed the receive thread returns, even while the
\* simulation goes on, and a started destructor then returns from the join,
\* whatever happened to SIGURG.
ShutdownAtEOF ==
    /\ eof ~> (rpc \in {"none", "done"})
    /\ (mpc # "sim" /\ eof) ~> (mpc = "joined")

\* The destructor's SIGURG stops the receive thread: once the destructor has
\* started, the join eventually returns, even if stdin stays open and idle.
DestructorTerminates == (mpc # "sim") ~> (mpc = "joined")

====
