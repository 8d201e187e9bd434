------------------------------ MODULE RateLimit -----------------------------
(***************************************************************************)
(* The fixed-window limiter in front of sign-in, sign-up and password      *)
(* reset: core/rate_limit.py, behind the dependency of api/rate_limit.py.  *)
(* A hit is one step of the event loop.  The clock runs in ticks, several  *)
(* to a second, because the answer to a refused client is in whole seconds.*)
(***************************************************************************)
EXTENDS Naturals, Integers, Sequences, FiniteSets

CONSTANTS
  Clients,  \* name and address
  Limit,    \* hits a window allows
  Window,   \* its length, in ticks
  Second,   \* ticks in a second
  Horizon   \* bound: ticks

VARIABLES
  now,
  window,   \* each client's window: its start and count
  allowed,  \* when each client was let in, and since when its window ran then
  told      \* when a client that was refused may come back

vars == <<now, window, allowed, told>>

NoWindow == [start |-> -1, count |-> 0]
Never == -1
LetIn == [at : 0 .. Horizon, since : 0 .. Horizon]

TypeOK ==
  /\ now \in 0 .. Horizon
  /\ window \in [Clients -> [start : -1 .. now, count : 0 .. Limit + 1]]
  /\ allowed \in [Clients -> Seq(LetIn)]
  /\ told \in [Clients -> Int]

Init ==
  /\ now = 0
  /\ window = [c \in Clients |-> NoWindow]
  /\ allowed = [c \in Clients |-> << >>]
  /\ told = [c \in Clients |-> Never]

Tick ==
  /\ now < Horizon
  /\ now' = now + 1
  /\ UNCHANGED <<window, allowed, told>>

\* Mutant: the window slides with every hit.
CurrentMutant(w) ==
  IF w.start = -1 \/ now - w.start >= Window THEN [start |-> now, count |-> 1]
  ELSE [start |-> now, count |-> w.count]

\* The client's window with this hit in it: a new one when the last has elapsed.  Counts
\* past the limit are not told apart.
Current(w) ==
  IF w.start = -1 \/ now - w.start >= Window THEN [start |-> now, count |-> 1]
  ELSE [w EXCEPT !.count = IF @ > Limit THEN @ ELSE @ + 1]

\* retry_after: what is left of the window, cut to whole seconds, but at least one.
RetryAfter(w) ==
  LET left == (Window - (now - w.start)) \div Second IN IF left > 1 THEN left ELSE 1

\* hit, and the 429 with its Retry-After header.
Hit(c) ==
  LET w == Current(window[c]) IN
  /\ window' = [window EXCEPT ![c] = w]
  /\ IF w.count > Limit
       THEN /\ told' = [told EXCEPT ![c] = now + Second * RetryAfter(w)]
            /\ UNCHANGED allowed
       ELSE /\ allowed' = [allowed EXCEPT ![c] = Append(@, [at |-> now, since |-> w.start])]
            /\ told' = [told EXCEPT ![c] = Never]
  /\ UNCHANGED now

Next == Tick \/ \E c \in Clients : Hit(c)

Spec == Init /\ [][Next]_vars

----------------------------------------------------------------------------
(* Properties *)

\* The hits of c that were let in within a window's length of tick a.
InStretch(c, a) ==
  {i \in DOMAIN allowed[c] : a <= allowed[c][i].at /\ allowed[c][i].at < a + Window}

\* A client is let in at most twice the limit in any stretch as long as a window (the
\* end of one window and the start of the next), and one that was refused and waits a
\* second longer than it was told finds its window elapsed.  (What it was told is cut
\* to whole seconds, so a client that comes back on the dot may be refused again.)
LimiterHolds ==
  \A c \in Clients :
    /\ \A a \in 0 .. now : Cardinality(InStretch(c, a)) <= 2 * Limit
    /\ told[c] # Never => told[c] + Second >= window[c].start + Window
=============================================================================
