-------------------------------- MODULE Traffic -------------------------------
(***************************************************************************)
(* The bytes that went up and down, in memory: a ring of one bucket per    *)
(* second for all traffic and for each of a bounded number of sessions.    *)
(***************************************************************************)
EXTENDS Integers, FiniteSets, SequencesExt, FiniteSetsExt

CONSTANTS
  Sessions,
  NoSession,     \* of a request that has none
  Slots,         \* buckets of a ring
  Windows,       \* the seconds a rate is taken over: no more than there are buckets
  MaxSessions,
  MaxTime, MaxRecords   \* bounds, for model checking

VARIABLES
  now,       \* seconds
  rings,     \* a ring for All, and for each session that is kept
  totals,    \* bytes of all time for the same
  last,      \* session that is kept -> last_activity
  history    \* what was recorded, and which session was dropped, oldest first

vars == <<now, rings, totals, last, history>>

All == "all"
Kept == DOMAIN last
Bytes(up, down) == [up |-> up, down |-> down]
Zero == Bytes(0, 0)
Plus(a, b) == Bytes(a.up + b.up, a.down + b.down)
NewRing == [i \in 0 .. (Slots - 1) |-> [sec |-> 0, bytes |-> Zero]]

\* Mutant of Add: what the bucket held stays.
AddOn(ring, bytes) ==
  [ring EXCEPT ![now % Slots] = [sec |-> now, bytes |-> Plus(@.bytes, bytes)]]

\* A bucket of an earlier round starts again from nothing.
Add(ring, bytes) ==
  [ring EXCEPT ![now % Slots] =
     [sec |-> now, bytes |-> IF @.sec = now THEN Plus(@.bytes, bytes) ELSE bytes]]

InWindow(sec, secs) == sec # 0 /\ sec + secs > now /\ sec <= now

\* The bytes of the members of S, f giving the bytes of each.
Summed(f, S) == Bytes(SumFunctionOnSet([i \in DOMAIN f |-> f[i].up], S),
                      SumFunctionOnSet([i \in DOMAIN f |-> f[i].down], S))

WindowSum(ring, secs) ==
  Summed([i \in DOMAIN ring |-> ring[i].bytes],
         {i \in DOMAIN ring : InWindow(ring[i].sec, secs)})

\* Mutant of Evicted: nobody makes room.
EvictedNever(session) == {{}}

\* The sessions one of which makes room for a new one: the oldest by last_activity.
Evicted(session) ==
  IF session \in Kept \cup {NoSession} \/ Cardinality(Kept) < MaxSessions THEN {{}}
  ELSE {{s} : s \in {s \in Kept : \A o \in Kept : last[s] <= last[o]}}

\* last_activity is set when the session comes in, and not again.
TouchSession(kept) == last' = [s \in kept |-> IF s \in Kept THEN last[s] ELSE now]

Ring(r) == IF r \in DOMAIN rings THEN rings[r] ELSE NewRing
TotalOf(r) == IF r \in DOMAIN totals THEN totals[r] ELSE Zero

Init ==
  /\ now = 1
  /\ rings = [r \in {All} |-> NewRing]
  /\ totals = [r \in {All} |-> Zero]
  /\ last = <<>>
  /\ history = <<>>

Entry(session, bytes, gone) == [at |-> now, session |-> session, bytes |-> bytes, gone |-> gone]

\* record_up when a request came in, record_down_chunk for each chunk of its answer.
Record(session, bytes) ==
  /\ Len(history) < MaxRecords
  /\ \E gone \in Evicted(session) :
       LET counted == {All} \cup ({session} \ {NoSession})
           kept == (DOMAIN rings \ gone) \cup counted
       IN /\ rings' = [r \in kept |-> IF r \in counted THEN Add(Ring(r), bytes) ELSE rings[r]]
          /\ totals' = [r \in kept |-> IF r \in counted THEN Plus(TotalOf(r), bytes) ELSE totals[r]]
          /\ TouchSession(kept \ {All})
          /\ history' = Append(history, Entry(session, bytes, gone))
  /\ UNCHANGED now

Tick == now < MaxTime /\ now' = now + 1 /\ UNCHANGED <<rings, totals, last, history>>

Next == \/ \E s \in Sessions \cup {NoSession}, b \in {Bytes(1, 0), Bytes(0, 1)} : Record(s, b)
        \/ Tick

Spec == Init /\ [][Next]_vars

-------------------------------------------------------------------------------
(* Properties *)

TypeOK ==
  /\ now \in 1 .. MaxTime
  /\ DOMAIN rings = Kept \cup {All} /\ DOMAIN totals = DOMAIN rings
  /\ Kept \subseteq Sessions /\ Cardinality(Kept) <= MaxSessions
  /\ \A r \in DOMAIN rings : \A i \in DOMAIN rings[r] : rings[r][i].sec \in 0 .. now

\* The entries of the history that a ring must know: all, or those of a session since
\* it was last dropped.
Known(r) ==
  {i \in DOMAIN history :
     \/ r = All
     \/ history[i].session = r /\ \A j \in DOMAIN history : j > i => r \notin history[j].gone}

SumOf(entries) == Summed([i \in DOMAIN history |-> history[i].bytes], entries)

\* However often a ring went round and whatever was dropped for room, the rates and
\* the totals shown are those of the bytes recorded.
RatesExact ==
  \A r \in DOMAIN rings :
    /\ totals[r] = SumOf(Known(r))
    /\ \A w \in Windows :
         WindowSum(rings[r], w) = SumOf({i \in Known(r) : InWindow(history[i].at, w)})

\* No run checks it, for last_activity is never moved: a session that makes room was
\* active last before every other.
LeastActiveDropped ==
  \A n \in DOMAIN history : \A gone \in history[n].gone :
    LET latest(s) == Max({0} \cup {history[i].at : i \in {i \in 1 .. (n - 1) : history[i].session = s}})
        kept == {s \in Sessions : \E i \in 1 .. (n - 1) :
                   history[i].session = s /\ \A j \in i .. (n - 1) : s \notin history[j].gone}
    IN \A o \in kept : latest(gone) <= latest(o)
===============================================================================
