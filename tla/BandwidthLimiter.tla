-------------------------- MODULE BandwidthLimiter --------------------------
(***************************************************************************)
(* The bandwidth caps of a backend while they change: BandwidthLimiter     *)
(* (internal/backend/common/ratelimit.go), the backend's wrap* and         *)
(* UpdateCaps (internal/backend/azureblob/client.go, and the same in       *)
(* azurefile) and the handler of PUT /admin/caps (internal/server).        *)
(* Nothing locks the limiter's slots, so each pointer read or write is a   *)
(* step.  What a bucket does with its rate is module TokenBucket.          *)
(***************************************************************************)
EXTENDS Integers, Sequences, FiniteSets

CONSTANTS
    Admins,         \* requests to /admin/caps in flight
    Streams,
    Rates,          \* positive rates
    MaxBuckets      \* bounds the buckets a run allocates

ASSUME CapsAssumption == Rates \subseteq Nat \ {0} /\ MaxBuckets \in Nat

VARIABLES
    rate,       \* the buckets made so far: their rates; a bucket is its index
    limiter,    \* the limiters made so far: the bucket in each slot, or Nil
    current,    \* ab.limiter: the index of one of them, or Nil
    admin,      \* the admin requests
    stream,     \* the wrapped streams
    asked       \* the caps of the last request to finish; no code reads it

capsVars == <<rate, limiter, current, admin, stream, asked>>

-----------------------------------------------------------------------------
Nil == 0
Off == 0        \* a disabled bucket; as a cap, none
Slots == <<"download", "upload", "combined">>       \* in the order UpdateCaps takes them
SlotNames == {"download", "upload", "combined"}
Caps == [SlotNames -> Rates \cup {Off}]

\* What Config.Validate and the admin handler let through.
Valid(caps) ==
    /\ caps \in Caps
    /\ caps["combined"] # Off => caps["download"] = Off /\ caps["upload"] = Off

NoCaps == [s \in SlotNames |-> Off]
IdleAdmin == [at |-> "idle", caps |-> NoCaps, lim |-> Nil, slot |-> 1, found |-> Nil]
NoBuckets == [s \in SlotNames |-> Nil]
IdleStream == [at |-> "idle", way |-> "download", lim |-> Nil, held |-> NoBuckets]

OneBucket(cap) == IF cap = Off THEN <<>> ELSE <<cap>>

\* The buckets NewBandwidthLimiter makes: one for each cap, after those made before.
NewBuckets(made, caps) ==
    LET down == OneBucket(caps["download"])
        up == OneBucket(caps["upload"])
        before == [download |-> 0, upload |-> Len(down), combined |-> Len(down) + Len(up)]
    IN  [rates |-> (down \o up) \o OneBucket(caps["combined"]),
         slots |-> [s \in SlotNames |-> IF caps[s] = Off THEN Nil ELSE made + before[s] + 1]]

\* The backend is built with the configured caps, if there are any.
CapsInit ==
    /\ asked \in {caps \in Caps : Valid(caps)}
    /\ rate = NewBuckets(0, asked).rates
    /\ limiter = IF asked = NoCaps THEN <<>> ELSE <<NewBuckets(0, asked).slots>>
    /\ current = Len(limiter)
    /\ admin = [a \in Admins |-> IdleAdmin]
    /\ stream = [s \in Streams |-> IdleStream]

-----------------------------------------------------------------------------
Busy == \E a \in Admins : admin[a].at # "idle"

\* A request comes in and passes the checks; UpdateCaps looks at ab.limiter.
Request(a) ==
    /\ admin[a].at = "idle"
    /\ Len(rate) + 3 * Cardinality({b \in Admins : admin[b].at # "idle"}) + 3 <= MaxBuckets
    /\ \E caps \in Caps :
          /\ Valid(caps)
          /\ admin' = [admin EXCEPT ![a] =
                          [at |-> IF current = Nil THEN "make" ELSE "look",
                           caps |-> caps, lim |-> current, slot |-> 1, found |-> Nil]]
    /\ UNCHANGED <<rate, limiter, current, stream, asked>>

\* There was no limiter: NewBandwidthLimiter, which is nil when there is no cap.
Make(a) ==
    /\ admin[a].at = "make"
    /\ LET caps == admin[a].caps
           new == NewBuckets(Len(rate), caps)
       IN  /\ rate' = rate \o new.rates
           /\ IF caps = NoCaps
              THEN current' = Nil /\ UNCHANGED limiter
              ELSE current' = Len(limiter) + 1 /\ limiter' = Append(limiter, new.slots)
           /\ asked' = caps
    /\ admin' = [admin EXCEPT ![a] = IdleAdmin]
    /\ UNCHANGED stream

\* updateBucket reads the slot ...
Look(a) ==
    /\ admin[a].at = "look"
    /\ admin' = [admin EXCEPT ![a].at = "apply",
                    ![a].found = limiter[admin[a].lim][Slots[admin[a].slot]]]
    /\ UNCHANGED <<rate, limiter, current, stream, asked>>

\* Mutated form: the last slot is left out.
AdvanceSkipsLast(a) ==
    IF admin[a].slot + 1 = Len(Slots)
    THEN admin' = [admin EXCEPT ![a] = IdleAdmin] /\ asked' = admin[a].caps
    ELSE admin' = [admin EXCEPT ![a].slot = @ + 1, ![a].at = "look"] /\ UNCHANGED asked

\* The next slot, or the request is done.
Advance(a) ==
    IF admin[a].slot = Len(Slots)
    THEN admin' = [admin EXCEPT ![a] = IdleAdmin] /\ asked' = admin[a].caps
    ELSE admin' = [admin EXCEPT ![a].slot = @ + 1, ![a].at = "look"] /\ UNCHANGED asked

\* Mutated form: the bucket is forgotten but keeps throttling.
DisableForgotten(a) ==
    /\ admin[a].at = "apply"
    /\ admin[a].caps[Slots[admin[a].slot]] = Off
    /\ admin' = [admin EXCEPT ![a].at = "clear"]
    /\ UNCHANGED <<rate, limiter, current, stream, asked>>

\* ... and disables the bucket it found, if any, when there is to be no cap ...
Disable(a) ==
    /\ admin[a].at = "apply"
    /\ admin[a].caps[Slots[admin[a].slot]] = Off
    /\ admin' = [admin EXCEPT ![a].at = "clear"]
    /\ rate' = IF admin[a].found = Nil THEN rate ELSE [rate EXCEPT ![admin[a].found] = Off]
    /\ UNCHANGED <<limiter, current, stream, asked>>

\* ... and takes it out of the slot;
ClearSlot(a) ==
    /\ admin[a].at = "clear"
    /\ limiter' = [limiter EXCEPT ![admin[a].lim][Slots[admin[a].slot]] = Nil]
    /\ Advance(a)
    /\ UNCHANGED <<rate, current, stream>>

\* or makes a bucket where there was none ...
FillSlot(a) ==
    /\ admin[a].at = "apply"
    /\ admin[a].caps[Slots[admin[a].slot]] # Off
    /\ admin[a].found = Nil
    /\ rate' = Append(rate, admin[a].caps[Slots[admin[a].slot]])
    /\ limiter' = [limiter EXCEPT ![admin[a].lim][Slots[admin[a].slot]] = Len(rate) + 1]
    /\ Advance(a)
    /\ UNCHANGED <<current, stream>>

\* or changes the rate of the one it found.
ChangeRate(a) ==
    /\ admin[a].at = "apply"
    /\ admin[a].caps[Slots[admin[a].slot]] # Off
    /\ admin[a].found # Nil
    /\ rate' = [rate EXCEPT ![admin[a].found] = admin[a].caps[Slots[admin[a].slot]]]
    /\ Advance(a)
    /\ UNCHANGED <<limiter, current, stream>>

\* wrapDownload and wrapUpload read ab.limiter; without one nothing is wrapped.
Wrap(s) ==
    /\ stream[s].at = "idle"
    /\ \E way \in {"download", "upload"} :
          stream' = [stream EXCEPT ![s] =
                        [at |-> IF current = Nil THEN "open" ELSE "direction",
                         way |-> way, lim |-> current, held |-> NoBuckets]]
    /\ UNCHANGED <<rate, limiter, current, admin, asked>>

\* buckets: the slot of the direction, and then the combined one.
Collect(s, from, slot, to) ==
    /\ stream[s].at = from
    /\ stream' = [stream EXCEPT ![s].at = to,
                     ![s].held[slot] = limiter[stream[s].lim][slot]]
    /\ UNCHANGED <<rate, limiter, current, admin, asked>>

TakeDirection(s) == Collect(s, "direction", stream[s].way, "combined")
TakeCombined(s) == Collect(s, "combined", "combined", "open")

\* The stream is read to its end.
ReadToEnd(s) ==
    /\ stream[s].at = "open"
    /\ stream' = [stream EXCEPT ![s] = IdleStream]
    /\ UNCHANGED <<rate, limiter, current, admin, asked>>

CapsNext ==
    \/ \E a \in Admins : \/ Request(a) \/ Make(a) \/ Look(a) \/ Disable(a)
                         \/ ClearSlot(a) \/ FillSlot(a) \/ ChangeRate(a)
    \/ \E s \in Streams : Wrap(s) \/ TakeDirection(s) \/ TakeCombined(s) \/ ReadToEnd(s)

CapsSpec == CapsInit /\ [][CapsNext]_capsVars

-----------------------------------------------------------------------------
\* The caps in force: the rates of the buckets in the slots.
InForce(s) ==
    IF current = Nil \/ limiter[current][s] = Nil THEN Off ELSE rate[limiter[current][s]]

\* Every variable keeps its type, and slots and streams hold buckets that exist.
CapsTypeOK ==
    /\ rate \in Seq(Rates \cup {Off})
    /\ limiter \in Seq([SlotNames -> 0..Len(rate)])
    /\ current \in 0..Len(limiter)
    /\ asked \in Caps
    /\ admin \in [Admins -> [at : {"idle", "make", "look", "apply", "clear"}, caps : Caps,
                             lim : 0..Len(limiter), slot : 1..Len(Slots), found : 0..Len(rate)]]
    /\ stream \in [Streams -> [at : {"idle", "direction", "combined", "open"},
                               way : {"download", "upload"}, lim : 0..Len(limiter),
                               held : [SlotNames -> 0..Len(rate)]]]
    /\ \A a \in Admins : admin[a].at \in {"look", "apply", "clear"} => admin[a].lim # Nil
    /\ \A s \in Streams : stream[s].at \in {"direction", "combined"} => stream[s].lim # Nil

\* Between requests the caps in force are those of the last one, through every
\* sequence of caps set, changed, removed and set again.
SettledCaps == CapsTypeOK /\ (~Busy => \A s \in SlotNames : InForce(s) = asked[s])

\* A bucket that is in no slot throttles nobody: a stream that still holds it is
\* not slowed by a cap that was removed.
OrphansAreOff ==
    ~Busy => \A s \in Streams : \A n \in SlotNames :
        LET b == stream[s].held[n] IN b # Nil /\ rate[b] # Off => limiter[current][n] = b

=============================================================================
