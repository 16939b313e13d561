------------------------- MODULE AccountPool_proofs -------------------------
(***************************************************************************)
(* Why the two trackers of AccountPool can be rebuilt from their store     *)
(* after a restart, for any number of accounts, conversations, concurrent  *)
(* calls, overlapping store calls and restarts.                            *)
(*                                                                         *)
(* The argument: the last store call made for a key carries what memory    *)
(* holds for it; if none is under way, the row does.  Park entries may     *)
(* differ when both have expired, because is_available() clears memory and *)
(* leaves the row.                                                         *)
(***************************************************************************)
EXTENDS AccountPool, TLAPS

\* The value a row will have when the calls under way have landed.
Final(row, writes) == IF writes = <<>> THEN row ELSE writes[Len(writes)]

ParkLog == \A a \in Accounts : Alike(Final(parkRow[a], parkWrites[a]), parked[a])
PinLog == \A k \in Chats : Final(pinRow[k], pinWrites[k]) = pin[k]

\* A call that is not idle has an account.
Placed == \A c \in Calls : call[c].pc # "idle" => call[c].account \in Accounts

ParkTypes ==
  /\ parked \in [Accounts -> ParkStates] /\ parkRow \in [Accounts -> ParkStates]
  /\ parkWrites \in [Accounts -> Seq(ParkStates)]

PinTypes ==
  /\ pin \in [Chats -> Accounts \cup {NoAccount}]
  /\ pinRow \in [Chats -> Accounts \cup {NoAccount}]
  /\ pinWrites \in [Chats -> Seq(Accounts \cup {NoAccount})]

CallRecords == [pc : {"idle", "creating", "sending"},
                chat : Chats \cup {NoChat}, account : Accounts \cup {NoAccount}]

OtherTypes ==
  /\ clock \in 0..MaxTime
  /\ clients \in SUBSET Accounts
  /\ limits \in [Accounts -> SUBSET Resets]
  /\ expired \in [Accounts -> Nat] /\ relogins \in [Accounts -> Nat]
  /\ removal \in [Accounts -> {"none", "dropping"}]
  /\ dropping \in [Accounts -> SUBSET Chats]
  /\ call \in [Calls -> CallRecords]
  /\ owner \in [Chats -> Accounts \cup {NoAccount}]
  /\ reports \in 0..MaxReports /\ restarts \in 0..MaxRestarts

IInv == ParkTypes /\ PinTypes /\ OtherTypes /\ Placed /\ ParkLog /\ PinLog

\* What a step may do to the park entries, and to the pins.
ParkEffect ==
  \/ UNCHANGED <<clock, parked, parkRow, parkWrites>>
  \/ \E a \in Accounts, s \in ParkStates : Set(a, s) /\ UNCHANGED <<clock, parkRow>>
  \/ \E asked \in SUBSET Accounts : parked' = Cleared(asked) /\ UNCHANGED <<clock, parkRow, parkWrites>>
  \/ \E a \in Accounts : ParkWritten(a)
  \/ Tick
  \/ Restart

PinEffect ==
  \/ UNCHANGED <<pin, pinRow, pinWrites>>
  \/ \E k \in Chats, a \in Accounts : Pin(k, a) /\ UNCHANGED pinRow
  \/ \E k \in Chats : Unpin(k) /\ UNCHANGED pinRow
  \/ \E k \in Chats : PinWritten(k)
  \/ Restart

-----------------------------------------------------------------------------
(* What Append and Tail do to the length and the elements of a sequence. *)
LEMMA WritesFacts ==
  ASSUME NEW S, NEW w \in Seq(S)
  PROVE  /\ Len(w) \in Nat /\ (Len(w) = 0 <=> w = <<>>)
         /\ \A i \in 1..Len(w) : w[i] \in S
         /\ w # <<>> => /\ Head(w) = w[1] /\ Tail(w) \in Seq(S)
                        /\ Len(Tail(w)) = Len(w) - 1
                        /\ \A i \in 1..(Len(w) - 1) : Tail(w)[i] = w[i + 1]
OBVIOUS

(* Making a store call changes the final value to the one written; serving *)
(* the oldest call leaves it alone.                                        *)
LEMMA FinalFacts ==
  ASSUME NEW S, NEW w \in Seq(S), NEW row
  PROVE  /\ \A x \in S : Append(w, x) \in Seq(S) /\ Final(row, Append(w, x)) = x
         /\ w # <<>> => /\ Head(w) \in S /\ Tail(w) \in Seq(S)
                        /\ Final(Head(w), Tail(w)) = Final(row, w)
         /\ Final(row, <<>>) = row
         /\ row \in S => Final(row, w) \in S
<1>1. /\ Final(row, <<>>) = row
      /\ \A x \in S : Append(w, x) \in Seq(S) /\ Final(row, Append(w, x)) = x
  BY DEF Final
<1>2. ASSUME w # <<>>
      PROVE  Head(w) \in S /\ Tail(w) \in Seq(S) /\ Final(Head(w), Tail(w)) = Final(row, w)
  <2>1. /\ Len(w) \in Nat \ {0} /\ Head(w) = w[1] /\ w[1] \in S
        /\ Tail(w) \in Seq(S) /\ Len(Tail(w)) = Len(w) - 1
        /\ \A i \in 1..(Len(w) - 1) : Tail(w)[i] = w[i + 1]
    BY <1>2, WritesFacts
  <2>2. Tail(w) = <<>> <=> Len(w) = 1
    BY <2>1, WritesFacts
  <2>3. CASE Len(w) = 1
    BY <2>1, <2>2, <2>3, <1>2 DEF Final
  <2>4. CASE Len(w) # 1
    <3>1. Tail(w)[Len(w) - 1] = w[Len(w)]
      BY <2>1, <2>4
    <3>2. QED
      BY <2>1, <2>2, <2>4, <3>1, <1>2 DEF Final
  <2>5. QED
    BY <2>1, <2>3, <2>4
<1>3. row \in S => Final(row, w) \in S
  BY WritesFacts DEF Final
<1>4. QED
  BY <1>1, <1>2, <1>3

(* The pins and their log survive every effect. *)
LEMMA PinsKept ==
  ASSUME PinTypes, PinLog, PinEffect
  PROVE  PinTypes' /\ PinLog'
<1> DEFINE T == Accounts \cup {NoAccount}
<1>1. CASE UNCHANGED <<pin, pinRow, pinWrites>>
  BY <1>1 DEF PinTypes, PinLog
<1>2. ASSUME NEW k \in Chats, NEW v \in T, pin' = [pin EXCEPT ![k] = v], pinRow' = pinRow,
             \/ pinWrites' = [pinWrites EXCEPT ![k] = Append(@, v)]
             \/ pin[k] = v /\ pinWrites' = pinWrites
      PROVE  PinTypes' /\ PinLog'
  <2>1. pinWrites[k] \in Seq(T)
    BY DEF PinTypes
  <2>2. Append(pinWrites[k], v) \in Seq(T) /\ Final(pinRow[k], Append(pinWrites[k], v)) = v
    BY <2>1, FinalFacts
  <2>3. QED
    BY <1>2, <2>2 DEF PinTypes, PinLog
<1>3. ASSUME NEW k \in Chats, PinWritten(k)
      PROVE  PinTypes' /\ PinLog'
  <2>1. pinWrites[k] \in Seq(T) /\ pinWrites[k] # <<>>
    BY <1>3 DEF PinTypes, PinWritten
  <2>2. /\ Head(pinWrites[k]) \in T /\ Tail(pinWrites[k]) \in Seq(T)
        /\ Final(Head(pinWrites[k]), Tail(pinWrites[k])) = Final(pinRow[k], pinWrites[k])
    BY <2>1, FinalFacts
  <2>3. QED
    BY <1>3, <2>2 DEF PinTypes, PinLog, PinWritten, memory
<1>4. CASE Restart
  BY <1>4 DEF Restart, PinTypes, PinLog, Final
<1>5. ASSUME NEW k \in Chats, NEW a \in Accounts, Pin(k, a), pinRow' = pinRow
      PROVE  PinTypes' /\ PinLog'
  <2>1. CASE pin[k] = a
    <3>1. pinWrites' = pinWrites
      BY <1>5, <2>1 DEF Pin, PinTypes
    <3>2. QED
      BY <1>2, <1>5, <2>1, <3>1 DEF Pin
  <2>2. CASE pin[k] # a
    BY <1>2, <1>5, <2>2 DEF Pin
  <2>3. QED
    BY <2>1, <2>2
<1>6. ASSUME NEW k \in Chats, Unpin(k), pinRow' = pinRow
      PROVE  PinTypes' /\ PinLog'
  BY <1>2, <1>6 DEF Unpin
<1>7. QED
  BY <1>1, <1>3, <1>4, <1>5, <1>6 DEF PinEffect

(* So do the park entries and theirs: entries that were alike stay alike   *)
(* as the clock moves on.                                                  *)
LEMMA ParksKept ==
  ASSUME ParkTypes, clock \in 0..MaxTime, ParkLog, ParkEffect
  PROVE  ParkTypes' /\ ParkLog'
<1> USE PoolAssumption
<1>0. ParkStates \subseteq Nat /\ 0 \in ParkStates
  BY DEF ParkStates, Forever
<1>1. CASE UNCHANGED <<clock, parked, parkRow, parkWrites>>
  BY <1>1 DEF ParkTypes, ParkLog, Alike
<1>2. ASSUME NEW a \in Accounts, NEW s \in ParkStates, Set(a, s), UNCHANGED <<clock, parkRow>>
      PROVE  ParkTypes' /\ ParkLog'
  <2>1. parkWrites[a] \in Seq(ParkStates)
    BY DEF ParkTypes
  <2>2. /\ Append(parkWrites[a], s) \in Seq(ParkStates)
        /\ Final(parkRow[a], Append(parkWrites[a], s)) = s
    BY <2>1, FinalFacts
  <2>3. QED
    BY <1>2, <2>2 DEF ParkTypes, ParkLog, Alike, Set
<1>3. ASSUME NEW asked \in SUBSET Accounts, parked' = Cleared(asked),
             UNCHANGED <<clock, parkRow, parkWrites>>
      PROVE  ParkTypes' /\ ParkLog'
  <2>1. ParkTypes'
    BY <1>0, <1>3 DEF ParkTypes, Cleared
  <2>2. ASSUME NEW a \in Accounts PROVE Alike(Final(parkRow[a], parkWrites[a]), parked[a])'
    <3>1. parked'[a] = parked[a] \/ (parked'[a] = 0 /\ parked[a] <= clock)
      BY <1>3 DEF Cleared, Available
    <3>2. Alike(Final(parkRow[a], parkWrites[a]), parked[a])
      BY DEF ParkLog
    <3>3. clock \in Nat
      OBVIOUS
    <3>4. QED
      BY <1>3, <3>1, <3>2, <3>3 DEF Alike
  <2>3. QED
    BY <2>1, <2>2 DEF ParkLog
<1>4. ASSUME NEW a \in Accounts, ParkWritten(a)
      PROVE  ParkTypes' /\ ParkLog'
  <2>1. parkWrites[a] \in Seq(ParkStates) /\ parkWrites[a] # <<>>
    BY <1>4 DEF ParkTypes, ParkWritten
  <2>2. /\ Head(parkWrites[a]) \in ParkStates /\ Tail(parkWrites[a]) \in Seq(ParkStates)
        /\ Final(Head(parkWrites[a]), Tail(parkWrites[a])) = Final(parkRow[a], parkWrites[a])
    BY <2>1, FinalFacts
  <2>3. QED
    BY <1>4, <2>2 DEF ParkTypes, ParkLog, Alike, ParkWritten, memory
<1>5. CASE Tick
  <2>1. ParkTypes'
    BY <1>5 DEF Tick, ParkTypes, memory, durable
  <2>2. ASSUME NEW a \in Accounts, NEW x, NEW y, x \in Nat, y \in Nat, Alike(x, y)
        PROVE  x = y \/ (x <= clock + 1 /\ y <= clock + 1)
    BY <2>2 DEF Alike
  <2>3. ASSUME NEW a \in Accounts PROVE Final(parkRow[a], parkWrites[a]) \in Nat
    <3>1. parkRow[a] \in ParkStates /\ parkWrites[a] \in Seq(ParkStates)
      BY DEF ParkTypes
    <3>2. Final(parkRow[a], parkWrites[a]) \in ParkStates
      BY <3>1, FinalFacts
    <3>3. QED
      BY <1>0, <3>2
  <2>4. QED
    BY <1>0, <1>5, <2>1, <2>2, <2>3 DEF Tick, ParkLog, ParkTypes, Alike, memory, durable
<1>6. CASE Restart
  <2>1. \A a \in Accounts : Loaded(a) \in ParkStates
    BY <1>0 DEF Loaded, ParkTypes
  <2>2. QED
    BY <1>6, <2>1 DEF Restart, ParkTypes, ParkLog, Alike, Final
<1>7. QED
  BY <1>1, <1>2, <1>3, <1>4, <1>5, <1>6 DEF ParkEffect

(* A new pool has empty trackers and an empty store. *)
LEMMA InitIInv == Init => IInv
<1> USE PoolAssumption
<1> SUFFICES ASSUME Init PROVE IInv
  OBVIOUS
<1>1. ParkTypes /\ ParkLog
  BY DEF Init, ParkTypes, ParkLog, Alike, Final, ParkStates, Forever
<1>2. PinTypes /\ PinLog
  BY DEF Init, PinTypes, PinLog, Final
<1>3. OtherTypes /\ Placed
  BY DEF Init, OtherTypes, Placed, IdleCall, CallRecords
<1>4. QED
  BY <1>1, <1>2, <1>3 DEF IInv

-----------------------------------------------------------------------------
(* park() computes an entry that a quarantine outlasts. *)
LEMMA ParkIsSet ==
  ASSUME clock \in 0..MaxTime, NEW a \in Accounts, NEW t \in Resets, Park(a, t)
  PROVE  \E s \in ParkStates : Set(a, s)
BY PoolAssumption DEF Park, ParkStates, Forever

(* pick() clears expired entries of pool members and pins the chat, if any. *)
LEMMA PickEffects ==
  ASSUME IInv, NEW k \in Chats \cup {NoChat}, NEW excluded \in SUBSET Accounts, NEW low \in SUBSET Accounts,
         NEW a \in clients, Pick(k, excluded, low, a), UNCHANGED <<clock, parkRow, pinRow, parkWrites>>
  PROVE  ParkEffect /\ PinEffect
<1>1. clients \in SUBSET Accounts
  BY DEF IInv, OtherTypes
<1>2. \E asked \in SUBSET Accounts : parked' = Cleared(asked)
  BY <1>1 DEF Pick
<1>3. ParkEffect
  BY <1>2 DEF ParkEffect
<1>4. PinEffect
  BY <1>1 DEF Pick, PinEffect
<1>5. QED
  BY <1>3, <1>4

(* drop_account() unpins a chat or releases the account's park entry. *)
LEMMA DropEffects ==
  ASSUME IInv, NEW a \in Accounts, NEW keys \in SUBSET Chats,
         DropNext(a, keys), UNCHANGED <<clock, parkRow, pinRow>>
  PROVE  /\ ParkEffect /\ PinEffect
         /\ removal' \in [Accounts -> {"none", "dropping"}]
         /\ dropping' \in [Accounts -> SUBSET Chats]
<1>1. 0 \in ParkStates
  BY PoolAssumption DEF ParkStates, Forever
<1>2. ParkEffect /\ PinEffect
  BY <1>1 DEF DropNext, Release, ParkEffect, PinEffect
<1>3. /\ removal' \in [Accounts -> {"none", "dropping"}]
      /\ dropping' \in [Accounts -> SUBSET Chats]
  BY DEF DropNext, IInv, OtherTypes
<1>4. QED
  BY <1>2, <1>3

(* A step of a call keeps the invariant. *)
LEMMA CallSteps ==
  ASSUME IInv, NEW c \in Calls, CallStep(c)
  PROVE  ParkEffect /\ PinEffect /\ OtherTypes' /\ Placed'
<1> USE DEF memory, durable, background, leaving, bounds
<1>0. /\ clock \in 0..MaxTime /\ clients \in SUBSET Accounts
      /\ call \in [Calls -> CallRecords]
      /\ IdleCall \in CallRecords /\ IdleCall.pc = "idle"
      /\ call[c].pc # "idle" => call[c].account \in Accounts
  BY DEF IInv, OtherTypes, Placed, IdleCall, CallRecords
<1>1. ASSUME NEW excluded \in SUBSET Barrable, NEW low \in SUBSET (Barrable \ excluded),
             NewChat(c, excluded, low)
      PROVE  ParkEffect /\ PinEffect /\ OtherTypes' /\ Placed'
  <2>1. PICK a \in clients :
          /\ Pick(NoChat, excluded, low, a)
          /\ call' = [call EXCEPT ![c] = [pc |-> "creating", chat |-> NoChat, account |-> a]]
    BY <1>1 DEF NewChat
  <2>2. ParkEffect /\ PinEffect
    BY <1>1, <2>1, PickEffects, PoolAssumption DEF NewChat
  <2>3. OtherTypes' /\ Placed'
    BY <1>0, <1>1, <2>1 DEF NewChat, IInv, OtherTypes, Placed, CallRecords
  <2>4. QED
    BY <2>2, <2>3
<1>2. ASSUME NEW excluded \in SUBSET Barrable, NEW low \in SUBSET (Barrable \ excluded),
             NEW k \in Chats, Continue(c, k, excluded, low)
      PROVE  ParkEffect /\ PinEffect /\ OtherTypes' /\ Placed'
  <2>1. PICK a \in clients :
          /\ Pick(k, excluded, low, a)
          /\ call' = [call EXCEPT ![c] = [pc |-> "sending", chat |-> k, account |-> a]]
    BY <1>2 DEF Continue
  <2>2. ParkEffect /\ PinEffect
    BY <1>2, <2>1, PickEffects, PoolAssumption DEF Continue
  <2>3. OtherTypes' /\ Placed'
    BY <1>0, <1>2, <2>1 DEF Continue, IInv, OtherTypes, Placed, CallRecords
  <2>4. QED
    BY <2>2, <2>3
<1>3. ASSUME NEW k \in Chats, ChatCreated(c, k)
      PROVE  ParkEffect /\ PinEffect /\ OtherTypes' /\ Placed'
  <2>1. ParkEffect /\ PinEffect
    BY <1>0, <1>3 DEF ChatCreated, ParkEffect, PinEffect
  <2>2. OtherTypes' /\ Placed'
    BY <1>0, <1>3 DEF ChatCreated, IInv, OtherTypes, Placed, CallRecords
  <2>3. QED
    BY <2>1, <2>2
<1>4. CASE Answered(c)
  <2>1. ParkEffect /\ PinEffect
    BY <1>4 DEF Answered, ParkEffect, PinEffect
  <2>2. OtherTypes' /\ Placed'
    BY <1>0, <1>4 DEF Answered, Return, IInv, OtherTypes, Placed
  <2>3. QED
    BY <2>1, <2>2
<1>5. CASE SessionExpired(c)
  <2>1. ParkEffect /\ PinEffect
    BY <1>5 DEF SessionExpired, ParkEffect, PinEffect
  <2>2. OtherTypes' /\ Placed'
    BY <1>0, <1>5, PoolAssumption DEF SessionExpired, Return, Report, IInv, OtherTypes, Placed
  <2>3. QED
    BY <2>1, <2>2
<1>6. ASSUME NEW t \in Resets, LimitReached(c, t)
      PROVE  ParkEffect /\ PinEffect /\ OtherTypes' /\ Placed'
  <2>1. ParkEffect /\ PinEffect
    BY <1>6 DEF LimitReached, ParkEffect, PinEffect
  <2>2. OtherTypes' /\ Placed'
    BY <1>0, <1>6, PoolAssumption DEF LimitReached, Return, Report, IInv, OtherTypes, Placed
  <2>3. QED
    BY <2>1, <2>2
<1>7. ASSUME NEW t \in Resets, RateLimited(c, t)
      PROVE  ParkEffect /\ PinEffect /\ OtherTypes' /\ Placed'
  <2>1. \E s \in ParkStates : Set(call[c].account, s)
    BY <1>0, <1>7, ParkIsSet DEF RateLimited
  <2>2. ParkEffect /\ PinEffect
    BY <1>0, <1>7, <2>1 DEF RateLimited, ParkEffect, PinEffect
  <2>3. OtherTypes' /\ Placed'
    BY <1>0, <1>7, PoolAssumption DEF RateLimited, Return, Report, IInv, OtherTypes, Placed
  <2>4. QED
    BY <2>2, <2>3
<1>8. QED
  BY <1>1, <1>2, <1>3, <1>4, <1>5, <1>6, <1>7 DEF CallStep

(* A step of an account - a bus handler, a relogin task, add(), remove()   *)
(* or one of its store calls - keeps the invariant.                        *)
LEMMA AccountSteps ==
  ASSUME IInv, NEW a \in Accounts, AccountStep(a)
  PROVE  ParkEffect /\ PinEffect /\ OtherTypes' /\ Placed'
<1> USE DEF memory, durable, background, leaving, bounds
<1>0. clock \in 0..MaxTime /\ 0 \in ParkStates /\ Forever \in ParkStates
  BY PoolAssumption DEF IInv, OtherTypes, ParkStates, Forever
<1>1. ASSUME NEW t \in Resets, OnLimit(a, t)
      PROVE  ParkEffect /\ PinEffect /\ OtherTypes' /\ Placed'
  <2>1. \E s \in ParkStates : Set(a, s)
    BY <1>0, <1>1, ParkIsSet DEF OnLimit
  <2>2. ParkEffect /\ PinEffect
    BY <1>1, <2>1 DEF OnLimit, ParkEffect, PinEffect
  <2>3. OtherTypes' /\ Placed'
    BY <1>1 DEF OnLimit, IInv, OtherTypes, Placed
  <2>4. QED
    BY <2>2, <2>3
<1>2. CASE OnExpired(a)
  <2>1. ParkEffect /\ PinEffect
    BY <1>0, <1>2 DEF OnExpired, Quarantine, ParkEffect, PinEffect
  <2>2. OtherTypes' /\ Placed'
    BY <1>2 DEF OnExpired, IInv, OtherTypes, Placed
  <2>3. QED
    BY <2>1, <2>2
<1>3. ASSUME NEW success \in BOOLEAN, RunRelogin(a, success)
      PROVE  ParkEffect /\ PinEffect /\ OtherTypes' /\ Placed'
  <2>1. PinEffect /\ OtherTypes' /\ Placed'
    BY <1>3 DEF RunRelogin, IInv, OtherTypes, Placed, PinEffect
  <2>2. CASE success
    BY <1>0, <1>3, <2>1, <2>2 DEF RunRelogin, Release, ParkEffect
  <2>3. CASE ~success
    BY <1>3, <2>1, <2>3 DEF RunRelogin, ParkEffect
  <2>4. QED
    BY <2>2, <2>3
<1>4. CASE Add(a)
  BY <1>4 DEF Add, IInv, OtherTypes, Placed, ParkEffect, PinEffect
<1>5. CASE Remove(a)
  <2>1. /\ DropNext(a, {k \in Chats : pin[k] = a})
        /\ UNCHANGED <<clock, parkRow, pinRow>>
    BY <1>5 DEF Remove
  <2>2. /\ ParkEffect /\ PinEffect
        /\ removal' \in [Accounts -> {"none", "dropping"}]
        /\ dropping' \in [Accounts -> SUBSET Chats]
    BY <2>1, DropEffects
  <2>3. OtherTypes' /\ Placed'
    BY <1>5, <2>2 DEF Remove, IInv, OtherTypes, Placed
  <2>4. QED
    BY <2>2, <2>3
<1>6. CASE DropMore(a)
  <2>1. dropping[a] \in SUBSET Chats /\ DropNext(a, dropping[a]) /\ UNCHANGED <<clock, parkRow, pinRow>>
    BY <1>6 DEF DropMore, IInv, OtherTypes
  <2>2. /\ ParkEffect /\ PinEffect
        /\ removal' \in [Accounts -> {"none", "dropping"}]
        /\ dropping' \in [Accounts -> SUBSET Chats]
    BY <2>1, DropEffects
  <2>3. OtherTypes' /\ Placed'
    BY <1>6, <2>2 DEF DropMore, IInv, OtherTypes, Placed
  <2>4. QED
    BY <2>2, <2>3
<1>7. CASE ParkWritten(a)
  BY <1>7 DEF ParkWritten, IInv, OtherTypes, Placed, ParkEffect, PinEffect
<1>8. QED
  BY <1>1, <1>2, <1>3, <1>4, <1>5, <1>6, <1>7 DEF AccountStep

(* Every step keeps the invariant. *)
LEMMA StepIInv == IInv /\ [Next]_vars => IInv'
<1> SUFFICES ASSUME IInv, [Next]_vars PROVE IInv'
  OBVIOUS
<1> USE DEF memory, durable, background, leaving, bounds
<1>1. ParkEffect /\ PinEffect /\ OtherTypes' /\ Placed'
  <2>1. CASE \E c \in Calls : CallStep(c)
    BY <2>1, CallSteps
  <2>2. CASE \E a \in Accounts : AccountStep(a)
    BY <2>2, AccountSteps
  <2>3. ASSUME NEW k \in Chats, PinWritten(k)
        PROVE  ParkEffect /\ PinEffect /\ OtherTypes' /\ Placed'
    BY <2>3 DEF PinWritten, IInv, OtherTypes, Placed, ParkEffect, PinEffect
  <2>4. CASE Tick
    <3>1. ParkEffect /\ PinEffect
      BY <2>4 DEF Tick, ParkEffect, PinEffect
    <3>2. OtherTypes' /\ Placed'
      BY <2>4, PoolAssumption DEF Tick, IInv, OtherTypes, Placed
    <3>3. QED
      BY <3>1, <3>2
  <2>5. CASE Restart
    <3>1. ParkEffect /\ PinEffect
      BY <2>5 DEF ParkEffect, PinEffect
    <3>2. OtherTypes' /\ Placed'
      BY <2>5, PoolAssumption DEF Restart, IInv, OtherTypes, Placed, IdleCall, CallRecords
    <3>3. QED
      BY <3>1, <3>2
  <2>6. ASSUME NEW excluded \in SUBSET Barrable, PickFails(excluded)
        PROVE  ParkEffect /\ PinEffect /\ OtherTypes' /\ Placed'
    <3>1. OtherTypes' /\ Placed' /\ PinEffect
      BY <2>6 DEF PickFails, IInv, OtherTypes, Placed, PinEffect
    <3>2. clients \ excluded \in SUBSET Accounts
      BY DEF IInv, OtherTypes
    <3>3. ParkEffect
      BY <2>6, <3>2 DEF PickFails, ParkEffect
    <3>4. QED
      BY <3>1, <3>3
  <2>7. CASE UNCHANGED vars
    BY <2>7 DEF vars, IInv, OtherTypes, Placed, ParkEffect, PinEffect
  <2>8. QED
    BY <2>1, <2>2, <2>3, <2>4, <2>5, <2>6, <2>7 DEF Next
<1>2. ParkTypes' /\ ParkLog'
  BY <1>1, ParksKept DEF IInv, OtherTypes
<1>3. PinTypes' /\ PinLog'
  BY <1>1, PinsKept DEF IInv
<1>4. QED
  BY <1>1, <1>2, <1>3 DEF IInv

(* The invariant holds in every reachable state. *)
LEMMA InvariantIInv == Spec => []IInv
BY InitIInv, StepIInv, PTL DEF Spec

-----------------------------------------------------------------------------
(* All state of the pool and its trackers keeps its type; in particular no *)
(* timed park ever reaches the value that stands for a quarantine's end.   *)
THEOREM TypeCorrect == Spec => []TypeOK
<1>1. IInv => TypeOK
  BY DEF IInv, ParkTypes, PinTypes, OtherTypes, CallRecords, TypeOK
<1>2. QED
  BY <1>1, InvariantIInv, PTL

(* load() rebuilds every account's availability, for any overlap of parks, *)
(* quarantines, relogins, removals and restarts, over a store that serves  *)
(* the calls for one key in order.                                         *)
THEOREM RestartAgreesHolds == Spec => []RestartAgrees
<1>1. ASSUME IInv PROVE RestartAgrees
  <2> SUFFICES ASSUME NEW a \in Accounts, parkWrites[a] = <<>> PROVE Alike(Loaded(a), parked[a])
    BY DEF RestartAgrees
  <2>1. Alike(parkRow[a], parked[a])
    BY <1>1 DEF IInv, ParkLog, Final
  <2>2. parkRow[a] \in Nat /\ parked[a] \in Nat /\ clock \in Nat
    BY <1>1, PoolAssumption DEF IInv, ParkTypes, OtherTypes, ParkStates, Forever
  <2>3. QED
    BY <2>1, <2>2 DEF Alike, Loaded
<1>2. QED
  BY <1>1, InvariantIInv, PTL

(* A stored pin is the pin in memory once its store calls have landed. *)
THEOREM PinsDurableHolds == Spec => []PinsDurable
<1>1. IInv => PinsDurable
  BY DEF IInv, PinLog, Final, PinsDurable
<1>2. QED
  BY <1>1, InvariantIInv, PTL
=============================================================================
