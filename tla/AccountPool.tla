---------------------------- MODULE AccountPool ----------------------------
(***************************************************************************)
(* Routing over the account pool: AvailabilityTracker (scheduling.py),     *)
(* AffinityTracker (affinity.py) and the operations of ClaudeOrchestrator  *)
(* that use them (orchestrator.py), all in claude_ai/orchestrator/.        *)
(*                                                                         *)
(* Both trackers change their memory at once and then await a store call;  *)
(* several such calls may be under way.  Limit and expiry events reach the *)
(* trackers through the worker-mode bus: late, and in any order.  A        *)
(* restart loses everything but the store.                                 *)
(***************************************************************************)
EXTENDS Naturals, Sequences, FiniteSets

CONSTANTS
  Accounts,      \* account ids
  Chats,         \* conversation uuids, used as affinity keys
  Calls,         \* concurrent send_message() or task calls
  NoAccount,     \* no pin
  NoChat,        \* a call whose conversation does not exist yet
  Barrable,      \* accounts a pick() may leave out (`exclude`, `min_tier`)
  Resets,        \* the reset times that answers and limit events carry
  Cooldown,      \* AvailabilityTracker._default_cooldown
  MaxTime,       \* bound: the clock stops here
  MaxWrites,     \* bound: store calls under way at once
  MaxReports,    \* bound: limit, 429 and 401 answers in a behaviour
  MaxRestarts    \* bound: restarts in a behaviour

ASSUME PoolAssumption ==
  /\ NoAccount \notin Accounts
  /\ NoChat \notin Chats
  /\ Barrable \subseteq Accounts
  /\ Resets \subseteq 0..MaxTime
  /\ Cooldown \in Nat \ {0}
  /\ MaxTime \in Nat /\ MaxWrites \in Nat /\ MaxReports \in Nat /\ MaxRestarts \in Nat

VARIABLES
  clock,
  clients,              \* ClaudeOrchestrator._clients
  parked, pin,          \* the trackers' memory
  parkRow, pinRow,      \* their store namespaces
  parkWrites, pinWrites,\* store calls under way, in the order they were made
  limits, expired,      \* LimitUpdatedEvent and AccountExpiredEvent on the bus
  relogins,             \* relogin tasks per account
  removal, dropping,    \* where remove() is, and the keys drop_account has left
  call,                 \* where each call is, its chat and its account
  owner,                \* the account each conversation was created on
  reports, restarts     \* how many there were

memory == <<clients, parked, pin>>
durable == <<parkRow, pinRow, parkWrites, pinWrites>>
background == <<limits, expired, relogins>>
leaving == <<removal, dropping>>
bounds == <<reports, restarts>>
vars == <<clock, memory, durable, background, leaving, call, owner, bounds>>

\* A ParkState: 0 is no entry, Forever a quarantine, anything else `until`.
Forever == MaxTime + Cooldown + 1
ParkStates == 0..Forever
IdleCall == [pc |-> "idle", chat |-> NoChat, account |-> NoAccount]

Init ==
  /\ clock = 0
  /\ clients = Accounts
  /\ parked = [a \in Accounts |-> 0] /\ parkRow = parked
  /\ pin = [k \in Chats |-> NoAccount] /\ pinRow = pin
  /\ parkWrites = [a \in Accounts |-> <<>>]
  /\ pinWrites = [k \in Chats |-> <<>>]
  /\ limits = [a \in Accounts |-> {}]
  /\ expired = [a \in Accounts |-> 0]
  /\ relogins = [a \in Accounts |-> 0]
  /\ removal = [a \in Accounts |-> "none"]
  /\ dropping = [a \in Accounts |-> {}]
  /\ call = [c \in Calls |-> IdleCall]
  /\ owner = [k \in Chats |-> NoAccount]
  /\ reports = 0 /\ restarts = 0

\* How many store calls are under way.
Outstanding ==
  Cardinality({w \in Accounts \X (1..MaxWrites) : w[2] <= Len(parkWrites[w[1]])})
    + Cardinality({w \in Chats \X (1..MaxWrites) : w[2] <= Len(pinWrites[w[1]])})

-----------------------------------------------------------------------------
(* AvailabilityTracker *)

Available(a) == parked[a] <= clock

Set(a, state) ==
  /\ Outstanding < MaxWrites
  /\ parked' = [parked EXCEPT ![a] = state]
  /\ parkWrites' = [parkWrites EXCEPT ![a] = Append(@, state)]

\* Mutation: an epoch in milliseconds is taken for seconds.
ParkMilliseconds(a, until) == Set(a, IF until <= clock THEN clock + Cooldown ELSE until * 1000)

\* `until` 0 stands for None.
Park(a, until) == Set(a, IF until <= clock THEN clock + Cooldown ELSE until)

Quarantine(a) == Set(a, Forever)

\* Mutation: the entry is dropped from memory only.
ReleaseMemory(a) ==
  /\ parked' = [parked EXCEPT ![a] = 0]
  /\ UNCHANGED parkWrites

Release(a) == Set(a, 0)

\* is_available() deletes the expired entries of the accounts it is asked about.
Cleared(asked) ==
  [a \in Accounts |-> IF a \in asked /\ Available(a) THEN 0 ELSE parked[a]]

\* load() keeps quarantines and running parks, and deletes the other rows.
Loaded(a) == IF parkRow[a] > clock THEN parkRow[a] ELSE 0

-----------------------------------------------------------------------------
(* AffinityTracker *)

\* Mutation: a re-pin is not stored.
PinFirst(k, a) ==
  /\ pin' = [pin EXCEPT ![k] = a]
  /\ pinWrites' = [pinWrites EXCEPT ![k] = IF pin[k] = NoAccount THEN Append(@, a) ELSE @]

Pin(k, a) ==
  /\ Outstanding < MaxWrites
  /\ pin' = [pin EXCEPT ![k] = a]
  /\ pinWrites' = [pinWrites EXCEPT ![k] = IF pin[k] = a THEN @ ELSE Append(@, a)]

Unpin(k) ==
  /\ Outstanding < MaxWrites
  /\ pin' = [pin EXCEPT ![k] = NoAccount]
  /\ pinWrites' = [pinWrites EXCEPT ![k] = Append(@, NoAccount)]

-----------------------------------------------------------------------------
(* pick() and its callers *)

\* An account in the pool, not `excluded`, not of a too `low` tier.
Usable(a, excluded, low) == a \in clients \ (excluded \cup low) /\ Available(a)

\* The account pick() returns for chat k, or for none, and what it leaves
\* behind: expired parks cleared, the chat pinned.
Pick(k, excluded, low, a) ==
  LET kept == k # NoChat /\ pin[k] # NoAccount /\ Usable(pin[k], excluded, low)
  IN  /\ Usable(a, excluded, low)
      /\ kept => a = pin[k]
      /\ parked' = Cleared(IF kept THEN {a} ELSE clients \ excluded)
      /\ IF k = NoChat THEN UNCHANGED <<pin, pinWrites>> ELSE Pin(k, a)

\* pick() raises NoAvailableAccounts after asking about every candidate: the
\* available ones, if any, are of too low a tier.
PickFails(excluded) ==
  /\ clients # {} /\ \A a \in clients \ excluded : Available(a) => a \in Barrable
  /\ parked' = Cleared(clients \ excluded)
  /\ UNCHANGED <<clock, clients, pin, durable, background, leaving, call, owner, bounds>>

\* send_message(conv_uuid=None): the conversation is created on the picked
\* account, and pinned to it once it exists.  Also a task without a key.
NewChat(c, excluded, low) ==
  /\ call[c] = IdleCall
  /\ \E a \in clients :
       /\ Pick(NoChat, excluded, low, a)
       /\ call' = [call EXCEPT ![c] = [pc |-> "creating", chat |-> NoChat, account |-> a]]
  /\ UNCHANGED <<clock, clients, parkRow, pinRow, parkWrites, background, leaving, owner, bounds>>

ChatCreated(c, k) ==
  /\ call[c].pc = "creating" /\ owner[k] = NoAccount
  /\ owner' = [owner EXCEPT ![k] = call[c].account]
  /\ Pin(k, call[c].account)
  /\ call' = [call EXCEPT ![c] = [pc |-> "sending", chat |-> k, account |-> call[c].account]]
  /\ UNCHANGED <<clock, clients, parked, parkRow, pinRow, parkWrites, background, leaving, bounds>>

\* send_message(conv_uuid=k), or a task with that affinity key.
Continue(c, k, excluded, low) ==
  /\ call[c] = IdleCall /\ owner[k] # NoAccount
  /\ \E a \in clients :
       /\ Pick(k, excluded, low, a)
       /\ call' = [call EXCEPT ![c] = [pc |-> "sending", chat |-> k, account |-> a]]
  /\ UNCHANGED <<clock, clients, parkRow, pinRow, parkWrites, background, leaving, owner, bounds>>

Return(c) == call' = [call EXCEPT ![c] = IdleCall]

\* The answer carries nothing the trackers care about, or is another error.
Answered(c) ==
  /\ call[c].pc # "idle"
  /\ Return(c)
  /\ UNCHANGED <<clock, memory, durable, background, leaving, owner, bounds>>

Report == reports < MaxReports /\ reports' = reports + 1

\* A message_limit event in the stream says a window is exhausted until t.
LimitReached(c, t) ==
  /\ call[c].pc = "sending" /\ Report
  /\ limits' = [limits EXCEPT ![call[c].account] = @ \cup {t}]
  /\ UNCHANGED <<clock, memory, durable, expired, relogins, leaving, call, owner, restarts>>

\* 429: the executor parks the account itself.
RateLimited(c, t) ==
  /\ call[c].pc # "idle" /\ Report
  /\ Park(call[c].account, t)
  /\ Return(c)
  /\ UNCHANGED <<clock, clients, pin, parkRow, pinRow, pinWrites, background, leaving, owner, restarts>>

\* 401: report_expired() publishes an event.
SessionExpired(c) ==
  /\ call[c].pc # "idle" /\ Report
  /\ expired' = [expired EXCEPT ![call[c].account] = @ + 1]
  /\ Return(c)
  /\ UNCHANGED <<clock, memory, durable, limits, relogins, leaving, owner, restarts>>

-----------------------------------------------------------------------------
(* Bus handlers and relogin tasks *)

OnLimit(a, t) ==
  /\ t \in limits[a]
  /\ limits' = [limits EXCEPT ![a] = @ \ {t}]
  /\ Park(a, t)
  /\ UNCHANGED <<clock, clients, pin, parkRow, pinRow, pinWrites, expired, relogins, leaving, call, owner, bounds>>

\* on_expired and _on_account_expired run side by side.
OnExpired(a) ==
  /\ expired[a] > 0
  /\ expired' = [expired EXCEPT ![a] = @ - 1]
  /\ Quarantine(a)
  /\ relogins' = [relogins EXCEPT ![a] = IF a \in clients THEN @ + 1 ELSE @]
  /\ UNCHANGED <<clock, clients, pin, parkRow, pinRow, pinWrites, limits, leaving, call, owner, bounds>>

RunRelogin(a, success) ==
  /\ relogins[a] > 0
  /\ relogins' = [relogins EXCEPT ![a] = @ - 1]
  /\ IF success THEN Release(a) ELSE UNCHANGED <<parked, parkWrites>>
  /\ UNCHANGED <<clock, clients, pin, parkRow, pinRow, pinWrites, limits, expired, leaving, call, owner, bounds>>

-----------------------------------------------------------------------------
(* add() and remove() *)

Add(a) ==
  /\ a \notin clients
  /\ clients' = clients \cup {a}
  /\ UNCHANGED <<clock, parked, pin, durable, background, leaving, call, owner, bounds>>

\* drop_account() up to its next store call: the next key, whatever it is
\* pinned to by now, is deleted - a KeyError if it is gone - and after the
\* last one the account's park entry is released.
DropNext(a, keys) ==
  \/ /\ keys = {}
     /\ Release(a)
     /\ removal' = [removal EXCEPT ![a] = "none"]
     /\ dropping' = [dropping EXCEPT ![a] = {}]
     /\ UNCHANGED <<pin, pinWrites>>
  \/ \E k \in keys :
       /\ pin[k] # NoAccount
       /\ Unpin(k)
       /\ removal' = [removal EXCEPT ![a] = "dropping"]
       /\ dropping' = [dropping EXCEPT ![a] = keys \ {k}]
       /\ UNCHANGED <<parked, parkWrites>>
  \/ \E k \in keys :
       /\ pin[k] = NoAccount
       /\ removal' = [removal EXCEPT ![a] = "none"]
       /\ dropping' = [dropping EXCEPT ![a] = {}]
       /\ UNCHANGED <<parked, parkWrites, pin, pinWrites>>

Remove(a) ==
  /\ removal[a] = "none"
  /\ clients' = clients \ {a}
  /\ DropNext(a, {k \in Chats : pin[k] = a})
  /\ UNCHANGED <<clock, parkRow, pinRow, background, call, owner, bounds>>

DropMore(a) ==
  /\ removal[a] = "dropping"
  /\ DropNext(a, dropping[a])
  /\ UNCHANGED <<clock, clients, parkRow, pinRow, background, call, owner, bounds>>

-----------------------------------------------------------------------------
(* The store, the clock, and a restart *)

\* A store that serves the calls for one key in the order they were made.
ParkWritten(a) ==
  /\ parkWrites[a] # <<>>
  /\ parkRow' = [parkRow EXCEPT ![a] = Head(parkWrites[a])]
  /\ parkWrites' = [parkWrites EXCEPT ![a] = Tail(@)]
  /\ UNCHANGED <<clock, memory, pinRow, pinWrites, background, leaving, call, owner, bounds>>

PinWritten(k) ==
  /\ pinWrites[k] # <<>>
  /\ pinRow' = [pinRow EXCEPT ![k] = Head(pinWrites[k])]
  /\ pinWrites' = [pinWrites EXCEPT ![k] = Tail(@)]
  /\ UNCHANGED <<clock, memory, parkRow, parkWrites, background, leaving, call, owner, bounds>>

Tick ==
  /\ clock < MaxTime
  /\ clock' = clock + 1
  /\ UNCHANGED <<memory, durable, background, leaving, call, owner, bounds>>

\* The process dies and start() loads both trackers; the application adds
\* its clients again.
Restart ==
  /\ restarts < MaxRestarts
  /\ restarts' = restarts + 1
  /\ clients' = {}
  /\ parked' = [a \in Accounts |-> Loaded(a)] /\ parkRow' = parked'
  /\ pin' = pinRow /\ UNCHANGED pinRow
  /\ parkWrites' = [a \in Accounts |-> <<>>]
  /\ pinWrites' = [k \in Chats |-> <<>>]
  /\ limits' = [a \in Accounts |-> {}]
  /\ expired' = [a \in Accounts |-> 0]
  /\ relogins' = [a \in Accounts |-> 0]
  /\ removal' = [a \in Accounts |-> "none"]
  /\ dropping' = [a \in Accounts |-> {}]
  /\ call' = [c \in Calls |-> IdleCall]
  /\ UNCHANGED <<clock, owner, reports>>

-----------------------------------------------------------------------------
CallStep(c) ==
  \/ \E excluded \in SUBSET Barrable : \E low \in SUBSET (Barrable \ excluded) :
       NewChat(c, excluded, low) \/ \E k \in Chats : Continue(c, k, excluded, low)
  \/ \E k \in Chats : ChatCreated(c, k)
  \/ Answered(c) \/ SessionExpired(c)
  \/ \E t \in Resets : LimitReached(c, t) \/ RateLimited(c, t)

AccountStep(a) ==
  \/ \E t \in Resets : OnLimit(a, t)
  \/ OnExpired(a) \/ \E success \in BOOLEAN : RunRelogin(a, success)
  \/ Add(a) \/ Remove(a) \/ DropMore(a) \/ ParkWritten(a)

Next ==
  \/ \E c \in Calls : CallStep(c)
  \/ \E a \in Accounts : AccountStep(a)
  \/ \E k \in Chats : PinWritten(k)
  \/ \E excluded \in SUBSET Barrable : PickFails(excluded)
  \/ Tick \/ Restart

Spec == Init /\ [][Next]_vars

-----------------------------------------------------------------------------
(* Every variable stays in its domain. *)
TypeOK ==
  /\ clock \in 0..MaxTime
  /\ clients \in SUBSET Accounts
  /\ parked \in [Accounts -> ParkStates] /\ parkRow \in [Accounts -> ParkStates]
  /\ pin \in [Chats -> Accounts \cup {NoAccount}]
  /\ pinRow \in [Chats -> Accounts \cup {NoAccount}]
  /\ parkWrites \in [Accounts -> Seq(ParkStates)]
  /\ pinWrites \in [Chats -> Seq(Accounts \cup {NoAccount})]
  /\ limits \in [Accounts -> SUBSET Resets]
  /\ expired \in [Accounts -> Nat] /\ relogins \in [Accounts -> Nat]
  /\ removal \in [Accounts -> {"none", "dropping"}]
  /\ dropping \in [Accounts -> SUBSET Chats]
  /\ call \in [Calls -> [pc : {"idle", "creating", "sending"},
                         chat : Chats \cup {NoChat}, account : Accounts \cup {NoAccount}]]
  /\ owner \in [Chats -> Accounts \cup {NoAccount}]
  /\ reports \in 0..MaxReports /\ restarts \in 0..MaxRestarts

\* Two park entries that mean the same now, and from now on.
Alike(x, y) == x = y \/ (x <= clock /\ y <= clock)

(* A restart changes no account's availability: once the store calls for   *)
(* an account have landed, load() rebuilds the park or quarantine that the *)
(* tracker had in memory, expired entries apart, whatever parks,           *)
(* quarantines, relogins and removals overlapped.                          *)
RestartAgrees ==
  \A a \in Accounts : parkWrites[a] = <<>> => Alike(Loaded(a), parked[a])

(* Pins survive a restart: once its store calls have landed, a key's       *)
(* stored pin is the one in memory, through re-pinning by pick(), unpin()  *)
(* and a drop_account() that overlaps them.                                *)
PinsDurable ==
  \A k \in Chats : pinWrites[k] = <<>> => pinRow[k] = pin[k]

(* Quarantine is released only explicitly, by remove() or by a successful  *)
(* relogin: a quarantined account never becomes one that is merely parked. *)
QuarantineHolds ==
  [][\A a \in Accounts : parked[a] = Forever => parked'[a] \in {Forever, 0}]_vars

(* A conversation is continued on the account that created it. *)
ConversationAtHome ==
  \A c \in Calls : call[c].pc = "sending" => call[c].account = owner[call[c].chat]
=============================================================================
