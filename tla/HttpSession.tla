----------------------------- MODULE HttpSession -----------------------------
(***************************************************************************)
(* One HttpSession (claude_ai/session/http.py) with its default middleware *)
(* (logging, rate limit, retry), over a transport and a cookie storage.    *)
(* Calls are tasks of one event loop: a step runs from one await to the    *)
(* next.  A jar maps cookie names to versions: the n-th cookie the server  *)
(* sets has version n.                                                     *)
(***************************************************************************)
EXTENDS Naturals, Sequences

CONSTANTS
    Calls,         \* the calls made on the session
    CookieNames,   \* names of the cookies the server rotates
    Initial,       \* the jar given to the constructor
    MaxRetries,    \* settings.max_retries
    MinInterval,   \* RateLimitMiddleware.min_interval
    MaxTime,       \* bound on the idle time
    MaxVersion     \* bound on the cookies the server sets

ASSUME SessionAssumption ==
    /\ MaxRetries \in Nat /\ MinInterval \in Nat /\ MaxTime \in Nat /\ MaxVersion \in Nat
    /\ DOMAIN Initial \subseteq CookieNames
    /\ Initial \in [DOMAIN Initial -> {0}]   \* older than what the server sets

VARIABLES
    opened,   \* HttpSession._opened
    jar,      \* HttpSession._cookies
    store,    \* the account's row in the cookie storage
    writes,   \* whole-row writes the storage has queued, in order
    version,  \* how many cookies the server has set (external)
    last,     \* RateLimitMiddleware._last_request
    now,      \* time.monotonic()
    storage,  \* "lock": memory, file; "thread": SQLite; "pool": MongoDB
    strayed,  \* which orders CookiesAgree does not speak of were met (history)
    call      \* per call: where it stands and what it has read

sessionVars == <<opened, jar, store, writes, version, last, now, storage, strayed, call>>

NoCall == [pc |-> "idle", op |-> <<>>, row |-> <<>>, slot |-> 0, attempt |-> 0,
           status |-> "none", out |-> "none"]

\* A new session, or one whose first call has taken the slot of this moment.
SessionInit ==
    /\ storage \in {"lock", "thread", "pool"}
    /\ writes = <<>> /\ version = 0 /\ strayed = {}
    /\ store = [n \in CookieNames |-> 0]
    /\ now = MinInterval  \* the clock has been running for longer
    /\ \/ opened = FALSE /\ jar = <<>> /\ last = 0
       \/ opened = TRUE /\ jar = store /\ last = now
    /\ call = [c \in Calls |-> NoCall]

\* {**old, **new}
Merge(old, new) == [n \in DOMAIN old \cup DOMAIN new |->
                      IF n \in DOMAIN new THEN new[n] ELSE old[n]]

Later(a, b) == IF a >= b THEN a ELSE b

\* RateLimitMiddleware: the next slot, min_interval after the last one.
Slot == Later(now, last + MinInterval)

\* Mutant of Launch: the slot is remembered as the moment it was asked for.
LaunchForgetsWait(c, op) ==
    LET slot == Slot
    IN /\ last' = now
       /\ call' = [call EXCEPT
            ![c].op = op, ![c].row = <<>>, ![c].slot = slot,
            ![c].pc = IF slot > now THEN "wait" ELSE "sent",
            ![c].attempt = IF slot > now THEN 0 ELSE 1]

\* _build_transport_request and the middleware chain up to its first await.
\* RateLimitMiddleware takes the slot under its lock and waits after it; a
\* call that need not wait is with the transport at once.
Launch(c, op) ==
    LET slot == Slot
    IN /\ last' = slot
       /\ call' = [call EXCEPT
            ![c].op = op, ![c].row = <<>>, ![c].slot = slot,
            ![c].pc = IF slot > now THEN "wait" ELSE "sent",
            ![c].attempt = IF slot > now THEN 0 ELSE 1]

\* The session is open.  open() on its own returns and saves nothing more.
Proceed(c, op) ==
    IF op.mode # "open" THEN Launch(c, op)
    ELSE /\ call' = [call EXCEPT ![c].op = op, ![c].row = <<>>, ![c].pc = "done",
                                 ![c].out = op.reply]
         /\ last' = last

\* request(), stream() and multipart() open the session when nobody has.
\* Nothing keeps a second call from doing the same meanwhile.
Enter(c, op) ==
    IF opened THEN Proceed(c, op)
    ELSE /\ call' = [call EXCEPT ![c].op = op, ![c].pc = "load"]
         /\ last' = last

---------------------------------------------------------------------------
(* open() and close() *)

OpenLoad(c) ==
    /\ call[c].pc = "load"
    /\ call' = [call EXCEPT ![c].pc = "assign", ![c].row = store]
    /\ UNCHANGED <<opened, jar, store, writes, version, last, now, storage, strayed>>

\* {**stored, **initial}: the jar in memory is replaced.
OpenAssign(c) ==
    /\ call[c].pc = "assign"
    /\ jar' = Merge(call[c].row, Initial)
    /\ IF Initial = <<>>
         THEN opened' = TRUE /\ Proceed(c, call[c].op)
         ELSE /\ call' = [call EXCEPT ![c].pc = "update", ![c].row = <<>>]
              /\ UNCHANGED <<opened, last>>
    /\ UNCHANGED <<store, writes, version, now, storage, strayed>>

\* What update() makes of the row.
Merged(row) == Merge(row, Initial)

\* BaseCookieStorage.update: merged under the lock (memory, file), or loaded
\* here and saved with a later statement (SQLite, MongoDB).
OpenUpdate(c) ==
    /\ call[c].pc = "update"
    /\ IF storage = "lock"
         THEN /\ store' = Merged(store) /\ opened' = TRUE
              /\ Proceed(c, call[c].op) /\ writes' = writes
         ELSE /\ writes' = Append(writes, [by |-> c, row |-> Merged(store)])
              /\ call' = [call EXCEPT ![c].pc = "opening"]
              /\ UNCHANGED <<store, opened, last>>
    /\ UNCHANGED <<jar, version, now, storage, strayed>>

\* The next call opens the session again.
Close ==
    /\ opened
    /\ opened' = FALSE
    /\ UNCHANGED <<jar, store, writes, version, last, now, storage, strayed, call>>

---------------------------------------------------------------------------
(* RateLimitMiddleware, RetryMiddleware and the transport *)

\* MaxTime bounds the idle time only: a slot that was given comes.
Tick ==
    /\ now < MaxTime \/ \E c \in Calls : call[c].pc = "wait" /\ now < call[c].slot
    /\ now' = now + 1
    /\ UNCHANGED <<opened, jar, store, writes, version, last, call, storage, strayed>>

\* The slot has come: transport.send.
Send(c) ==
    /\ call[c].pc = "wait" /\ now >= call[c].slot
    /\ call' = [call EXCEPT ![c].pc = "sent", ![c].attempt = @ + 1]
    /\ UNCHANGED <<opened, jar, store, writes, version, last, now, storage, strayed>>

\* The backoff is over, or what Retry-After asked for: the same request again.
SendAgain(c) ==
    /\ call[c].pc = "backoff"
    /\ call' = [call EXCEPT ![c].pc = "sent", ![c].attempt = @ + 1]
    /\ UNCHANGED <<opened, jar, store, writes, version, last, now, storage, strayed>>

\* A status below 400, one that may be retried, any other one; raise_for_status
\* makes an exception of the last two.
Statuses == {"ok", "busy", "denied"}

RetryableVerbs == {"GET", "HEAD", "OPTIONS", "PUT", "DELETE"}

\* Mutants of Repeats: any verb; one attempt too many.
RepeatsAnyVerb(c, status) ==
    /\ call[c].op.mode # "stream"
    /\ status = "busy"
    /\ call[c].attempt <= MaxRetries
RepeatsOnceMore(c, status) ==
    /\ call[c].op.mode # "stream"
    /\ call[c].op.verb \in RetryableVerbs
    /\ status = "busy"
    /\ call[c].attempt <= MaxRetries + 1

\* RetryMiddleware.__call__: repeat a retryable status of an idempotent verb.
\* It sees a stream only before it is sent, with the status of a no-op.
Repeats(c, status) ==
    /\ call[c].op.mode # "stream"
    /\ call[c].op.verb \in RetryableVerbs
    /\ status = "busy"
    /\ call[c].attempt <= MaxRetries

\* cookies_from_set_cookie: both transports put the headers into a dict, where
\* one Set-Cookie survives, and a malformed one is ignored.
SetCookies == {{}} \cup {{n} : n \in CookieNames}

\* _absorb_set_cookie; transport.stream() does not look at the headers.
Absorb(c, names) ==
    IF call[c].op.mode = "stream" \/ names = {} THEN UNCHANGED <<jar, version>>
    ELSE /\ version < MaxVersion
         /\ version' = version + 1
         /\ jar' = Merge(jar, [n \in names |-> version + 1])

\* Mutant of Answer: an error is raised before the cookies are saved.
AnswerRaisesFirst(c, status, names) ==
    LET next == IF Repeats(c, status) THEN "backoff"
                ELSE IF call[c].op.mode = "stream" \/ status # "ok" THEN "parse" ELSE "saving"
    IN /\ call[c].pc = "sent"
       /\ Absorb(c, names)
       /\ writes' = IF next = "saving" THEN Append(writes, [by |-> c, row |-> jar'])
                    ELSE writes
       /\ call' = [call EXCEPT ![c].pc = next,
                               ![c].status = IF next = "backoff" THEN "none" ELSE status]
       /\ UNCHANGED <<opened, store, last, now, storage, strayed>>

\* An answer is absorbed; then it is retried, or the jar of this moment is
\* given to save(); stream() goes on to the status at once.
Answer(c, status, names) ==
    LET next == IF Repeats(c, status) THEN "backoff"
                ELSE IF call[c].op.mode = "stream" THEN "parse" ELSE "saving"
    IN /\ call[c].pc = "sent"
       /\ Absorb(c, names)
       /\ writes' = IF next = "saving" THEN Append(writes, [by |-> c, row |-> jar'])
                    ELSE writes
       /\ call' = [call EXCEPT ![c].pc = next,
                               ![c].status = IF next = "backoff" THEN "none" ELSE status]
       /\ UNCHANGED <<opened, store, last, now, storage, strayed>>

\* No answer: NetworkError, which is none of RETRYABLE_EXCEPTIONS, or the
\* total timeout.  The call raises and nothing is saved.
Lose(c) ==
    /\ call[c].pc = "sent"
    /\ call' = [call EXCEPT ![c].pc = "done", ![c].out = "lost"]
    /\ UNCHANGED <<opened, jar, store, writes, version, last, now, storage, strayed>>

---------------------------------------------------------------------------
\* s without its i-th element.
Without(s, i) == [j \in 1..Len(s) - 1 |-> IF j < i THEN s[j] ELSE s[j + 1]]

\* The storage carries out a write and wakes the writer: the oldest one (a
\* lock, or the single thread of the connection), or any (the connections of
\* MongoDB's pool), which is recorded.
Land ==
    /\ \E i \in 1..Len(writes) :
         LET w == writes[i]
         IN /\ i = 1 \/ storage = "pool"
            /\ strayed' = IF i = 1 THEN strayed ELSE strayed \cup {"order"}
            /\ store' = w.row
            /\ writes' = Without(writes, i)
            /\ IF call[w.by].pc = "opening"
                 THEN opened' = TRUE /\ Proceed(w.by, call[w.by].op)
                 ELSE /\ call' = [call EXCEPT ![w.by].pc = "parse"]
                      /\ UNCHANGED <<opened, last>>
    /\ UNCHANGED <<jar, version, now, storage>>

\* _parse: raise_for_status, or the reply as the method reads it; a pydantic
\* model may refuse the body.
Parsed(c) ==
    IF call[c].status # "ok" THEN {"error"}
    ELSE {call[c].op.reply} \cup
         (IF call[c].op.reply = "model" THEN {"error"} ELSE {})

=============================================================================
