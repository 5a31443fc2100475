------------------------------- MODULE Server -------------------------------
(***************************************************************************)
(* The request-level concurrency of HttpHandler and Server: civetweb       *)
(* worker threads running handleGet / handlePost, the request semaphore    *)
(* (_semaphore, NUM_CONCURRENT_REQUESTS permits), Server::_updateMutex,    *)
(* and the background thread checkRebuild that calls rebuildIndexes once   *)
(* POSTs have stopped arriving.                                             *)
(*                                                                         *)
(* Data abstraction.  Every POST is an update of one account that may      *)
(* carry a new e-mail (the e-mail check of validateUpdateJSON is the one   *)
(* validation that reads shared state); the content of an account is its  *)
(* version, the number of writes applied to it.  The rebuild scans the     *)
(* accounts in ascending id order (FOR_EACH_ACCOUNT_ID) and records the    *)
(* version it saw in idx.  The 100 ms poll and the 1200 ms quiet period    *)
(* are not modelled as time: a request may take arbitrarily long, so at    *)
(* any poll that sees no new POST the quiet period may have elapsed.       *)
(***************************************************************************)
EXTENDS Integers, FiniteSets

CONSTANTS
    Threads,          \* civetweb worker threads
    NumConcurrent,    \* NUM_CONCURRENT_REQUESTS
    Accts,            \* account ids 1..N, scanned in this order
    InitEmail,        \* [Accts -> e-mail] of the loaded accounts
    NewEmails,        \* e-mails an update body may carry
    NoEmail,          \* an update body without "email"
    MaxPosts,         \* bound on POST requests
    MaxGets           \* bound on GET requests

VARIABLES
    pc,          \* pc[t]: where worker t is in its handler
    req,         \* req[t]: the update body worker t is handling
    sem,         \* _semaphore.count_
    mutex,       \* _updateMutex is held
    numPosts,    \* HttpHandler::numPosts
    gets,        \* number of GETs received (bound only)
    prev,        \* checkRebuild's prevNumPosts
    needRebuild, \* checkRebuild's needRebuild
    rebuilding,  \* HttpHandler::rebuildingIndex
    rpc,         \* where checkRebuild is: "poll" or "scan"
    pos,         \* next account id the rebuild scan reads
    data,        \* data[a]: version of account a
    idx,         \* idx[a]: version of a the last rebuild indexed
    email,       \* email[a]: accountsArray[a].email
    emails       \* index.emails

vars == <<pc, req, sem, mutex, numPosts, gets, prev, needRebuild, rebuilding,
          rpc, pos, data, idx, email, emails>>
threadVars == <<pc, req, sem, mutex, numPosts, gets>>
rebuildVars == <<prev, needRebuild, rebuilding, rpc, pos>>
storeVars == <<data, idx, email, emails>>

Bodies == [acct : Accts, email : NewEmails \cup {NoEmail}]
FirstAcct == CHOOSE a \in Accts : \A b \in Accts : a <= b
LastAcct == CHOOSE a \in Accts : \A b \in Accts : a >= b

Init ==
    /\ pc = [t \in Threads |-> "idle"]
    /\ req = [t \in Threads |-> CHOOSE b \in Bodies : TRUE]
    /\ sem = NumConcurrent
    /\ mutex = FALSE
    /\ numPosts = 0 /\ gets = 0
    /\ prev = 0 /\ needRebuild = FALSE        \* prevNumPosts = numPosts.load()
    /\ rebuilding = 0 /\ rpc = "poll" /\ pos = FirstAcct
    /\ data = [a \in Accts |-> 0] /\ idx = data
    /\ email = InitEmail
    /\ emails = {InitEmail[a] : a \in Accts}

-----------------------------------------------------------------------------
(* handleGet *)

\* A GET arrives: ++numGets, then ScopedSemaphore waits for a permit.
GetArrive(t) ==
    /\ pc[t] = "idle" /\ gets < MaxGets
    /\ pc' = [pc EXCEPT ![t] = "get_sem"]
    /\ gets' = gets + 1
    /\ UNCHANGED <<req, sem, mutex, numPosts>> /\ UNCHANGED rebuildVars
    /\ UNCHANGED storeVars

\* Semaphore::wait, then "if (rebuildingIndex) RETURN_WITH_ERROR_400".
GetAcquire(t) ==
    /\ pc[t] = "get_sem" /\ sem > 0
    /\ sem' = sem - 1
    /\ pc' = [pc EXCEPT ![t] = IF rebuilding # 0 THEN "get_done" ELSE "get_read"]
    /\ UNCHANGED <<req, mutex, numPosts, gets>> /\ UNCHANGED rebuildVars
    /\ UNCHANGED storeVars

\* processFilter / processGroup / ... read the indexes, then reply.
GetRead(t) ==
    /\ pc[t] = "get_read"
    /\ pc' = [pc EXCEPT ![t] = "get_done"]
    /\ UNCHANGED <<req, sem, mutex, numPosts, gets>> /\ UNCHANGED rebuildVars
    /\ UNCHANGED storeVars

\* ~ScopedSemaphore: Semaphore::notify.
GetRelease(t) ==
    /\ pc[t] = "get_done"
    /\ pc' = [pc EXCEPT ![t] = "idle"]
    /\ sem' = sem + 1
    /\ UNCHANGED <<req, mutex, numPosts, gets>> /\ UNCHANGED rebuildVars
    /\ UNCHANGED storeVars

-----------------------------------------------------------------------------
(* handlePost / processUpdate / Server::updateAPI *)

\* A POST arrives: ++numPosts happens before the semaphore is waited on.
PostArrive(t, b) ==
    /\ pc[t] = "idle" /\ numPosts < MaxPosts
    /\ pc' = [pc EXCEPT ![t] = "post_sem"]
    /\ req' = [req EXCEPT ![t] = b]
    /\ numPosts' = numPosts + 1
    /\ UNCHANGED <<sem, mutex, gets>> /\ UNCHANGED rebuildVars
    /\ UNCHANGED storeVars

PostAcquire(t) ==
    /\ pc[t] = "post_sem" /\ sem > 0
    /\ sem' = sem - 1
    /\ pc' = [pc EXCEPT ![t] = "post_valid"]
    /\ UNCHANGED <<req, mutex, numPosts, gets>> /\ UNCHANGED rebuildVars
    /\ UNCHANGED storeVars

\* validateUpdateJSON, outside _updateMutex: a body whose e-mail is in
\* index.emails is answered 400.
Validate(t) ==
    /\ pc[t] = "post_valid"
    /\ pc' = [pc EXCEPT ![t] = IF req[t].email # NoEmail /\ req[t].email \in emails
                                THEN "post_done" ELSE "post_lock"]
    /\ UNCHANGED <<req, sem, mutex, numPosts, gets>> /\ UNCHANGED rebuildVars
    /\ UNCHANGED storeVars

\* ScopedSemaphore scope(_updateMutex)
Lock(t) ==
    /\ pc[t] = "post_lock" /\ ~mutex
    /\ mutex' = TRUE
    /\ pc' = [pc EXCEPT ![t] = "post_apply"]
    /\ UNCHANGED <<req, sem, numPosts, gets>> /\ UNCHANGED rebuildVars
    /\ UNCHANGED storeVars

\* Mutant: the new e-mail inserted without erasing the previous one.
ApplyNoErase(t) ==
    LET a == req[t].acct IN
    /\ pc[t] = "post_apply"
    /\ IF req[t].email # NoEmail
       THEN /\ emails' = emails \cup {req[t].email}
            /\ email' = [email EXCEPT ![a] = req[t].email]
       ELSE UNCHANGED <<emails, email>>
    /\ data' = [data EXCEPT ![a] = @ + 1]
    /\ mutex' = FALSE
    /\ pc' = [pc EXCEPT ![t] = "post_done"]
    /\ UNCHANGED <<req, sem, numPosts, gets, idx>> /\ UNCHANGED rebuildVars

\* The locked body of updateAPI: erase the previous e-mail and insert the
\* new one, load the body into the account; then the mutex is released.
Apply(t) ==
    LET a == req[t].acct IN
    /\ pc[t] = "post_apply"
    /\ IF req[t].email # NoEmail
       THEN /\ emails' = (emails \ {email[a]}) \cup {req[t].email}
            /\ email' = [email EXCEPT ![a] = req[t].email]
       ELSE UNCHANGED <<emails, email>>
    /\ data' = [data EXCEPT ![a] = @ + 1]
    /\ mutex' = FALSE
    /\ pc' = [pc EXCEPT ![t] = "post_done"]
    /\ UNCHANGED <<req, sem, numPosts, gets, idx>> /\ UNCHANGED rebuildVars

\* ~ScopedSemaphore after the reply.
PostRelease(t) ==
    /\ pc[t] = "post_done"
    /\ pc' = [pc EXCEPT ![t] = "idle"]
    /\ sem' = sem + 1
    /\ UNCHANGED <<req, mutex, numPosts, gets>> /\ UNCHANGED rebuildVars
    /\ UNCHANGED storeVars

-----------------------------------------------------------------------------
(* checkRebuild: no lock is taken around rebuildIndexes *)

\* "if (numPosts > prevNumPosts) { prevNumPosts = numPosts.load(); ...}"
PollNewPosts ==
    /\ rpc = "poll" /\ numPosts > prev
    /\ prev' = numPosts
    /\ needRebuild' = TRUE
    /\ UNCHANGED <<rebuilding, rpc, pos>> /\ UNCHANGED threadVars
    /\ UNCHANGED storeVars

\* A poll that finds nothing to do.
PollIdle ==
    /\ rpc = "poll" /\ numPosts = prev /\ ~needRebuild
    /\ UNCHANGED vars

\* No new POST seen, needRebuild, and the quiet period has elapsed.
RebuildDue ==
    /\ rpc = "poll" /\ numPosts = prev /\ needRebuild
    /\ rpc' = "start"
    /\ UNCHANGED <<prev, needRebuild, rebuilding, pos>> /\ UNCHANGED threadVars
    /\ UNCHANGED storeVars

\* "prevNumPosts = numPosts.load()" re-reads the counter, then
\* RequestsInFlightCounter scoped(&rebuildingIndex).
RebuildStart ==
    /\ rpc = "start"
    /\ prev' = numPosts
    /\ rebuilding' = rebuilding + 1
    /\ rpc' = "scan"
    /\ pos' = FirstAcct
    /\ UNCHANGED needRebuild /\ UNCHANGED threadVars /\ UNCHANGED storeVars

\* rebuildIndexes reads one account into the indexes.
RebuildScan ==
    /\ rpc = "scan"
    /\ idx' = [idx EXCEPT ![pos] = data[pos]]
    /\ IF pos = LastAcct THEN rpc' = "end" /\ pos' = pos
       ELSE rpc' = "scan" /\ pos' = pos + 1
    /\ UNCHANGED <<prev, needRebuild, rebuilding>> /\ UNCHANGED threadVars
    /\ UNCHANGED <<data, email, emails>>

\* Mutants: the rebuildingIndex counter not decremented; needRebuild not reset.
RebuildEndNoDecrement ==
    /\ rpc = "end"
    /\ needRebuild' = FALSE
    /\ rpc' = "poll"
    /\ UNCHANGED <<prev, pos, rebuilding>> /\ UNCHANGED threadVars /\ UNCHANGED storeVars
RebuildEndNoReset ==
    /\ rpc = "end"
    /\ rebuilding' = rebuilding - 1
    /\ rpc' = "poll"
    /\ UNCHANGED <<prev, pos, needRebuild>> /\ UNCHANGED threadVars /\ UNCHANGED storeVars

\* ~RequestsInFlightCounter, then "needRebuild = false".
RebuildEnd ==
    /\ rpc = "end"
    /\ rebuilding' = rebuilding - 1
    /\ needRebuild' = FALSE
    /\ rpc' = "poll"
    /\ UNCHANGED <<prev, pos>> /\ UNCHANGED threadVars /\ UNCHANGED storeVars

Worker(t) ==
    \/ GetAcquire(t) \/ GetRead(t) \/ GetRelease(t)
    \/ PostAcquire(t) \/ Validate(t) \/ Lock(t) \/ Apply(t) \/ PostRelease(t)

Checker ==
    PollNewPosts \/ PollIdle \/ RebuildDue \/ RebuildStart \/ RebuildScan \/ RebuildEnd

Next ==
    \/ \E t \in Threads : GetArrive(t) \/ \E b \in Bodies : PostArrive(t, b)
    \/ \E t \in Threads : Worker(t)
    \/ Checker

\* Requests arrive when clients send them; a worker that can proceed
\* eventually does (the OS schedules it), and the checker thread wakes up
\* every 100 ms.
Fairness == (\A t \in Threads : WF_vars(Worker(t))) /\ WF_vars(Checker)

Spec == Init /\ [][Next]_vars /\ Fairness

-----------------------------------------------------------------------------
(* Properties *)

TypeOK ==
    /\ pc \in [Threads -> {"idle", "get_sem", "get_read", "get_done", "post_sem",
                           "post_valid", "post_lock", "post_apply", "post_done"}]
    /\ req \in [Threads -> Bodies]
    /\ sem \in 0..NumConcurrent /\ mutex \in BOOLEAN
    /\ numPosts \in 0..MaxPosts /\ prev \in 0..MaxPosts /\ gets \in 0..MaxGets
    /\ rebuilding \in {0, 1} /\ rpc \in {"poll", "start", "scan", "end"} /\ pos \in Accts
    /\ data \in [Accts -> Nat] /\ idx \in [Accts -> Nat]

\* No two accounts share an e-mail and index.emails is exactly their set:
\* validateUpdateJSON checks the e-mail outside _updateMutex, so this rests
\* on the request semaphore letting one POST at a time through.
EmailsUnique ==
    /\ emails = {email[a] : a \in Accts}
    /\ \A a, b \in Accts : a # b => email[a] # email[b]

\* Spec section 5: a rebuild is exclusive with reads.  handleGet tests
\* rebuildingIndex once, after its permit; checkRebuild takes no permit.
RebuildExclusiveWithReads ==
    rpc = "scan" => \A t \in Threads : pc[t] # "get_read"

\* Once POSTs stop, checkRebuild settles: it has seen every POST counted
\* and has no rebuild pending.
RebuildEventuallyQuiesces ==
    <>[](rpc = "poll" /\ ~needRebuild /\ prev = numPosts)

\* Every applied write is eventually in the indexes: after the last POST a
\* rebuild runs that sees it.
EveryWriteIndexed ==
    <>[](idx = data)

=============================================================================
