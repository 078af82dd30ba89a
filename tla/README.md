# Verification of the AI recruitment platform

TLA+ models of the parts of this repository in which several requests,
processes or outside systems write the same state, or in which callbacks arrive
late: the queue of AI agent tasks, the billing service, the hiring pipeline,
the sessions of the authentication service, the dashboard's WebSocket client and
its AI copilot page. TLC checks each of them on small instances, and TLAPS
proves their invariants for every instance. Paths
below are relative to `src/backend` unless they say otherwise.

Contents: [the system](#1-the-system), [plan](#2-plan),
[how the code is read](#3-how-the-code-is-read),
[task queue](#4-the-ai-agent-task-queue), [billing](#5-the-billing-service),
[hiring pipeline](#6-the-hiring-pipeline), [dashboard socket](#7-the-dashboard-socket),
[authentication sessions](#8-the-authentication-sessions), [copilot page](#9-the-copilot-page),
[runs and bounds](#10-runs-and-bounds), [proofs](#11-proofs),
[findings](#12-findings), [limits](#13-not-modelled).

## 1. The system

One FastAPI backend (`main.py` mounts some sixty routers from `apps/*`) over
PostgreSQL, with helpers in `shared/*`; worker processes; a Next.js front end
(`src/frontend`); Stripe, mail, webhook receivers and language models outside.
Requests run concurrently, in several processes.

| Component | State it keeps | Operations | Interacts through |
|---|---|---|---|
| AI agent task queue (`shared/ai/task_queue.py`, `shared/ai/worker.py`, `apps/ai_orchestrator/main.py`) | table `ai_agent_tasks`; per worker a session with a batch of row objects | enqueue, poll, run, complete, fail, cancel, retry | the table only: no lock, no message |
| Billing (`apps/billing_service`) | dictionaries of one process: customers, cards, subscriptions, invoices, credits, Stripe events | user, administrator and Stripe webhook handlers | Stripe calls out, Stripe events in |
| Hiring pipeline (`apps/candidate_service`, `apps/job_service`) | tables `candidate_applications`, `jobs.applicants_count` | apply, move, bulk move, withdraw, delete candidate or job | row locks of PostgreSQL; webhooks |
| Webhook dispatch (`shared/webhooks/dispatcher.py`, `apps/webhook_service`) | webhooks, a row per delivery attempt | create, update, delete, dispatch with retries, test | called inside the requests above, in their session |
| Dashboard socket (`src/frontend/src/services/websocket/client.ts`) | one socket, reconnect/ping/pong timers, listeners | connect, disconnect, reconnectNow, socket and timer callbacks | the WebSocket service |
| Realtime broadcaster (`shared/realtime/broadcaster.py`, `apps/websocket_service`) | connections indexed by user, tenant, room | connect, disconnect, subscribe, broadcast | sockets, the event dispatcher |
| Authentication (`apps/auth_service`) | users with a lockout counter, refresh sessions | login, refresh, rotate, logout, reset, change of password, deactivate, two-factor | every other service through bearer tokens |
| Copilot page (`src/frontend/src/app/dashboard/ai-copilot/page.tsx`, `/ai/conversations` of `apps/ai_orchestrator/main.py`) | conversations and messages in React state, the stream under way; rows of both on the server | ask, stop, regenerate, edit, select, rename, delete, refresh | one stream per answer, one request per change, none waits for another |
| Offers (`apps/offer_management`, `apps/offer_service`) | offers, signatures | update, send, accept, decline, sign | the database only |
| Job queue (`apps/job_queue`, `shared/jobs`) | rows and Celery tasks | submit, cancel, retry | Celery, sent before the commit |
| Rate limits and DDoS protection (`shared/core/ratelimit.py`, `shared/middleware`, `shared/security`) | counters and sliding windows, in process or Redis | check, status, reset | in front of every request |
| Caches (`shared/core/caching.py`, `shared/cache`, `shared/ai/cache.py`) | values with a time to live | get or compute, invalidate | readers and writers of the same rows |
| LLM router and agents (`shared/ai/llm_router.py`, `apps/ai_orchestrator/agents.py`) | cache, metrics | complete, embed | language models |
| Others | rows with one writer, logs, reports | create, read, update, delete | see `PROJECT.json`, which lists all |

What is hard, and what would make each component correct:

* **Sessions that decide on what they have read.** Handlers load a row, await,
  and write. Two of them overlap: cancel against complete, two withdrawals, two
  applications, two refreshes of one token. Correct means that no column or
  count is lost or contradicts another.
* **Events at least once, in any order.** Stripe repeats and reorders; webhook
  receivers see retries. Correct means that money is booked once and ledgers
  add up.
* **Commit after the side effect.** Webhooks and Celery tasks leave before the
  commit. Correct means that receivers and the table agree in the end.
* **Death between steps.** A worker dies between two commits, the billing
  process restarts with an empty store, a client disconnects before the commit.
* **Waiting.** Sessions hold row locks while they wait for more.
* **Callbacks that come late.** The close event of an old socket arrives after
  a new one was opened; a timer fires after the state it was armed for.

## 2. Plan

Order: what loses or duplicates durable state first, then what a user sees.

| # | Module | Models | State |
|---|---|---|---|
| 1 | `TaskLifecycle` | abstract: the documented status machine of a task | done |
| 2 | `AgentTaskQueue` | the table, workers, cancel and retry requests; refines 1 | done, proved |
| 3 | `Billing` | store, handlers, Stripe events, restarts | done, proved |
| 4 | `ApplicationPipeline` | application rows, counts, sessions, row locks | done, proved |
| 5 | `DashboardSocket` | the client's sockets and timers, with late callbacks | done, proved |
| 6 | `AuthSessions` | refresh sessions, revocation and the lockout counter over concurrent database sessions | done, proved |
| 7 | `CopilotChat` | the page's conversations and streams, with late and failed answers | done, proved |
| 8 | `AnswerLifecycle` | abstract: the answer to a question as the page shows it; `CopilotChat` refines it | done, proved |
| 9 | `JobBoard` | abstract: the board of a job, each request one step; `ApplicationPipeline` refines it | done, proved |
| 10 | `WebhookDelivery` | attempts and log rows of one dispatch, webhooks changing meanwhile | open |
| 11 | `Broadcaster`, `RateWindows`, `OfferAnswers` | fan-out over changing rooms; windows charged one by one; an acceptance against a decline | open |

Each `MC...` module instantiates the module named after the dots for TLC, and each
`...Proofs` module extends the one it proves about. The modules share no
variables: the components meet only through rows and requests that each module
has as its own environment (a worker's agent is a constant of results, a
webhook receiver an event that was announced), so a composition would be the
product of independent machines.

## 3. How the code is read

**Sessions.** `shared/core/database.py` gives each request a SQLAlchemy session
that commits when the handler has returned and rolls back on an exception
(`get_db_session`, lines 47-55). `expire_on_commit=False` keeps loaded objects
as they are, a second load of a row does not refresh an object that is still
referenced, and a flush writes only the columns whose value differs from the
loaded one. PostgreSQL runs at its default READ COMMITTED: a statement sees
what was committed before it; a second writer of a row waits for the first.
SQLAlchemy raises `StaleDataError` when an UPDATE matches no row, and only
warns when a DELETE matches none.

**Atomicity.** A step of a model ends where the code awaits something another
session can interleave with. Billing handlers await nothing between their first
read and last write, so there one handler is one step.

**Data.** Texts, scores, formats, log and audit rows are left out. Timestamps
are kept as whether they are set, money as small numbers, texts by their origin.
History variables and fields (`raced`, `forked`, `mixed`, `overtaken`, `announced`, `refundLog`, `made_by`, ...) are named as such
where they are declared; no guard reads them but for the named bounds, and
because a fresh identifier of `ApplicationPipeline` is one never announced, as
`uuid4` makes it.

Definitions whose comment calls them a mutant or a mutation are deliberate
bugs, one per property: put in the place of the definition they precede, they
make the property fail. `PROJECT.json` pairs them. No specification uses them.

## 4. The AI agent task queue

`AgentTaskQueue`: `row` is the table; `pc`, `batch`, `view` are a worker's place
in its loop, the rest of its batch and the objects its session holds; `calls`
are the cancel and retry requests between load and commit.

| Action | Code |
|---|---|
| `Enqueue` | `enqueue_task` |
| `LoadCancel`, `CommitCancel` | the cancel endpoint of `apps/ai_orchestrator/main.py`: status test on the loaded object, then `update_task_status` |
| `LoadRetry`, `CommitRetry` | the retry endpoint: test, then reset of every column |
| `Fetch` | the worker's poll: the oldest pending tasks, one query, no lock |
| `RejectTask`, `StartTask`, `Refresh`, `CompleteTask`, `FailTask` | `_run_single_task` and the commits and the refresh in `update_task_status` |
| `Abort`, `DropCall` | an error or death between two commits |

`Flush` is the heart of it: what a stale object writes over a newer row.
`TaskLifecycle` is the state machine drawn in the header of `task_queue.py`, with
`status` as what the table shows (`TaskStatus`).

Properties. Under any races: an ended row has its end time (`EndIsStamped`), a
completed row of a first cycle has an output (`CompletedHasOutput`), a running
one a start time (`RunningIsStarted`); a pending task comes to an end
(`Settles`). Where nobody races: all columns agree with the status
(`RowMatchesStatus`) and the queue implements `TaskLifecycle`
(`DocumentedLifecycle`). What the races do break: sections 11 and 12.

Fairness: weak fairness of each worker's step. `run_forever` polls again after
every batch and every exception, and agents return or raise. Requests get
none. `Settles` excludes `Abort`: a worker that dies after committing
`running` leaves the task running for ever (no code looks at running tasks).

## 5. The billing service

`Billing`: `customers`, the cards (`wallet`, `defaults`, `added`), `subs` and the
index `subOf`, `invoices`, `eventLog`, and `sessions`, the checkouts Stripe
holds. Every handler of `main.py` that writes any of this is an action named
after it; `Restart` empties everything but Stripe's sessions. Stripe may deliver any event
about a session, any number of times, under new or old identifiers.

Properties: one subscription per user however a trial and repeated checkout
events come (`SingleSubscription`); one invoice per checkout and per event
(`OneInvoicePerCheckout`, `EventBooksOnce`); a completed checkout takes effect as a
whole or not at all, also where handlers fail and the store is lost: its
invoice and a subscription of its owner, or neither (`CheckoutIsWhole`); refunds
and credits add up to what was announced (`RefundsAddUp`, `CreditsAddUp`); at most one default card, which is handed on while
cards remain (`SingleDefault`, `DefaultKept`).

Refunds may be any integers: `RefundRequest.amount_cents` (`models.py:257`) has no
lower bound, unlike the credit's, so the administrator may refund less than nothing (in
mock mode; Stripe itself may refuse it first, which changes nothing in the store).

What the model shows and no property condemns, since no document says
otherwise: an invoice that was refunded in full is void, and stays so when a negative
refund takes the sum below its total; a late `invoice.paid` makes it paid again;
a late `customer.subscription.updated` revives a canceled
subscription; a scheduled downgrade is never applied; pause and resume are not
guarded by the status; the identifier a trial stores never matches Stripe's
events. No liveness: nothing in the service acts on its own.

## 6. The hiring pipeline

`ApplicationPipeline`: `rows` and `applicants` are the committed tables,
`candidates` and `openings` the rows of the two other tables that exist, `req`
what each open request holds: the rows it works on (`apps`), those it has
written and so locked (`done`), those whose stage its UPDATE sets (`moves`),
the count it has read. Its phases:

```
apply     insert -> count -> notify -> commit
move      update (a row at a time) -> notify -> commit
withdraw  remove -> settle
```

| Action | Code |
|---|---|
| `Apply` | the three SELECTs of `apply_candidate_to_job` and the 404 and 409 they lead to |
| `InsertApplication` | `db.flush()` of the new row, then the SELECT of the job: `_load_job_or_404`'s object is not referenced any more, so the count is read afresh |
| `CountApplicant` | the UPDATE of `applicants_count`, flushed by the SAVEPOINT of `log_activity` |
| `UpdateStage`, `BulkMove` | the SELECTs of the two stage endpoints; `Load` is the rest |
| `UpdateRow` | the flush, one UPDATE at a time, in the order of the primary keys as SQLAlchemy sorts them |
| `Withdraw`, `RemoveRow`, `SettleWithdrawal` | load; DELETE and SELECT of the count; UPDATE with its clamp at 0 and commit |
| `Notify` | `safe_dispatch_event`, before the commit |
| `Commit`, `Fail`, `Interrupt` | `get_db_session`: commit; rollback after an error (`Stale`: a needed row is gone); rollback because the request or process died |
| `DeleteCandidate`, `DeleteJob` | delete of that one row; applications stay. A job whose row a session has written waits (`HoldsJob`) |

`raced` remembers the jobs on which two requests that change the count were
open at once. It is what splits the truth in two: on all other jobs the count
is exact and a pair is unique (`CountExactUnlessRaced`,
`OnePerPairUnlessRaced`); on a raced job neither need hold (section 12, `pipeline_duplicates`). Stage
moves, deletions, failures and interruptions of any number do not spoil either.
`AnnouncedBeforeVisible`: no committed application was not announced to the
webhooks. `BoardInOneStep`: the pipeline implements `JobBoard`, the board a recruiter
would describe, on which an application enters with its count, a move or a
withdrawal happens at once, and a request takes effect on one board or on
none. The mapping leaves `rows` and `openings` as they are and shows the count
of the jobs that are open and not raced (`CountShown`); every flush, wait,
failure and announcement is a stutter, and the commit is the step. With a
`DeleteJob` that ignores row locks (`DeleteJobAtOnce`) an application enters
the board of a job that is gone. `EveryRequestEnds`: bulk moves that hold rows while they wait never
wait in a circle; with the rows written in the caller's order (`UpdateAnyRow`)
they do.

Fairness: strong fairness of each request's own steps. A session that waits
for a row is queued by PostgreSQL and gets it in its turn, although others take
and release the row meanwhile; handlers, dispatch (its attempts and timeouts are
bounded) and commit always come to an end. `Interrupt` has no fairness. The
deadlock test of TLC is off because a state where everything is deleted and the
identifiers are used up is a proper end; `EveryRequestEnds` is the test for
circular waits.

## 7. The dashboard socket

`DashboardSocket`: `client` is the record of the `WebSocketClient`'s fields, a
timer being whether it is set; `sock` is each WebSocket as the browser and the
server know it; `token` whether local storage holds one. JavaScript runs one
task at a time, so one task is one step. `ws.close()` only asks, and the close
event is a step of its own (`Closed`), whose handler clears `this.ws` without
asking which socket has closed.

| Action | Code (`src/frontend/src`) |
|---|---|
| `MountBesideOthers`, `MountAndConnect`, `Unmount` | the effect of `hooks/use-websocket.ts` and its clean-up, with `acquire`, `connect`, `release`, `disconnect` |
| `Reconnect` | the click of `components/dashboard/connection-status.tsx`, with `reconnectNow` |
| `Opened`, `Closed`, `PongReceived` | `onopen`, `onerror` and `onclose` (one task of the browser), `onmessage` with a pong |
| `FallSilent` | a peer or path that dies without a close frame |
| `ReconnectTimerFires`, `PingTimerTicks`, `PongTimerFires` | the callbacks of the three timers |
| `TokenChanges` | signing in or out; the client reads the token when it connects |

`hurried` remembers that a mount or a click asked for a socket before an earlier
one had closed, until every socket has. In that case the late close event takes
the new socket away from the client, which schedules another one: two live
sockets deliver every message, and a click can do it. Nothing in the repository
promises otherwise, so it is no finding; but it is why `HoldsEveryLiveSocket`
and `OpenIsWatched` (an open client has a socket and a running ping) say
"unless hurried". `OpensOnlyForConsumers` holds however users hurry: without a
mounted component no socket is created.

`ConnectingIsDecided` and `SilenceIsNoticed` assume that the browser settles a
handshake, delivers the close event it owes and fires the timers that are set.
Peers, users and tokens are free: a connection may be refused or lost for ever,
and then the attempts run out. A ping tick does not meet a pending pong timeout
because the interval is 25 s and the timeout 10 s; no caller configures others.

## 8. The authentication sessions

`AuthSessions`: `account` is the row of the user, as far as sessions depend on
it (active, deactivated, failed attempts, lock); `made`, `usable` and `parent`
the table of refresh sessions, numbered in the order of their commits; `request`
what each request in flight holds: the account it has loaded (`acc`), the session
it presents, the sessions it has selected (`seen`).

| Action | Code (`apps/auth_service/main.py`) |
|---|---|
| `Load` | the SELECTs at the top of each handler; `Admitted` says whom it lets past |
| `Select` | the SELECT of the sessions to revoke, before which SQLAlchemy flushes, and so locks, what the handler has written (`Flushed`) |
| `Login`, `WrongPassword` | `login` with the helpers that reset and count the attempts |
| `Refresh`, `RefreshRotation` | `/refresh`, `/refresh-rotation` |
| `Logout`, `LogoutAll` | `/logout` without and with `revoke_all` |
| `ResetPassword`, `ChangePassword`, `Deactivate`, `Reactivate` | the handlers of these names |
| `Abort` | rollback after an error; PostgreSQL ends a deadlock this way (`reset_password` locks the user before the sessions, `change_password` after them) |
| `LockPasses` | the clock passes `locked_until` |

A commit needs the rows it writes (`Ends`, `Free`) and writes the columns that
differ from what was loaded (`Written`): a login whose copy of the account was
not locked does not unlock it.

Nothing serialises these requests, so the obvious statements are false: a refresh
that has loaded its session before a password reset commits survives the
reset; two refreshes of one session both succeed; failures counted at once count
as one. The invariants say exactly how far the code goes, with a history of the
overlaps: a session that goes back to a sign-in begun before the last revocation
of all sessions is usable only if a request in its chain of refreshes overlapped the
revocation (`RevokedUnlessRaced`); with the same exception an account that is
not active has no usable session, however deactivation and reactivation
alternate (`InactiveUnlessRaced`); a session has two successors only if two
refreshes of it were in flight together (`OneSuccessorUnlessForked`); and the
counter is the number of wrong passwords since the last success, the lock set
exactly at the limit, as long as whoever clears or counts has read what the
last one wrote (`AttemptsAddUpUnlessMixed`). An overlap taints only the sessions
and the numbers made from it. The documents of the repository promise no more
than the docstrings of the handlers do, which say nothing of overlaps.

No liveness: nothing in the service acts on its own, and a request that waits
for a row may be the one PostgreSQL aborts. Two SELECTs of one handler (user, then
session) are one `Load`; splitting them lets in the same overlaps earlier.

## 9. The copilot page

`CopilotChat`: `listed`, `saved`, `messages`, `currentId` are the list of
conversations in the page's state, `loading` and `controller` its idea of the
stream under way, `send` every call of `send()` with the id it was given for the
conversation, `requests` the requests in flight, `server` and `onServer` what the
server has. One JavaScript task with the effects React runs after it is one
step. Two things in the code decide the shape of the model: handlers read
the state of the last render, so a handler that sets it and reads it again
reads what was there before (`EnsureConversation` twice in `Ask`); and a
conversation is known by a local id until its create request is answered, so
whoever kept the local id does not find it afterwards (`Finds`).

| Action | Code |
|---|---|
| `Ask`, `SubmitEmpty`, `Regenerate`, `Edit`, `EditAndAsk` | `send()` up to its await, and the handlers that call it |
| `Delta`, `End` | `onDelta`; what follows the await of `streamOrchestrate`, with the `finally` |
| `Stop` | `stopStreaming` |
| `NewConversation`, `SelectConversation`, `Rename`, `Refresh` | the handlers of the side bar and the header |
| `DeleteConversation`, `CancelDelete`, `ConfirmDelete` | the dialog; it covers the page while it is open (`NoDialog`) |
| `ListAnswered` | the answer to a list request, which empties the list: the endpoint returns `data`, the page reads `conversations` |
| `CreateAnswered`, `GetAnswered`, `PostAnswered`, `DeleteAnswered`, `RefusedAnswered` | the other answers, in any order; a request that fails may have been carried out |

`Init` is the page once the list asked for by its mount was answered.

Properties. `OneStreamUnlessOvertaken`: at most one stream is live, the page
shows "Stop" exactly then, and the signal it holds is that stream's. The
exception is in the code: a stopped stream runs on, and its `finally` clears
the flags of the one begun since (`overtaken`). `PendingIsLive` and
`PendingIsDecided`: a message is pending only while a stream can still end it, and each
comes to an end, unless its conversation got the server's id under it
(`moved`): then the stream no longer finds it and it stays pending for ever.
`SelectedIsListed`: whatever is deleted, created late or emptied by a refresh,
the page shows a conversation of the list. `StoppedStays`: no late chunk or
final answer changes what was stopped. `AnswersDecidedOnce`: the page
implements `AnswerLifecycle`. Through `ShownAs`, the state of the one message
that answers a question, every step of the page is a step of an answer's life
or shows nothing new: pending from the moment of asking, stopped, done or failed
at most once, and never back after it was deleted, cut off by an edit or replaced
by the server's copy. An `End` that skips the test of its signal (`EndAnyway`) decides a
stopped answer again.

Fairness: every stream ends (`FairSpec`: the fetch has a timeout of 60 s, which
also ends the body, and the simulated stream is a loop over words), and in
`ServedSpec`, which `copilot_first` uses, some request in flight is answered
(30 s timeouts in `services/api/client.ts`). Chunks and clicks have none. The deadlock test is
off because a page whose user has done all the clicks of the instance rests.

## 10. Runs and bounds

| Run | Instance | Distinct states | Asks |
|---|---|---|---|
| `task_queue_races` | 1 task, 2 workers, a canceller, a retrier, 2 retries | 95,760 | do rows stay sound and does the task end, whatever sessions race |
| `task_queue_serial` | 3 tasks (one unsupported), batches of 2, a worker, a retrier, aborts | 5,959 | does the queue implement `TaskLifecycle` where nobody races |
| `task_queue_cancel` | 2 tasks, a worker, a canceller | violation | is a cancelled task left alone |
| `task_queue_retries` | 1 task, a worker, 2 retriers | violation | does a retried task start clean |
| `billing_store` | 2 users, 2 subscriptions and invoices, a session, 2 events, 3 cards | 418,546 | do the ledgers, indexes and invoices agree |
| `billing_checkout` | as above, 1 user | violation | does a checkout grant the plan bought |
| `pipeline_board` | 2 candidates, a job, 2 applications, 2 requests | 246,836 | are counts and pairs right absent overlap, is each request one step of `JobBoard`, and does waiting end |
| `pipeline_duplicates` | a candidate, a job, 2 applications, 2 requests | violation | is a pair unique |
| `socket_page` | 4 sockets, 2 consumers, 2 attempts | 46,130 | does the client keep hold of its socket, open none for nobody, come out of connecting and of silence |
| `copilot_page` | 3 questions, 2 conversations, 3 clicks | 386,387 | does one stream run, does Stop reach it, is every pending answer decided, and once, is what is selected there |
| `copilot_first` | 1 question, 2 conversations, 1 click | violation | is the question just sent on the screen |
| `auth_sessions` | 3 requests at once, 5 in all, 4 sessions, lock at 2 | 490,998 | what survives a revocation, a rotation, a lock |

Why these bounds are enough:

* Queue. Properties are about one task, and sessions meet on a task only, so
  one task with two workers, a cancel and a retry has every kind of pair;
  `MaxRetries` = 2 gives a stale session from each of three cycles. Batches
  matter for the refinement: three tasks, batches of two. The invariants were also
  run once with two tasks and aborts (899,151 states). The proofs cover every size.
* Billing. `MaxCards` (3) is what a wrong hand-over of the default needs;
  `MaxCredit`, `MaxRefund` bound the sums, the refunds from below too; prices are 0
  and 2 so that a refund of 1 is partial, and refunds are -1, 0, 1 and all; one status reported by Stripe, `past_due`, stands for the
  others, which are copied alike. Two state constraints keep the run short:
  `CardsApart` follows the cards and the rest of the store separately, and
  `OneMoves` leaves at most one record changed at a time. With one user and neither
  constraint the run was finished once (3,355,346 states).
* Pipeline. A lost update, a duplicate and a circular wait each take two
  requests and two rows. Two jobs, three applications, three requests and two
  target stages were each checked once for the invariants (348,555, 1,764,885,
  388,415 and 391,665 states). `Targets` has one stage: only whether the stage
  changes is told apart, and new rows start at another one.

* Socket. The client holds one socket; the second is the late one, the third
  the one that the late close event of the second leads to, the fourth spare. A user's connect
  needs a free socket (`UserOpens`), which is the bound; two consumers tell the last
  unmount from another, and the attempts count to a limit of 2 as to 20.
* Copilot. A click sends, stops or deletes, and what is streamed or answered
  meanwhile is free: three clicks are ask, stop, ask again before the first
  stream has ended, which is the overtaking, or ask, delete, confirm; two conversations
  are what one question makes. More questions than clicks change nothing.
* Sessions. Two requests make every overlap of the exceptions; the third is
  the one that must not be tainted by it, and a chain of refreshes across a
  revocation takes four sessions. Two requests and six in all (1,167,104
  states) and three requests and six in all were each finished once.

Symmetry is used where no liveness property is checked, over identifiers that
the specification only compares for equality; application identifiers and
tasks are ordered and never permuted.

## 11. Proofs

No constant is bounded in the proofs; the assumptions are the `ASSUME`s of the
modules (types of the constants, a null value outside the sets it is added to).

**`AgentTaskQueueProofs`.** `TypeCorrect`; `EndsAreStamped`, `OutputsAreKept`,
`RunsAreStarted`. These are not inductive: a stale
object could write anything. `IInv` adds `CopiesOK`: a row of a first cycle
has lost nothing (`Kept`) that any copy which may still be flushed over it
has, and a retry in flight had seen an ended row. `Flush` of such a copy after
`Updated` or `Reset` keeps both (`UpdateSound`, `ResetSound`), which settles each
commit. `SerialImplementsLifecycle` and `SerialRowsMatch` assume `Serial` (one
worker, no cancels, one retry at a time) and use `SInv`: the worker's copies
equal the rows except right after `StartTask`, and the batch waits as pending.
Then `Flush` writes what was meant (`FlushFresh`) and every commit maps to a step
of `TaskLifecycle` (`StepRefines`). From the same invariant `SerialRetriesAreClean`: under
`Serial` a pending task has no output, which is what `task_queue_retries`
refutes in general. `RunningTasksAreRun` assumes `MayAbort = FALSE` and nothing of who
races: a task shown as running has a worker at it (`Runs`), either just started or
with a copy that reads "running". The second part is what makes the end arrive:
only a column that changed is written, so a worker whose copy already read "failed" would
fail the task without writing anything (`EndedIsLeft`). With `MayAbort`
TLC finds `RunningIsRun` violated in a few steps, the crash of section 4.

**`BillingProofs`.** `TypeCorrect`, `OneSubscription`, `CreditsSound`, `InvoicedOnce`,
`BookedOnce`, `RefundsSound`, `CheckoutsAreWhole`, `OneDefault`, `DefaultStays`. With some two dozen actions, steps are first
classified by what they do to one part of the store: `SubStep` (a subscription
moves, begins, is credited, all are forgotten), `InvStep` (booked, restated,
refunded, forgotten), `CardStep`. Lemmas `SubKinds`, `InvKinds`, `CardKinds`
show that every action is one of these; `SubNext`, `InvNext`, `CardNext` that
each kind keeps its part of `IInv`. `OneInvoicePerCheckout` and `EventBooksOnce`
are inductive together only. `CheckoutsAreHonoured` says how far the promise holds that
`billing_checkout` refutes: the step that handles a checkout's completion, in
whatever state of the store, leaves exactly one invoice for it and a
subscription of its buyer, and the plan bought is active if the buyer had no
subscription. It rests on `OnlyCheckoutsNameSessions` (no other event is recorded with a
session) and on the invariant before and after the step; TLC checked the same
formula on the instance of `billing_store`. `CheckoutsAreWhole` needs it for the step that
completes a checkout. At every other step nothing becomes linked to a checkout and nothing
booked for it is lost (`LinkedByCompletion`, `BookedByCompletion`: the kinds say which
step begins a subscription or books an invoice of a checkout), and sessions
are never forgotten (`SessionNext`), so the owner stays who it was.

**`ApplicationPipelineProofs`.** `TypeCorrect`, `NothingUnannounced`,
`CountsExact`, `PairsUnique`. `BaseInv` says what a request of each kind looks
like in each phase (`Shape`), how its rows stand (`Held`: the row of an
application in the making is nobody else's, no two open requests wrote the same
row, what a move has written is still there) and how the columns of a row go
together (`Tidy`). `CountInv` is about a job outside `raced`: at most one
counting request is open on it, the count it read is still the number of rows,
no row has its pair. The step that needs care is `Commit` of a move: it changes
rows of the job without changing how many there are (`CommitCount`), because what it
has written cannot have been deleted since.

**`PipelineBoardProofs`** extends it. `ImplementsBoard` is the refinement of `JobBoard`, with one lemma
per kind of step. It needs `KeptInv` besides: a request that holds the row of
its job finds the job still there at its commit, the rows of a move are of one job,
and withdrawn rows are blank. `NobodyWaitsInACircle`: while any request is open,
some request can go on (`CanGoOn`, which TLC found equal to `ENABLED Proceed(r)`
in every state of the instance). `OrderInv` says that what a move has written comes before what it has still to write,
in the order of primary keys; so whoever waits for the greatest of the rows waited for
would wait for a move that waits for a greater one. This is the safety that `EveryRequestEnds` needs besides fairness. `SerialPairsUnique` and
`SerialCountsExact`: if at most one request exists (`OneAtATime`), nothing is ever
raced, so `OnePerPair`, which `pipeline_duplicates` refutes, and the exact count
hold with no exception.

**`DashboardSocketProofs`.** `TypeCorrect`, `OneLiveSocket`, `OpenHeartbeat`,
`NobodyNoSocket`. `HeldAlone` strengthens the single-socket invariant: where
nobody hurried, a held socket is the only one in use, a client that was not
closed on purpose has no other on its way out, and a pending reconnect means
that no socket is in use at all; so `OpeningKeepsIInv`, the common core of
mount, click and timer, always starts from nothing. `Quiet` says that a timer
is set only for mounted consumers. `NeverLeftConnecting` and `SilentIsPinged` are
what `ConnectingIsDecided` and `SilenceIsNoticed` need of the code, fairness
aside: a client that is connecting or reconnecting waits for a handshake or a
close event the browser owes (`Owed`) or for a timer it has set, however users hurry; and a silent
socket is the one the client holds, with the ping running. The second needs
`Established`: the ping and the state `open` last as long as an open socket.

**`AuthSessionsProofs`.** `TypeCorrect`, `RevokedStaysRevoked`, `InactiveHasNone`,
`RotatesOnce`, `AttemptsAddUp`. None of the four is inductive: a request in
flight could do anything. `IInv` adds what each must still be true of it: what a
revocation has selected is all that is usable but the raced (`Swept`); a request
whose session was revoked since, or whose account was deactivated since,
bears the mark that makes its own session raced (`Marked`); a session that is usable or
being refreshed has no successor yet, unless forked (`Unspent`); a request not
marked stale has the counter and the lock as they are (`Known`); parents come before
children (`Ordered`). Steps are first sorted by what they do to the table (`IssueStep`,
`RevokeStep`, `LogoutStep`, `QuietStep`) and to the requests (`LoadFields`,
`SelectFields`, `AnsweredFields`, `AbortFields`), and each conjunct of `IInv` then
has one lemma. `SerialKeepsPromises`: with one request at a time no history of an
overlap is ever written (`Unmarked`), so the four properties hold without their
exceptions.

**`CopilotChatProofs`.** `TypeCorrect`, `SelectionListed`, `OneStream`,
`PendingLive`, `StoppedUntouched`. `Types` adds to `TypeOK` that whatever the
server is asked to create was made by the page, without which a late answer could select a conversation
nobody made. `OneStreamUnlessOvertaken` is inductive with it. For `PendingIsLive`,
`IInv` adds that every pending message lies in the conversation its stream was given,
unless moved, and that the server holds no pending message, so that an answer replacing
messages brings none back. `StoppedStays` is proved of one
step from there: what was stopped belongs to a cancelled stream.

**`CopilotAnswerProofs`** extends it. `ImplementsAnswerLifecycle` is the refinement of `AnswerLifecycle`.
The mapping chooses a state among the messages that answer a question, so the proof
first shows that there is at most one (`AnswerInOnePlace`), that it belongs to a question
already asked, and that it is pending while its stream is live (`LiveShownPending`). Steps are then
sorted by what they do to the answers: they carry them along (`CarriedStep`),
decide one (`DecidedStep`), ask for one (`AskedStep`) or ask for one that is shown nowhere (`UnseenStep`).

Only model-checked: the liveness properties `Settles`, `EveryRequestEnds`,
`ConnectingIsDecided`, `SilenceIsNoticed` and `PendingIsDecided`, and the
violations. Fairness and ENABLED are outside what the prover handles; what is proved
of each is that nothing waits for an event that cannot come
(`RunningTasksAreRun`, `NobodyWaitsInACircle`, `NeverLeftConnecting`, `SilentIsPinged`,
`PendingLive`; the first, like `Settles`, where no session dies). The theorems about one request at a time assume `Serial` or `OneAtATime`, a
restriction of the constants: they are about deployments that serialise requests, and
say that the refuted claims fail through overlap alone.
Every other property of a passing run has a theorem of its own.

## 12. Findings

Each is a violation run; `PROJECT.json` quotes the text it contradicts.

* `task_queue_cancel`: the worker tests the status of the object loaded with
  its batch, so a task cancelled meanwhile is run, and `cancelled` turns into `running`.
* `task_queue_retries`: two retries decided on the same failed row; the later
  commit sets the status back to pending over a completed cycle, whose output
  stays because the column had not changed in its session.
* `billing_checkout`: the completion of a checkout books an invoice but leaves
  an existing subscription, a trial for instance, as it was.
* `pipeline_duplicates`: check, insert and commit are apart, the table has no
  constraint: two overlapping applications of one candidate both stay.
* `copilot_first`: on a page without a conversation `send()` makes two, puts
  the question into the first and shows the second.

Seen while modelling and not a property of any run: the webhooks are told of an
application before its commit, so of some that are rolled back; a stopped answer that
ends late frees the page under the next one, and a new conversation saved while its
first answer streams leaves that answer pending for ever (the exceptions of
section 9); the list of conversations is always empty after a refresh, and every
rename is refused, since the server has no such route; a password reset and a
refresh that overlap leave a usable session (section 8); with three workers a stale
commit can leave a failed row without its error text; a bulk move reopens
rejected applications, which the header of `models/application.py` reserves for the PUT
endpoint; applications of a deleted or merged candidate cannot be withdrawn any
more; `_safe_log_activity` hides that a flush has lost the session.

## 13. Not modelled

`PROJECT.json` lists every component with the reason. In short:

* Most of the repository's lines are pages, forms and charts over one request
  each, type declarations, and services that read rows, compute a score or a text
  and write one row. They have no second actor and no state that outlives a
  request, so a model would restate the code line by line; that is why the map
  covers a small part of the lines, and the part with the hazards.
* The candidates page and its table (`components/ui/data-table-v2.tsx`,
  `use-data-table.ts`) were read: their state is view settings with one writer;
  hiding, pinning and resizing map over a list that starts empty, which any test of a
  click shows.
* Caches and rate limits depend on time, which no module models. The webhook
  attempts are one loop of one coroutine. The broadcaster's indexes change under one lock.
* The outbox and the rows of the job queue have writers and no reader in this
  repository.

Within the modelled components: usage records, coupons, seats, the demo seed and
the legacy endpoints of billing; every operation of the candidate and job services
that touches neither applications nor their count; the listeners of the
dashboard socket and its unused `configure` and `setToken`; of the
authentication service registration, the second step of two-factor sign-in, API keys, the
erasure of a user, access tokens and expiry; of the copilot page feedback, the choice of an agent,
search, and the limits of 100 conversations and 200 messages; the order in which PostgreSQL grants a lock
beyond what fairness says.
