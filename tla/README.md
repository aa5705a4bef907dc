# NexusReview: TLA+ models, model checking and proofs

NexusReview is a review site (shops, vouchers, blogs, follows) with a flash sale.
Its backend is one Spring Boot service, `nexus-service-main`, over one MySQL, one Redis
and one Kafka. `k8s/06-deployments-app.yaml:7` asks for one replica of it, and a rolling
update runs two for a while; the code is written for several (a Redisson lock across
instances, a ZREM "防止多实例并发处理", a retry topic for caches), so the models take any
number of instances, which this README calls replicas. This directory holds the
TLA+ models of the parts of it where concurrency, failure and ordering decide what
is correct, the TLC configurations that check them, and TLAPS proofs of the
properties that must hold for any number of requests, replicas and faults.

Paths below are relative to `src/`; `main/` stands for
`nexus-service-main/src/main/java/com/nexusreview/` and `common/` for
`nexus-common/src/main/java/com/nexusreview/`.

## 1. Inventory

| Component | Code | State it keeps | Operations | Here |
|---|---|---|---|---|
| Flash-sale orders | `main/service/impl/VoucherOrderServiceImpl`, `seckill.lua`, `main/mq/VoucherOrder*`, `main/mq/OrderDelayTaskRegistry` | Redis: stock key, order set, stream, delay ZSet, Redisson lock. Kafka: `seckill.order`, `order.cancel`. MySQL: `tb_seckill_voucher.stock`, `tb_voucher_order` | seckillVoucher, createVoucherOrder, cancelVoucherOrder, pollExpiredTasks | `Seckill`, `StockLedger` |
| Voucher publication | `main/service/impl/VoucherServiceImpl`, `main/controller/SupportController` | voucher rows, stock key | addSeckillVoucher, preheatSeckill | `Seckill` (initial state, one action) |
| Shop cache | `common/utils/CacheClient`, `main/service/impl/ShopServiceImpl`, `main/mq/CacheSync*`, `CaffeineConfig`, `BloomFilter/*` | Caffeine per replica, Redis entry, Redis lock, Bloom filter per replica, topic `cache.delete.retry` | queryById, updateShop, save, deleteWithRetry, consumeDeleteRetry | `ShopCache` |
| Rate limiter | `main/aspect/RateLimiterAspect`, `limiter.lua` | a sorted set per key in Redis | doBefore | `RateLimiter` |
| Order ids | `common/utils/RedisIdWorker` | a counter per day in Redis | nextId | `RedisIdWorker` |
| Blogs and likes | `main/service/impl/BlogServiceImpl` | `tb_blog.liked`, ZSet `blog:liked:<id>` | likeBlog, queryBlogLikes, queryHotBlog | `Likes` |
| Follow feed | `FollowServiceImpl`, `BlogServiceImpl`, `blog-detail.html`, `info.html` | `tb_follow`, set `follows:<user>`, ZSet `feed:<user>`, a page's button, a page's list and cursor | follow, saveBlog, queryBlogOfFollow, the button, onScroll | `Follows`, `FeedPage` |
| Login and session | `UserServiceImpl`, the two interceptors, `UserHolder`, `js/common.js`, `login.html`, `info.html` | `login:code:*`, `login:token:*`, `tb_user`, a thread-local user, the token in sessionStorage | sendCode, login, logout, preHandle, afterCompletion, axios interceptors | `Session` |
| AI assistant, page | `nexus-frontend/html/nexusreview/js/ai-assistant.js`, the scheduler of `js/vue.js` | messages, isLoading, controller, sessionId; Vue's callbacks, timers and watcher queue | _sendMessage, stopResponse, startNewConversation, handleClose, nextTick, flushSchedulerQueue | `VueScheduler`, `AssistantPage` |
| AI assistant, backend | `nexus-service-ai`, `RedisChatMemoryStore`, `ReservationTool` | chat window in Redis, reservations | chat, ask | not modelled: the module does not compile at this commit |
| Sign-in calendar | `UserServiceImpl.sign`, `signCount` | a Redis bitmap per user and month | sign, signCount | not modelled yet (pure) |
| Shops near a place, shop types, uploads, exports, gateway, entities, other pages | see PROJECT.json | - | reads, formats, configuration | not modelled |

How they interact. A purchase passes the rate limiter, draws an id from
`RedisIdWorker`, runs `seckill.lua`, and hands the order to Kafka and to the delay
ZSet; a listener turns it into a row; a scan of every replica, were it scheduled, turns a
due ZSet member into a cancel message; another listener closes the order and returns
the unit to Redis and MySQL. The cache and the delay queue share nothing with it
but Redis and Kafka as such, so these parts are modelled separately: `Seckill`
takes distinct order ids for granted, which is what `RedisIdWorker` is checked and
proved to deliver, and it allows any requests, so whatever the limiter lets through
is covered. The community part is independent of the sale: a like touches a blog's
count and its set of likers, a follow decides who a later blog is pushed to, and the
feed page reads the inbox while pushes go on; `Community` puts the three side by side.
Every request passes the two interceptors of `Session` before its handler; what the
other models call a user is what these leave in `UserHolder`. The page of the assistant
talks to a backend that does not compile, so it is modelled against any answer.

What is hard here: no two stores are updated in one transaction; a listener works on
MySQL (transactional), Redis (not) and a Redisson lock (released before the commit);
Kafka delivers at least once and to a listener that may not know that it has lost its
partition; a scheduled scan runs on all replicas at once (or, in this build, on none);
clocks of replicas differ; caches exist per replica and are told of changes on one replica only; a thread of
the pool keeps what a request that failed half-way left in it; on the page of the
assistant an aborted call still has a catch and a finally to run, and what the user
clicks was rendered before the last task. The
tests of the repository drive one replica over HTTP and reach none of this. Each such
point is a line of "hazards" in PROJECT.json, with the properties aimed at it.

## 2. Modules

```
StockLedger  <-- implements --  Seckill      MCSeckill       SeckillProofs, StockLedgerProofs
                                ShopCache    MCShopCache     ShopCacheProofs
                                RateLimiter  MCRateLimiter   RateLimiterProofs
                                RedisIdWorker MCRedisIdWorker RedisIdWorkerProofs

Requests  <--  Likes  ---------------\
   ^------  Follows  <--  FeedPage  --- Community   MCCommunity   CommunityProofs

                                Session     MCSession       SessionProofs
VueScheduler  <--------  AssistantPage      MCAssistant     AssistantPageProofs
```

Each component module declares its constants with named assumptions, its variables,
one action per step that another actor can interleave with, its properties, and the
inductive invariants the proofs use. Definitions marked `Mutant:` are plausible bugs;
they are not part of any specification and serve to see that each property can fail.

### StockLedger and Seckill

`StockLedger` is what the flash sale promises about the database: creating an order
takes a unit and adds a row, cancelling closes an unpaid row and returns the unit,
paying marks it, each in one step. Payment has no code in the repository; the status
guards (`eq("status", 1)`) exist because of it, so it is there as an external action.

`Seckill` is the real pipeline. Requests are named by the order id they draw.

- `LuaAccept`, `LuaSoldOut`, `LuaRepeat` are the three return codes of the script,
  one atomic step each, as Redis runs scripts. `SendOrderMessage` and
  `RegisterDelayTask` are the two calls after it; `RequestFails` is an exception or
  crash at either.
- A Kafka message is `buffered` in the producer, `queued` at the broker, `taken` by a
  listener, `processed` when the listener returned, `committed` when its offset is.
  `BrokerAppend`, `SendLost`, `OffsetCommit`, `Redeliver` and `Rebalance` move it.
  After a rebalance the old listener runs on as a zombie (`zombies`) while the message
  is delivered again. No order between two messages is assumed.
- `TryLock`, `CheckCount`, `DeductStock`, `SaveOrder`, `Unlock`, `CommitCreate` are
  createVoucherOrder, line by line; the commit comes after the unlock, because the
  method is @Transactional and unlocks in its own finally block. `ReadOrder`,
  `MarkCancelled`, `IncrRedisStock`, `RestoreDbStock`, `CommitCancel` are
  cancelVoucherOrder. What a transaction has written is staged in `tx` and becomes
  visible at the commit; `rowLock` and `orderLock` are the record locks it holds.
- `PollExpiredTasks`, `RemoveTask`, `SendOrderCancelMessage` are the scan of the delay
  queue, on any number of pollers.
- `CreateThrows`, `CancelThrows`, `ConsumerCrash`, `PollerFails`, `HeldLockExpires`,
  `RedisRestoresSnapshot` are the failures; each uses up one of `MaxFaults`, and so does
  an operator's `PreheatSeckill`, which overwrites the stock key of a running sale.
  `BreakDeadlock` is InnoDB's deadlock detection, `OrphanLockExpires` the end of the
  lease of a dead lock holder.
- `RedisSavesSnapshot` is the BGSAVE of Redis at any moment, kept in `rdb`;
  `RedisRestoresSnapshot` restarts from the last one. What was removed since comes back (an
  id between its ZREM and its cancel message among it), what was added is gone. Which
  user locks the snapshot held is left open: the present holder's, one whose holder has
  finished since and whose lease runs on, or none.

Three switches are facts about deployment. `SchedulingEnabled`: no class carries
@EnableScheduling, so in the build at this commit Spring never calls `pollExpiredTasks` and
no unpaid order is ever closed. `never_scanned` records that with FALSE. The safety runs
say TRUE, which covers more than the build does: they hold with and without scans, and
will when the annotation is added. No run assumes that a scan comes, except
`never_scanned`, where it never can.
`PromptConsumption`: an order message is handled once within the 60 s of the delay
(duplicates may come later).
`RedisForgets`: Redis is deployed with RDB snapshots only and may restart from the last
one. `two_instances` takes a Redis that keeps its data (the two properties about orders and
cancel messages need it, see section 4), `settles` one that does not.

### ShopCache

One shop behind Caffeine (per replica), Redis and MySQL. Values are versions of the
row; 0 is "no such shop" and, in Redis, the cached `""`. Every call to Caffeine, Redis
or MySQL of `queryWithPassThroughAndMutex` is a step of a reader, and the `continue`
of a reader that did not get the lock passes through the finally block, which deletes
the lock whoever holds it (`RetryUnlocks`). `updateShop` commits, then clears Caffeine
and Redis in two steps; a failing DEL goes to the retry topic, whose consumer clears
the Caffeine cache of the replica it runs on and Redis. Entries and lock expire at any
time; a lock that expires under a working holder counts as a fault. The Bloom filter
answers yes to anything, and no only to an id it was not given.
`ShopController.saveShop` does nothing at this commit, so `ShopServiceImpl.save` is
reached by no request of the API; it is modelled because it is the service's operation.

### RateLimiter

`doBefore` reads the clock of its replica, then runs `limiter.lua`. Time is an integer
with the window as a multiple of its unit. `Tick` lets a script run at most `MaxDelay`
after its time stamp, and a replica's clock is at most `MaxSkew` ahead of Redis's. A member of
the sorted set is a score and a random suffix; two requests that draw the same pair share one member,
and the first of them is `shadowed`: Redis seeds `math.random` alike for every script,
so the suffix of `limiter.lua:20` separates requests of one millisecond less well than
its comment has it. When Redis throws, the request passes (`FailOpen`). The only
annotated method is seckillVoucher (COMBINED, 2 per 5 s), which the run mirrors with a
window of 4 units.

### RedisIdWorker

`nextId` reads the clock of its replica once for the second and for the day of the key,
then INCRs in Redis. Redis may restart with counters of an older snapshot
(`RedisRestart`), which takes longer than the clocks differ. `CountLimit` is 2^COUNT_BITS.
INCR knows no limit, and `timeStamp << COUNT_BITS | count` puts the surplus bits of a
larger count over those of the time: `IdOf` does the same (`Or`), and `UniqueIds` speaks of
the calls whose count fits. 2^32 orders of a day are out of this service's reach.

### Requests, Likes, Follows, FeedPage, Community

`Requests` holds what the handlers share: users, calls that are served at most once,
and the fault budget. `Community` composes the three components on it; a call is
either a like or a click on a follow button.

`Likes` is one blog and likeBlog's three steps: `LikeBlog` reads the score that decides
between like and take-back, `IncLiked` or `DecLiked` updates the UNSIGNED column,
`AddLiker` or `RemoveLiker` the ZSet. Nothing holds the three together, and `LikeFails`
may end a call between any two. The initial states are those of a blog the service saved;
the rows `db.sql` brings along start with a like that nobody gave.

`Follows` is one author. `ClickFollow` and `FollowReply` are the button of
`blog-detail.html`, which sends the opposite of what it shows and turns over when the
answer comes; `InsertFollow`, `AddToSet`, `DeleteFollow`, `RemoveFromSet` are
FollowServiceImpl.follow over `tb_follow`, which may hold a pair twice (`rows` counts),
and the set in Redis. `SaveBlog`, `QueryFollowers`, `PushBlog` are saveBlog: the
followers are read after the insert, and one ZADD per row follows, stamped with the
clock of the replica (at most `MaxSkew` behind the foremost).

`FeedPage` is the tab of `info.html` that scrolls. `QueryBlogOfFollow` answers two blogs
from a cursor, in the order of ZREVRANGEBYSCORE (`Before`: score, then bytes of the
member), with the next cursor computed as in the code. `QueryFirst` and `QueryNext` are
the requests the page sends, `ScrollOn` the scroll event that takes the guard
`isReachBottom` back, `ApplyAnswer` replaces or extends the list in the order answers
arrive. Scroll events are those of a list that is not empty. `Meanwhile` is any step of
`Follows`. Three history variables say what the properties promise for: `alone`
(requests that met no other one and no push at their cursor), `calm` (the list on
display is built of such answers, from a first page on) and `base` (the inbox when
that first page was read).

### Session

A tab is a page after the other, and `tab` is the token in its sessionStorage. A page
reads the token once (`common.js:6`), so `Send` uses the stored one: whatever changes it
(`AnswerLogin`, `AnswerLogout`) goes on to another page at once, and the answers to the
page that is left are dropped (`Left`). Which page sends which request is left out; a
tab may send any.

`req` is the request a thread of the pool serves. `ReadSession` is the HGETALL of the
RefreshTokenInterceptor and saveUser, `Refresh` its EXPIRE, each with the
LoginInterceptor after it where the code goes on (`Guard`); `Finish` is afterCompletion.
The handlers are `SendCode`, `CheckCode`, `SelectByPhone`, `CreateUserWithPhone`,
`StoreSession`, `ExpireSession` (login, one step per call of Redis or MySQL), `Logout`
and `Serve` for everything that needs no more than the user. A code that has run out
or is mistyped is one refusal. `SessionExpires` is the TTL of a token, at any time.

Failures: `ReadSessionFails`, `HandlerFails`, `Crash`, and `RefreshFails`, the one that
matters: Spring calls no afterCompletion of an interceptor whose own preHandle threw, so
the user saved before the EXPIRE stays in the thread. The next request on that thread,
if it has no session, is served as that user. `leaky`, `leaks` and `strangers` record it.

### VueScheduler and AssistantPage

`VueScheduler` is the part of the vendored `vue.js` 2.5.16 a page's timing rests on:
`NextTick` with its choice between a microtask and, inside the handler of a DOM event
(withMacroTask), a task; `Notify` (Dep.notify, queueWatcher); `FlushCallbacks`, which
copies the callbacks before it calls them; `Flushed`. Templates, virtual DOM and
components are taken as given: a render shows the data.

`AssistantPage` is the page. A task of the event loop starts when the last one and its
microtasks are over (`Idle`). `SendMessage` is _sendMessage up to the fetch; then a call
waits at `fetch`, `read` or `text`, an event of the network settles the promise
(`Settle`: `Respond`, `Stream`, `DeliverText`), and `GetResponse`, `ReadChunk`,
`ReadDone`, `GetText`, `CatchError`, `CatchAbort` are what runs from one await to the
next, the last four with catch and finally (`End`, `Fail`). abort() settles the promise
the call awaits, so that the AbortError comes in a microtask after the handler.
Messages are records of who wrote them for which call and of how much of which answer
they show. `dom` is what was rendered last: buttons are enabled by it (`ClickSendButton`,
`StartNewConversation`), handlers look at the data. `Browsers` are the ones with and
without AbortController and readable streams, in every combination: the code asks for each
of the two by itself.

## 3. Runs

All runs finish in minutes on two workers. Replicas (listener threads, pollers) and
requests that nothing tells apart are symmetric in the safety runs only.

| Run | Shows | Bounds |
|---|---|---|
| `two_instances` | Two replicas that listen and poll, a request, its repetition and a rival, any one fault: nobody gets two rows, no order two cancel messages, no unit is lost; the fault costs one accepted order at most, and only an order it touched ceases to be watched; without faults Redis accounts for every unit | 3 requests of 2 users, 2 units, 2 order listeners, 1 canceller, 2 pollers, 1 fault |
| `settles` | Two rivals for one unit with consumption inside the delay: under any one fault, a Redis that restarts from any earlier snapshot and an operator who preheats to 2 among them, the database implements `StockLedger`, staged writes are covered by record locks, listeners return (InnoDB deadlocks included) and user locks are freed; without faults a listener gives an order up only for a unit whose cancellation Redis knows before MySQL, and every accepted order is handled | 2 requests of 2 users, 1 unit, 2 order listeners, 1 canceller, 1 poller, 1 fault |
| `cache_converges` | Where an outdated cache entry can come from, that it goes away, that queries and the lock never hang | 2 replicas, 2 readers, 1 writer, 1 retry consumer, versions to 2, 1 fault |
| `limiter_window` | How many requests really pass per window, with clocks apart and scripts that run late | 4 requests, window 4, limit 2, skew 1, delay 1 |
| `unique_ids` | Ids whose count fits its bits are unique across midnight, clocks apart and a restart of Redis | 4 calls, days of 3 s, 2-bit counter, 1 restart |
| `community_calls` | Counts, sets and buttons are wrong only after calls of one user that overlapped or failed, and by no more than those; every steady follower gets the blog | 3 calls of 2 users, a tab each, 1 blog, 1 fault |
| `feed` | A scroll that met no other request and no push at its cursor shows each blog once, in order, up to the end | 4 blogs pushed at times 1 to 3, pages of 2, 3 requests, 1 fault |
| `session` | Requests run as the user their tab logged in as, also when logins, logouts, page loads and the end of a session overlap; a failure in the interceptor lends a user to one request at most; sessions that ended stay so; a session without an end is known to no tab | 2 tabs, 2 phones, 2 logins, 2 threads, 1 fault |
| `assistant` | Answers stay with their question and conversation, one call runs and can be stopped, what was stopped stays as it is, the screen catches up with the data and a question does not load for ever | 2 questions, 2 conversations, answers of up to 2 chunks, all 4 kinds of browser |
| `never_scanned`, `other_voucher`, `cache_mutex` | the findings below | smallest instance that shows it |

Why these bounds are enough to be interesting: the races need at most two actors of a
kind on one order, voucher, lock or entry, and one fault. Three requests give a
repetition and a competitor; in `community_calls`, two calls of one user make a double
tap and the third call a rival. Three blogs of one millisecond are the least that span
two pages, the fourth is pushed meanwhile. Two versions after the first give an update that overtakes a load and a
load that overtakes it. In `session`, two threads make a
login race a logout or another first login of the phone, and one fault leaves one user
behind. In `assistant`, two questions are a stopped one and its successor, and two chunks
make an answer that is cut in the middle. What the bounds cannot show, the proofs do.

CHECK_DEADLOCK is off in the Seckill, RateLimiter, RedisIdWorker, Community, Session and
AssistantPage runs: all requests may be answered, all messages handled, all tokens drawn,
the clock may reach its bound and the page may be left, and then the model stops.
ShopCache never stops.

What the properties say and where they could fail:

- `LedgerSpec`, `StockConserved`: no redelivery, duplicate, rollback, lost lock or late
  payment makes a unit leave or return twice.
- `OneRowPerPurchase`: the count in createVoucherOrder does not ensure it (the
  lock is gone before the commit); `seckill.lua` does, through `AcceptInv`.
- `RedisAccountsForEveryUnit`: the counter in Redis and the accepted orders add up although the INCR
  of a cancellation runs ahead of its transaction.
- `OneCancelMessage`: ZREM's result decides between pollers.
- `OneOrderPerFault`: an accepted order on whose behalf nothing is left to do, and that has
  no row, was lost to a fault, and no fault loses two: a crash between the script and
  Kafka, a send the producer gave up on, a lease that ends under a listener and hands its
  lock to a duplicate, a rollback. It is an invariant about runs with faults, while
  the next two are silent after the first one.
- `UnwatchedForAReason`: what ends the watch over an unpaid order (request, ZSet, poller,
  cancel message) is a fault, a cancel message that overtook its row, or the rollback of
  its cancellation; no step ends it for two orders, the crash between ZREM and send included.
- `SavedWithoutFaults`, `DroppedForAReason`: what becomes of an accepted
  order as long as nothing fails. `SavedWithoutFaults` is liveness (every accepted order's
  message reaches a listener that takes it to the end). `DroppedForAReason` names the two
  ways in which the listener then leaves no row: the user's lock is taken for another
  voucher, or MySQL has no unit yet that a cancellation has already given back to Redis.
  `AcceptedIsSaved` denies both; `other_voucher` refutes it by the first, and it is proved
  where neither can occur (section 4).
- `RedisStaleOnlyByRace`, `LocalStaleOnlyByRace`: an outdated entry has one of the
  named causes; in particular a failing DEL alone is covered by the retry.
- `CachesConverge`, `QueriesReturn`, `LockIsFreed`: TTLs heal what the races leave.
- `SlidingWindow`: at most `count` counted requests in any Window - MaxSkew - MaxDelay.
  (`RefusedForAReason`, refused requests and other users' requests use up nothing, is proved
  and has no run.)
- `UniqueIds`: for calls that a restart of Redis did not cut in two and whose count fits.
- `LikesDrift`: column and ZSet differ by at most one per call that overlapped another of
  its user or failed. `LikeCanBeTakenBack`: before the first such call, the
  UNSIGNED column refuses no decrement.
- `FollowsAgree`: Redis and MySQL agree on a user's follow unless calls of that user
  overlapped or failed, in however many tabs. `ButtonTellsTheTruth` needs, besides, that
  the user has one tab only: another tab's button is not told.
- `FollowersGetTheBlog`: saveBlog that returned has reached everyone who followed from
  before the insert until the followers were read.
- `ScrollInOrder`, `NothingSkipped`, `EmptyPageIsTheEnd`: the cursor (minTime, offset) loses and
  repeats nothing, across blogs of one millisecond and with pushes away from the cursor.

- `RunsAsTheTabsUser`: two first logins of a phone do not make two users, a token is of
  one user, and the thread-local user is the request's own; the one exception it names is
  the leak of `RefreshFails`, which `OneLeakOneRequest` bounds.
- `EndedStaysEnded`: HGETALL and EXPIRE are two calls, and EXPIRE does not bring a key
  back. `EndlessIsUnknown`: so are HSET and EXPIRE of login, and a failure in between
  leaves a session for ever, but its token was given to nobody.
- `OwnAnswer`, `CallIsControlled`, `StoppedStays`: messageIndex is computed after an
  await, errors go to the last message of their time, an aborted call's finally resets
  what a later call may have set. Where AbortController exists, each comes in the
  microtasks of the handler that aborted, before anything else can happen. Without it (the
  page asks, so it expects such browsers) a stopped answer goes on and lands in a later
  message: the three properties are guarded by `abortable`.
- `ScreenIsCurrent`: a microtask's update that joins a pending task, or the other way
  round, is not lost, and the scroll comes after the rows. `AnswerEnds`: isLoading comes
  back on every path, and the screen shows it.

### Fairness

`Seckill.Fairness`: request threads and scans that have begun, listener threads,
the producer's background sender, lock leases and InnoDB's deadlock detection go on:
they are threads and timers that nothing in the code stops. Weak fairness is enough,
as each of these waits for a condition that stays true until it acts. Nothing is
assumed of users, operators, payments, offset commits, snapshots or faults; faults are
finite by `MaxFaults`. That a new scan comes is assumed by `ScanningSpec` alone, the
specification of `never_scanned`, which fails although it is. `ShopCache.Fairness`: request and listener threads go on, and every entry
and lock with a TTL expires. `QueriesReturn` leaves out the one schedule a spin without
bound cannot survive, an entry that expires again and again before the reader gets to it.
Updates need no fairness, their number is bounded by `MaxVersion`.
`AssistantPage.Fairness`: Vue's timers and resumed calls run (weak), since the event loop
does not drop a task; an event of the network comes though the user keeps typing and
clicking (strong: between two tasks of the user it is enabled again and again). That a
request is answered or fails is not the page's doing (fetch has no timeout) but that of
the proxy in front of the backend. The liveness runs use no symmetry.

### Findings

1. `never_scanned`: `OrderDelayTaskRegistry.java:37` says that due tasks are scanned once a
   second and `VoucherOrderServiceImpl.java:83` and `:131` that unpaid orders are closed
   when their time is over. The method is @Scheduled, but nothing carries
   @EnableScheduling: the id stays in the ZSet and the row unpaid (`UnpaidIsSettled`). The
   scheduling is the only cause: with `SchedulingEnabled = TRUE` and consumption inside the
   delay the same instance satisfies the property.
2. `other_voucher`: the lock is per user, not per user and voucher: two replicas that
   handle one user's orders for two vouchers discard one as a repetition.
3. `cache_mutex`: the loser of the lock deletes the winner's lock through the finally
   block, so the database is not queried under mutual exclusion.

Also seen while modelling, with no run of their own: once scans run, a cancel message
handled before the order's row exists is spent on nothing (`VoucherOrderServiceImpl:138`),
and the row that follows is never closed (`UnpaidIsSettled` fails then too, with
`PromptConsumption = FALSE`); a crash or failed send between
`seckill.lua` and Kafka loses an accepted order while stock and order set keep it
(one per fault, says `OneOrderPerFault`); the script also writes it to
`stream.orders`, which nothing in the code reads, though the repository's README promises
"resume-from-break and ACK"; with one unit, a cancellation's early INCR lets Redis accept
an order that MySQL still refuses (the second reason of `DroppedForAReason`); when that
cancellation rolls back, its INCR stays: Redis accepts more than was published and MySQL
refuses the surplus (`StockConserved`); a blog pushed by a replica whose clock is ahead of
the browser's is not shown before the next first page; with `RedisForgets`, the order set
is lost and `OneRowPerPurchase` fails between two listeners, since the count in
createVoucherOrder runs outside the other's commit, and `OneCancelMessage` fails when a
snapshot from before a ZREM brings the id back (the theorems below therefore assume
`~RedisForgets`; a second cancel message finds the row closed, so the ledger
holds all the same).
`LoginInterceptor.java:40` has it that afterCompletion
keeps a reused thread from polluted data; it does so for the LoginInterceptor, not when
the RefreshTokenInterceptor fails after saveUser (`OneLeakOneRequest`). The string branch
of `formatPrice` in `common.js` compares a position with the length of an empty string and
would misplace the decimals; no page passes it a string.

## 4. Proofs

Every theorem holds for all values of the constants under the assumptions stated in
the modules: finite sets of orders and requests, types of functions, disjoint sets of threads.

- `StockLedgerProofs`: `LedgerConserves`, stock plus live rows is the published stock,
  by induction over the ledger's steps with the cardinality of `Holding`.
- `SeckillProofs`: `ListenersCovered` is the inductive invariant TypeOK /\ ListenerInv.
  A staged write is safe only because the record it touches is locked by the
  transaction, so ListenerInv says for each listener what it has staged, which locks
  it holds, and that the committed state still permits the commit (stock > 0, no row
  yet, row still unpaid). TypeOK alone is not inductive: the stock stays a natural number only
  because of this. `ImplementsLedger` maps every step to a ledger step or a
  stutter (the two commits and Pay are the only steps that move the database);
  `StockIsConserved` follows from it and `LedgerConserves`. `OneCanceller` rests on
  DelayInv (an id is in the ZSet, with one poller or on the topic; it gets there only by
  registration), `OneOrderPerPerson` on AcceptInv (whatever Kafka or MySQL holds was accepted by
  the script); both assume that Redis keeps its data (`~RedisForgets`), as a snapshot
  breaks either. `RedisAccounts` rests on AccountInv: record
  locks belong to listeners at work (LockInv), and while nothing failed every message was sent
  once and has at most one listener, and there is no row before that listener commits
  (DeliverInv). So no cancellation runs twice and MySQL has no deadlock to break, and the sum
  follows by adding or removing one element of `Claims`, per order accepted or INCR made.
  `DropsHaveReasons` adds CalmInv: while nothing failed, a user's lock is with the listener
  that handles an order of this user (so it is taken for another voucher or not at all,
  as the script accepts one order per voucher). That a unit is missing for a reason is
  counting: MySQL's stock and the rows that hold a unit add up, so do Redis' stock and
  `Claims`, and if no cancellation were between its INCR and its commit, the order that
  waits would be one claim too many.
  `WatchedUnlessFault` needs SettledInv: a cancellation that ends without having
  written saw a row that is settled already, unless the row is not there yet.
  `OneOrderLostPerFault` counts under `RoomForAll`: users who ask for one voucher each, and a
  unit for each of them (`two_instances` is such an instance). RiskInv says that there are
  at most as many orders at risk as faults so far. An order is OnItsWay, the
  opposite of at risk, when it is waiting with its user's lock free, or when its only
  listener holds the lock; a user has one accepted order (AcceptInv), so nobody else can take
  that lock, and a unit is left, as the orders that hold one are of different users. Each
  fault touches one order, and the others stay on their way; whatever is `Abandoned` is at
  risk. `NobodyIsDropped`, AcceptedIsSaved, is its case of no fault.
  The rest is what liveness needs besides fairness, under every fault. `DeadlocksArePairs`:
  a listener that holds a stock row waits for an order's row or for nothing, and the reverse,
  and whoever holds that order's row and waits, waits for the first. So the pairs of
  `BreakDeadlock` are all the deadlocks there are; `NoDeadlockByItself` says that it takes a
  fault to make one, since an order cannot be cancelled before it is inserted. `WaitsEnd`:
  while a listener is busy, one can take its next step or two are deadlocked.
  `LocksHaveOwners`: a user's lock is with a listener before its finally block or with a
  lease that ends.
- `ShopCacheProofs`: `RedisStaleness`, `LocalStaleness`. The strengthening is
  NoVersionAhead, nothing cached or in a reader's hand is newer than the database. It is
  needed where `save` commits and clears no cache: before the row exists no row can be
  cached, so none becomes outdated there.
- `RateLimiterProofs`: `WindowIsKept`, `RefusalsHaveReasons`, from MemberInv (the set
  holds requests that passed, each once) and CoverInv (who passed is still in the
  set until no later window can reach him; the key outlives its members). The second is
  about refusals, which no run checks. The
  bound then follows by counting: all counted requests of a window are members when
  the last of them is admitted, or were removed too early only if clocks
  are further apart than MaxSkew + MaxDelay.
- `RedisIdWorkerProofs`: `UniqueIdsTheorem`, from ClockInv (a clock read before a
  restart is behind every clock read after it, since a restart takes longer than the skew)
  and CountInv (between restarts a day's counter answers each value once), and from
  second * CountLimit + count being injective for count < CountLimit.

- `CommunityProofs`: `LikesStayClose` from LikesInv. The drift alone is not inductive:
  when a call adds a liker who is already there, it must be known that the call was
  irregular, which LikeAlone gives (a regular call has its user's entry to itself). The
  rest is counting elements of the sets of calls between their two updates.
  `LikesComeBack`: without irregular calls the drift is zero, and mapping the calls that
  are taking a like back to their users is an injection into the likers, so there is a
  like left for each. `FollowsStayTogether` from FollowAlone (an undisturbed user's
  calls come one after the other, the table ahead of the set in between),
  `ButtonIsRight` from ButtonInv, which says at each step of a call what table and button
  hold, `SteadyFollowersReached` from PushInv (a blog that is being pushed has reached or
  will reach every steady follower).
  For the feed, `ScrollInv` ties the calm list to the cursor: the list is the upper part of
  the inbox it began with, each blog once and in order, and the cursor stands behind its
  last blog, by score and by how many of this score were seen. It must speak of an answer
  under way as well, since the list grows only when the answer is applied, possibly after
  pushes above the cursor. `ScrollsInOrder`, `ScrollSkipsNothing` and `EmptyPagesEnd` follow.
  It rests on lemmas about `Sorted`, the order of ZREVRANGEBYSCORE: every place of it is
  taken by one blog (`EveryPlace`, `SortedIs`), what stands before a blog is what comes
  before it (`ComesFirst`), and a page from `Behind(b)` goes on with the blogs after b
  (`PageContinues`). Where these need induction over numbers, they take the least number
  for which the claim fails (`Smallest`, from the library's WFMin). The proof assumes that
  there are finitely many blogs (`BlogsFinite`).

- `SessionProofs`: `UsersAreTheTabs` from an invariant that follows a user from the row
  through the token to the tab. UsersInv is the unique index; TabInv says that a stored
  token is of its tab's phone and has an end; RequestInv says what a request may rely on at
  each step (for instance that a session read at `entries` is of the phone the tab had
  when it asked, although the tab may be somebody else's by then); HolderInv ties the
  thread-local user to the request or to the leak. `LeaksAreBounded` counts: leaks that
  have yet to meet a request (`Pending`) and those that did are no more than all.
  `EndlessSessionsAreUnknown` and `SessionsEnd` follow from the same invariant: a token
  that was drawn never becomes a new session's.
- `AssistantPageProofs`: ControlInv, PlaceInv, AnswerInv, StopInv under `abortable`. The
  properties are about the moments between tasks; the invariant must also hold while an
  AbortError is on its way (`Aborting`): then no controller is set and the one active call
  is the one that was aborted, so nothing else can start before its finally. PlaceInv, the
  running call owns the last message and messageIndex points to it, is what makes
  `OwnAnswer` hold through the awaits. SentInv and AwaitInv (a settled promise is the one its call
  awaits) hold in every browser. `StoppedAnswersStay` compares a step's two lists of
  messages: a call that resumes writes to the last message only, and that is not a stopped
  call's. `AssistantTypes` is for every browser too.
  `ScreenFollows` needs no word about calls. VueInv says that callbacks have a timer and that
  queued watchers have a flush waiting; ScreenInv, that what is not rendered is in the
  queue, and that rows rendered after the last scroll have a scroll waiting, or a callback
  that leads to one. It holds whichever timer, microtask or task, the callbacks share.
  `LoadingHasACall`, in every browser: what loads has a call that has not passed its finally.

Only model-checked: all liveness properties (`LedgerSpec` is safety and proved), as liveness
under fairness is outside the proof system, and the findings. Every invariant and every
action property of the passing runs is proved, some under the assumptions named above.

## 5. Not modelled, and why

PROJECT.json lists every component with its reason. In short: reads without
consequences (listings, GEO queries, shop types), formats and entities, uploads,
configuration; the AI backend, which does not compile at this commit
(`CommonConfig` has text after its last brace, `ChatController` calls a method that
`ConsultantService` lacks); `SimpleRedisLock`, which nothing uses.

Third-party front-end code. `vue.js`, `axios`, `element.js` and the nginx tree are copies of
libraries and make up most of the repository's JavaScript by far: `vue.js` alone has some
eleven thousand lines, the scripts of this project less than five hundred. Of `vue.js` only
the scheduler is modelled, as the pages depend on its order of events; its template compiler,
patch algorithm and components are pure transformations that the pages take as given.
The share of all JavaScript lines that the models stand for is therefore small by nature, and
the logic of this project is mostly in Java, Lua and the scripts inside the HTML pages.

Abstracted inside the modelled parts: contents of messages and rows, logging, which
header the limiter takes an address from, the length of TTLs (an entry may expire at any time),
partitions of a topic (any order of delivery), the browser's back-forward cache, pages that
stay on screen while the next one loads, a Redis that forgets sessions, the height
and focus of the assistant's textarea, `footer.js` (one menu that highlights where it is).

## 6. State of the plan

Done: the flash sale with its abstract ledger, the cache, the limiter, the ids, likes,
follows and the feed, sessions and the page of the assistant; each with runs
and proofs.

What would come next, in this order:

1. The paged listings of `shop-list.html` and `index.html` with
   queryShopByType's GEO page (skip, limit), on a list that changes meanwhile.
2. The bitmap of a month and signCount's run of bits, as a recursive function
   against its definition.
3. An abstract `Scroll` (the list is a prefix of the sorted inbox) that `FeedPage`
   implements for calm scrolls.
4. The limiter's and the id worker's promises as instances in Seckill's requests,
   instead of assumptions.
5. The assistant's backend and its chat memory, once it builds.

Theorems to come: that `FeedPage` implements the abstract `Scroll` of point 3; the counting
lemma of the limiter stated for weighted members.
