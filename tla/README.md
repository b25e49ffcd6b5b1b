# Verification of the spring-boot-event-driven-lab application

TLA+ modules of the application under `src/`, the TLC configurations that
check them on small instances, and proofs for TLAPS about every component that
is modelled. The code is the reference: every definition that models code has its
lines in `PROJECT.json` under "map".

## 1. The system

One Spring Boot program (Kotlin) with MySQL, Redis and RabbitMQ beside it, two
static demo pages, and a "Visual Lab", a static page that walks a learner
through the program's scenarios.

| Component | State | Operations | Talks to | Hard behaviour | What makes it correct | Module |
|---|---|---|---|---|---|---|
| Order events (`OrderEventController`, `OrderService`, `EventPublisherService`, `NotificationConsumer`, `NotificationService`, `EventConfig`) | `orderSequence` (an `AtomicLong`) and `notifications` (a `ConcurrentHashMap`) in the heap; a durable queue in the broker | `POST /event-orders`, publish, deliver, record, acknowledge | RabbitMQ, from HTTP threads and from the listener thread | at-least-once delivery, no publisher confirms, crashes that empty the heap and not the queue | an event is in one place, is acknowledged only after `record`, and is dropped only for an orderId used again; stored events are consumed in the end | `OrderEvents`, `EventDelivery`, `OrderDelivery` |
| Notification listing (`NotificationService.getAll`) | none of its own | `GET /event-orders/notifications` | the map, while the listener adds to it | a sort that reads the map in several steps | complete and sorted answers | `NotificationListing` |
| Posts and their cache (`PostController`, `PostService`, `PostQueryService`, `PostCacheService`) | table `posts`, keys `post:{id}` in Redis | create, get, list, update, delete, expiry | MySQL, Redis | no transaction spans table and cache; no row is locked between find and commit | only committed rows are read; a stale entry has a cause and expires; only the author writes; a deleted post stays deleted | `Posts`, `PostStore` |
| Accounts (`AuthService`, `OAuthAccountService`, `OAuthLoginSuccessHandler`, `User`) | table `users` with a unique index on `email` | sign-up, OAuth login, password login, `/auth/me` | MySQL, the OAuth provider | check and save are separate repository calls; addresses are compared by spelling in Kotlin and by collation in MySQL | one account for a mailbox, no account changes hands | `Accounts` |
| Visual Lab (`docs/visual-lab`) | the `state` object of the page, keyboard focus | select a scenario, predict, reveal, walk lanes, messages and routes, reflect, check off | animation frames, `prefers-reduced-motion` | indices into data with gaps; renders that overtake frames | the walk stays in the scenario and on its path, nothing is shown early, focus comes back | `VisualLab`, `Sequence12` |
| Access tokens and the filter chain | none (signed tokens) | create, validate, read | every protected call | a token names an address, not an account, and addresses change hands | a token speaks for the account it was made for; a post is its author's | `Authorship` |
| Chat (`WebSocketConfig`, `WebSocketController`, `realtime-demo.html`) | subscriptions in the simple broker; `stompClient` of a page | connect, subscribe, send, broadcast, disconnect | browsers | frames handled by thread pools, connections a page forgets, two ends that learn of a lost connection apart | what is sent is shown on every page that is connected, once, unless one of few causes explains why not | `Chat` |
| Auth demo page (`auth-demo.html`) | `accessToken`, the status box | sign-up, login, `/auth/me`, reset mail, return from OAuth | `/auth`, `/account-recovery` | answers out of order | none beyond showing the last answer | none |
| Account recovery | none: the token of the link is not stored | reset mail | MySQL, SMTP | none | no answer depends on whether the account exists | none |
| Errors, DTO validation | none | map an exception to a status | | none | | none |
| Deployment (`deploy.yml`, `scripts`, `compose.prod.yaml`) | containers, `.env` | build, upload, up, check | Docker | the check races the start, jobs of two pushes overlap | a deployment that comes up passes | none |

The components meet in few places. Order events and the listing share the
notification map. Posts take the author's name from the access token, which
Accounts hand out; `Authorship` composes the three. The chat takes messages
without a token and meets none of the others. The Visual Lab runs in a browser
by itself.

## 2. Modules

`OrderEvents` has one variable for each piece of state of the pipeline, in four
groups: the HTTP threads (`pc`, `host`, `born`, `orderId`), the processes
(`running`, `incarnation`, `orderSequence`, `notifications`), the listener
container of each process (`connected`, `prefetched`, `listener`, `phase`) and
the broker (`inFlight`, `queue`, `unacked`, `faults`); `lost`, `settled` and
`consumed` are history that no action reads. `CreateOrder` is the service up
to the publisher, `Send`, `PublishThrows` and `Respond` are `convertAndSend`
and its two ends, `Accept`, `Lose` and `Deliver` the broker, `Take`, `Record`,
`Ack`, `AckFails` and `Connect` the listener container around
`consumeOrderCreated`. A request stands for its user and product, so an event
is an orderId with a request. The publisher's connection is not the listener's:
`connected` is about the listener only. `record` never throws, so a failing
listener is not modelled.

`EventDelivery` says what the pipeline promises about one event: it may vanish
before it is stored, and from then on stays until it was handled, perhaps more
than once. `OrderDelivery` gives the refinement mapping (`StageOf`).

`NotificationListing` takes `getAll()` apart. `sortedBy` asks for the size and
sorts a copy when there are two entries or more; otherwise `toList` asks again
and answers with nothing, with the first element of an iterator, or with an
unsorted copy. `Sorted` puts an entry where the number of entries before it says
(`Place`). The walk over the buckets and the size that is counted up after
the insertion are those of `ConcurrentHashMap`. In `OrderEvents` `record` is
one step, `putIfAbsent`; here it is two, because the listing can tell.

`Posts` has the table, the cache, and for each HTTP call the place it is at,
what it asks for and what it read. A get looks into the cache, loads and fills;
an update or delete finds and checks the author, commits, and then evicts,
outside of the transaction. `version` numbers the commits of a row and is not
in the program. `CacheFails` and `RollBack` are the failures of Redis and the
database, after which a command may have taken effect or not. Calls are numbered
as they arrive, which is no restriction and spares TLC their permutations.

`PostStore` is what the table promises: `Publish`, `Edit` and `Remove` are one
step each, and only the author's. `Posts` implements it
(`ImplementsPostStore`): an id without a row is fresh or gone by its version,
and `editors`, whose calls took effect on a post, are the users of the calls
that committed something to it.

`Accounts` has the table and its id counter, and for each call the step it is
at and the detached row it read. Nothing is transactional, so every repository
call is an action: `EnsureEmailAvailable` and `Insert` for sign-up,
`FindIdentity`, `CompareEmail`, `Save`, `FindEmail` and `Insert` for OAuth.
`Admits` is the unique index. An address is a mailbox in a spelling:
`SameAddress` is the collation of `compose.prod.yaml`, `=` is Kotlin's.

`Authorship` extends `Accounts` and instantiates `PostStore`. Every step of
`Accounts` is one of its steps (`AccountStep`), and the one that saves the row
of an OAuth login issues its token (`Issued`), which is made from the address
that was saved. `Login` is the password login. `Publish` and `EditOrRemove` are
the calls of `PostController` by somebody with a token, `CurrentUser` is what
`/auth/me` finds. `owner`, the account in a token, `renamed`, the accounts whose
address changed, and `raced`, the persons whose first logins ran side by side,
are history: the program knows addresses only. `TokenSpeaksForItsAccount` and
`AccessFollowsAuthor` leave renamed accounts out. Their posts and tokens stay with
the address they had, which another account may take; the properties say that
only a rename brings this about, and do not rule it out.

`Chat` has for each page the number of times Connect was pressed, and for each
press a connection with its place in stompjs (`phase`) and at the server
(`server`). `stompClient` is the connection of the last press; an earlier one
stays as it was. Frames on their way to the server, its pool included, are a
set, and so are those on their way back: neither pool preserves an order unless
it is configured to, and `WebSocketConfig` does not. `HandleSend` is the
controller with the broadcast, which the simple broker makes in the same
thread. `Opened` is the connect callback. It subscribes through `stompClient`
(`Subscribes`), which is another connection once Connect was pressed again:
`carrier` says on which one, and a subscription is named by the connection
whose callback made it. Where that one is not open the call throws and there is
no subscription.

A connection ends at each end by itself. `Sever` is the server's: it ends the
subscriptions of the session, SENDs that had arrived are still handled, those in
transit are `lost`, deliveries that were written may arrive, and the page goes on
to take the connection for up, to send into it and to miss what is broadcast,
until `Drop`. `Crash` does this to every session at once and takes what
the pools held. `Drop` is the page's end, and so are `Closed` and a Disconnect
while the connection opens: whatever the server does for the session from then
on reaches nobody, except for its SENDs, of which any may arrive or be lost
(`Closes`). stompjs, SockJS and Spring's channels and broker are external.

`VisualLab` is parameterised by the data of the scenarios. `Steps` is
`semanticSteps`: the n-th step is the complete edge with n - 1 complete edges
before it (`NthComplete`), by lane and then by place in the lane; `LaneStart`
counts all edges of the lanes before. `Columns` is `diagramParticipantIds`, by the
same means: the places where a node is named (`ColumnPlaces`, the declared list
before the edges, each node of an edge where it is named first), in their order.
`LaneContext` is `currentLaneContext`, `HasNext`, `NextIndex`,
`HasPrevious` and `PreviousIndex` are the two buttons, `ActiveNode` and
`StepOfNode` the route; `Render` is the state change, the clamp and the request
for a frame, and `Frame` serves the requests in their order. `Sequence12` is
the data of sequence 12; `MCVisualLab` adds lanes that fork and join and lanes
with incomplete edges, which the page accepts and sequence 12 does not have.
The scenarios' ids are taken to be unique. JavaScript divides in floating point
before it rounds and `Round` is exact; `RoundBack` (section 5) shows that what
is rounded is never near a half when a step is mapped back to its node, so the
way a half is rounded does not decide what is marked. `AllComplete`, `NoEmptyLane` and
`NoEmptyRoute` say which data has no gaps.

The modules `X_proofs` hold the theorems about `X`.

`MCOrderEvents`, `MCNotificationListing`, `MCPosts`, `MCAccounts`,
`MCAuthorship`, `MCChat` and `MCVisualLab` give TLC its values. Operators called "variant" in a comment are
what a plausible mistake would make of the definition after them; they are used
by no action and serve to show that a property can fail.

## 3. Runs

| Run | Instance | Shows |
|---|---|---|
| `order_events` | 2 calls, 2 processes, each may crash once, 1 fault, prefetch 2 | custody of the events, acknowledgement after `record`, one notification for an orderId, notifications stay, drops only for a reused orderId, nothing handled twice before a fault; `IndInv` |
| `order_events_liveness` | 2 calls, 1 process, 1 crash, 1 fault | stored events are consumed and settled; `EventDelivery` is implemented with its liveness |
| `order_events_restart` | 2 calls, 1 process, 1 crash | finding: a consumed event without a notification |
| `notification_listing` | 5 orderIds, 4 buckets | answers are drawn from the map, complete and sorted from two entries on; what may be missed otherwise |
| `notification_listing_sorted` | the same | finding: an unsorted answer |
| `posts` | 3 calls, 1 post, 2 users, 2 contents | what the cache may hold and why; that it agrees with the table in the end; that the table implements `PostStore` |
| `authorship` | 3 calls, 2 mailboxes in 2 spellings, 2 identities, 1 post | one account for a mailbox, accounts keep their identity, a token speaks for its account and a post is open to its author's account alone, until an account is renamed; when a person gets two accounts |
| `accounts_spelling` | 2 calls | finding: a login refused for the person's own row |
| `chat` | a page that connects twice, a page that connects once, 1 message | what makes a page show a message twice, what it takes to miss one (each of the four causes of `HasCause` occurs); that it is shown in the end otherwise |
| `visual_lab_sequence12` | the scenarios of sequence 12 | lane buttons open the lanes of the data at their first message |
| `visual_lab_linked` | lanes that fork and join, a lane of nine messages, two routes | what is drawn, where buttons and clicks lead, where the focus goes |
| `visual_lab_incomplete` | incomplete edges, empty flows, no options | the walk stays inside; nothing is shown before it was predicted |

### Bounds

- `MaxCrashes` and `MaxFaults` bound crashes and faults. One crash is enough
  for an orderId to come back while its namesake is queued, and one fault for a
  delivery to be abandoned in each phase of the listener. Two calls are enough
  for two events with the same orderId, two processes for a message that one
  abandons and the other receives. The theorems need none of these bounds.
- `Buckets` is 4 where the JDK has 16 to begin with: five orderIds share a
  bucket and lie in the table in another order than their own. That a table
  grows is left out; a walk then visits the entries in another order still.
- In `posts` a write, a read that overtakes it and a second write fit into
  three calls. Ids are not used twice, so posts do not affect one another and
  one is enough.
- In `authorship` three calls are a check, a save that gets in between, and a
  third that meets the result; or an account, its rename, and another account
  that takes the address it left, while the tokens of all three are in use. One
  post is enough, posts do not affect one another.
- In `chat` a message meets no other, so one stands for all; two presses are
  enough for a connection that its page forgot, and the page beside it for a
  sender that is not the one who listens. Losses need no bound: each end of a
  connection is lost once.
- `MaxPending` bounds the renders before a frame; two make one overtake.

TLC explores calls, processes, mailboxes and identities up to symmetry in
`order_events` and `authorship`, and nothing up to symmetry where liveness is
checked. `posts`, `authorship`, `accounts_spelling` and `chat` may stop when
every call has ended or every connection is closed; there deadlock is not an
error.

### Fairness

In `OrderEvents` the threads of a call run on and the container's thread and
the restart policy of `compose.prod.yaml` (`unless-stopped`) do their work, each
weakly fair; the broker hands ready messages to whoever is connected. Nothing
makes the network bring a sent event to the queue, since there are no publisher
confirms: `Accept` and `Lose` have no fairness, and no property needs it. In
`Posts` calls that were received are served, and Redis removes what has expired.
In `Chat` frames and deliveries are passed on and handled as long as the
connection lasts, and nobody has to connect, send or stay: over a network that
has gone silent nothing arrives until SockJS's heartbeats make an end give the
connection up, which is `Sever` or `Drop` and takes what was in transit with it.
`NotificationListing`, `Accounts`, `Authorship` and `VisualLab` state safety
only.

## 4. Findings

- `order_events_restart`: `orderSequence` starts at 1 in every process and the
  queue is durable. An event that waits through a restart and a new one carry
  the same orderId, and `putIfAbsent` keeps one of them; the other order's event
  is consumed and leaves no notification, which `docs/checklist.md:17` promises.
- `notification_listing_sorted`: the listing is sorted by orderId according to
  `visual-lab-data.js:576`. When the size is one as `sortedBy` asks whether there
  is anything to sort, and two as `toList` makes the copy, the copy goes out as
  the buckets have it. By the same way a listing can show a new notification in
  place of the one that was there before (`MissesAtMostOne`).
- `accounts_spelling`: an OAuth account whose provider reports its address in
  another letter case is sent to `link_required` because of its own row, where
  `OAuthAccountServiceTest.kt:44` speaks of an address that collides with
  another account's. `RefusalsNeedACause` (section 5) says what the refusal takes:
  another spelling, or two logins of one person at once, of which the second still
  holds the row with the address that the first has replaced.

## 5. Proofs

Every theorem holds for all values of the constants that the assumptions of its
module admit; none of the bounds of section 3 is needed. The assumptions are:

| Assumption | Says | Why |
|---|---|---|
| `BoundsAssumption`, `NoInstanceAssumption`, `NoEventAssumption` (`OrderEvents`) | bounds are numbers, `NoInstance` is no process, `NoEvent` no event | names for "none" |
| `ListingAssumption` | orderIds are numbers, there is a bucket, `NoId` is no orderId | orderIds are `Long`, a table is never empty |
| `PostsAssumption`, `StoreAssumption` (`Posts`), `AuthorshipAssumption` | calls are numbered, `NoRow`, `NoCall`, `Fresh` and `Gone` are none of what they stand beside | calls are numbered as they arrive |
| `AccountsAssumption` | there is a lower-case spelling, `Local` is no person, `NoUser` and `NoCall` are none | `normalizeEmail` writes lower case |
| `ChatAssumption` | a page's presses are a number, `NoConnection` is no connection | the bound, a name for "none" |
| `ScenariosAssumption` (`VisualLab`) | there is a scenario; its lists by lane are as long as its lanes | the page does not start without one |

The method is the same in each module. The safety invariants are seldom
inductive, so an inductive invariant has them, or what they follow from, beside
what else every step needs; it was checked with TLC on the instances of the runs before it
was proved. There is a lemma for each conjunct with a step for each action that
can disturb it, and the theorems follow.

**Order events** (`OrderEvents_proofs`, `OrderDelivery_proofs`).

- `TypeCorrect`: `TypeOK` is inductive by itself.
- `Inductive`: `IndInv`. That orderIds of a process differ needs the sequence to
  be ahead of all it gave out (`SequenceIsAhead`, where `born` tells a process
  from the one before its restart); that only consumed events are settled needs
  the listener to have recorded what it returns from (`ReturnedIsRecorded`); that
  custody is exclusive needs an open channel's consumer to hold nothing but what
  is unacknowledged (`ConsumerHoldsUnacked`), and events to be those of their
  calls (`EventsComeFromCalls`), so that an event that is sent is new.
- `Safety`, `OneNotification`, `SettledConsumed` are what follows: distinct
  orderIds, one notification for each, exclusive custody, nothing settled that
  was not recorded, no 201 before the event was handed over.
- `DropsAreIdReuse`: an acknowledged event without its own notification shares
  its orderId with a call of another process. `OneLifeRecordsAll`: with one
  process that never crashes every consumed event is recorded, so the restart in
  the finding is necessary.
- `NotificationsPersist`: a living process keeps its notifications.
- `HandledOnce`: no event is handled twice before the first fault, for any number
  of processes that take from the queue. Until then (`FirstDeliveries`) a closed
  channel is one that was never opened, and a handled event is settled or still
  with its consumer, which alone holds it unacknowledged.
- `Implements`: every step is a step of `EventDelivery` or a stutter.

**Notification listing** (`NotificationListing_proofs`). `ListingInv` ties the
walk to the table: what lies before the walk's bucket and was recorded when the
call began has been seen (`WalkIsInOrder`), a call that reached `toList` began
with one notification at most (`BegunIsRecorded`, because the size is counted
up after the insertion: `SizeIsOfRecorded`), and the iterator still has an entry
before it (`IteratorFinds`). `SortingSorts` shows that `Sorted` orders a sequence
without repetition and loses nothing. Then: an answer is of the map
(`AnswersAreOfTheMap`), complete and sorted from two notifications on
(`AnswersAreComplete`), and misses at most one (`AnswersMissOne`).
`SortedUnlessRaced`: in a behaviour where `toList` never finds a second entry that
`sortedBy` did not find (`[]SecondLookAgrees`) every answer is sorted; the race in the
finding is necessary.

**Posts** (`Posts_proofs`). `IndInv` adds to the invariants that a call at its
commit holds a row of its own user, whose author the table still has if it has
the row (`AuthorStillHolds`: nothing changes the author of a row and no id
comes back), that no committed row is ahead of its id (`CommitsAreOrdered`), and
that a delete left its id empty (`DeletedIsGone`). The hard cases of
`StaleExplained` are the commit, which makes every entry of its post stale and
explains it by itself, and the late fill, which puts an old row there. `Implements`: every
step of `Posts` is `Publish`, `Edit` or `Remove` of `PostStore` or leaves its
variables alone, although author check and commit are steps apart.
`StaleOnlyUntilEvicted`: in a behaviour where no read holds a loaded row while a
write of the same post stands at its commit (`[]ReadsBesideNoCommit`), every stale
entry has a writer that has yet to evict it or that failed after its commit.

**Accounts and authorship** (`Accounts_proofs`, `Authorship_proofs`).
`AccountsInv` adds that the detached row of a login has the id and the person of
a row of the table, whatever address that has by now (`HeldRowExists`); so `Save` writes over
its own row and the unique index does the rest. `AccountsInComposition` carries
all of it over to `Authorship`. `RefusalsNeedACause`, for the finding of section 4:
with one spelling, and in a behaviour where no two logins of one person are under
way at once (`[]LoginsSeparate`), a changed address is refused only for another's
account; then a person has one account and the row a login holds is that of the
table (`OneAccountPerPerson`, `HeldRowIsCurrent`). `AuthorshipInv` adds that tokens and posts have
rows with their address behind them until these are renamed
(`TokensHaveRows`, `PostsHaveOwners`), and that a login on its way to an insert
of a person whom the table has by now is one that ran beside another
(`LateFirstLogins`).

**Chat** (`Chat_proofs`). For `MissedCaused`: what either end of a connection
takes it for limits the other (`EndsMatch`), and frames agree with both
(`FramesMatchPhase`). While both take it for up and its own callback subscribed on it
(`Hears`), it is subscribed or its SUBSCRIBE is there (`HearsOrWillHear`), so
that a message it was there to hear is under way as a SEND, under way to it,
shown, lost with its SEND, or has overtaken the SUBSCRIBE (`DueIsPending`).
Without an overlap the callback finds its own connection in `stompClient`
(`CarriesItself`), since only the connection of the last press is up
(`OnlyLastIsUp`). These two and that a message is broadcast once (`SentOnce`)
give `DoubledOverlap`.

**Visual Lab** (`VisualLab_proofs`).

- For any data, with gaps or without: `TypeCorrect` (the clamp of `render()` holds
  the index, and every index that a handler computes is a number),
  `UnseenIsUnpredicted`, `ColumnsOfEnds` (both ends of every message drawn have a
  column: the messages drawn are of the active lane, and the first place that names
  a node is one of `ColumnPlaces`), `WalkStaysInLane` (a click on a message, and the
  two buttons where they change no lane, stay in the lane, since the steps of a lane
  are an interval: `LaneIsInterval`), and `NodeIsActive`, by arithmetic: of A + 1 nodes and
  B + 1 steps with A <= B, Round(Round(nB / A) A / B) = n (`RoundBack`).
- For data without gaps (the run's data is, by `DataIsWhole` in `MCVisualLab`):
  steps and edges correspond (`StepOfEdge`, `EdgeOfStep`), so an index is a lane and a
  place in it (`EdgeOfIndex`) with the whole lane as its context (`ContextOfEdge`).
  From this `ActiveShown`, which needs `AllComplete` alone, and `NextFollows`, `LaneOpens` and
  `PreviousUndoes`, which need `NoEmptyLane` as well. With an incomplete edge
  these fail: `laneStartIndex` counts it and `semanticSteps` does not.
- `FocusIsBack` needs the three and the invariant `LastIsOnPage`: the last
  element asked for is on the page, because nothing that renders
  without asking takes it away.

Model-checked only:

- liveness: `QueuedIsSettled`, `EventuallyConsistent`, `SentIsShown`, and the
  fairness part of `ImplementsDelivery`;
- the three properties that the findings refute. What each takes is proved
  (`OneLifeRecordsAll`, `SortedUnlessRaced`, `RefusalsNeedACause`); in these theorems,
  and in `StaleOnlyUntilEvicted`, the hypothesis is on the behaviour or on a constant, and
  no run assumes it.

## 6. What is not modelled, and why

- A broker that loses what it just stored. `BrokerRestart` keeps the queue, as
  a durable queue with persistent messages is kept by an orderly restart; the
  queue is bound when the program starts, before the first event.
- Wording, formatting and validation of requests: `@NotBlank` turns a blank
  field away before the services' own checks can.
- The list of all posts: a single read past the cache.
- That a token expires. `Authorship` lets every token be used at any later
  time, which allows more than the program does. A token that expires between
  `validateToken` and `getEmail` makes that one call fail and changes nothing
  else.
- That the table of a `ConcurrentHashMap` grows while a listing walks it: the walk
  then visits some buckets in the table it began with and some in the new one,
  each entry at most once. Which entry comes first, and the order of an unsorted
  copy, may then be others; neither is promised.
- The order of chat messages: every order happens in `Chat`, none is promised.
- The auth demo page: one variable that the last answer sets. Its requests are
  actions of `Accounts` and `Authorship`, which take them in any order.
- Deployment: jobs of one step each, whose hazards (a check that asks once
  without waiting, two workflows in one directory) are of wall-clock time and
  of GitHub's scheduling. What the deployed configuration means for the program
  (restart policy, collation) is in the modules.
- Account recovery, the conversion of OAuth profiles, errors, DTO validation:
  no state.

## 7. Plan

1. What the lane buttons still do in data with incomplete edges: `LaneStart`
   counts edges that `Steps` has not, so a lane may open at any of its steps or
   in a later lane; say by how much.
2. In `Chat`, what configuring the two pools to preserve order would promise.
