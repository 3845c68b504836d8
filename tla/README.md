# Truck platooning: a TLA+ model of its two programs

The repository implements a platoon of trucks on two programs. The *leading
truck* (`src/src/main.cpp`) runs a TCP server, two command workers and an
application state machine. *Following trucks* (`src/src/following.cpp`) connect
to it, authenticate, join, report their status and leave. This project models
both: every thread of the leading truck, the state its threads share and what
they do to the connections; and the process of a following truck, with the
leading truck as it sees it. The paths below are relative to `src/src/`.

Contents: [the system](#1-the-system) ·
[modules](#2-modules-and-how-they-map-to-the-code) ·
[modelling decisions](#3-modelling-decisions) ·
[properties and runs](#4-properties-and-runs) ·
[proofs](#5-proofs) · [findings](#6-findings) ·
[not modelled](#7-what-is-not-modelled) · [plan](#8-plan)

## 1. The system

### Components

| component | state | operations | correct when |
|---|---|---|---|
| **Truck registry** `control/trucks_manager.*`, singleton, no lock | `map<int, pair<id, socket>> trucks`, `currentOrder` | `addTruck`, `removeTruck` (re-indexes), `find`, `getSocketId`, `getTrucks`, `getTrucksBehind`, `isSlotAvailable` | orders have no gap, so `++currentOrder` overwrites nobody; a truck keeps its socket; the trucks form a line joined at its tail |
| **Command queues** `control/event_manager.h` | per queue: `queue`, `mutex`, `cv`, `stopFlag` | `enqueueCommand`, `dequeueCommand`, `stop` | no lost wake-up; nothing lost, duplicated or reordered; `stop` drains |
| **TCP server** `communication/platoon_server.*` | per connection: socket, `isAuthenticated`, `truckId` (locals of a detached thread) | accept, authenticate, enqueue, reject, close and remove | exactly the authenticated, live connections are in the registry |
| **Event FSM and workers** `control/event_manager.*` | one `TruckEventFSM` shared by both workers: `currentState`, `emergencyEnabled` | `setState`, `handleEvent`, `handleJoin`, `handleLeave`, `handleCommunicate`, `handleExternal` | every command handled, throw or not; slots respected; messages reach the truck they are meant for |
| **Platoon data** `control/monitor.*`, singleton | `PlatoonData`, `dataMutex` | `init`, `getPlatoonData`, `updateTruckField` | no update is lost |
| **Application state machine** `app.h`, `app.cc` | `currentState`: INIT, IDLE, NORMAL_OPERATION, EMERGENCY | `init`, `idle`, `normalOperation` (sync to all), `emergencyBrake` (UDP broadcast), `switchToEmergency`, `switchToNormal` | an emergency is broadcast and ends only on request |
| **UDP broadcast server** | socket, address | `initialize`, `sendBroadcast` | |
| **Following truck** `control/following_truck.*`, `following.cpp` | FSM: `current_state`, `next_state`, `prev_state`; `retry_times`, `truck_status`, `in_Emergercy`, `leadingNoti`, `request`; six threads, no lock | authenticate, join, status, obstacle, listen, brake, recover, leave | it operates only as a registered member with working sockets; its threads last as long as the session; a lost connection is recovered |
| **Platoon client** `communication/platoon_client.*` | `tcpSocket`, `udpSocket` | `startClient`, `closeClientSocket`, `sendMessage`, `receiveTCPMessage`, `receiveUDPMessage` | both sockets work after a successful start |
| Message format `communication/comm_msg.h`; configuration, logging, ids `utils/*` | | | |

### Threads of the leading truck and what they share

```
 peers --TCP--> accept loop ---> connection threads (detached, one per peer)
                                    |  addTruck / removeTruck      |
                                    |  enqueueCommand              v
                     regularQueue --+-- emergencyQueue         registry  <--+
                           |                 |                    ^         |
                     regular worker    emergency worker           |         |
                           +--- one TruckEventFSM ----------------+     app thread
                                |          |    switchToEmergency       ^   |
                           platoon data    +----------------------------+   +--UDP--> all
```

* Connection threads write the registry and the queues.
* Both workers use *one* FSM object with no lock: each writes `currentState`
  with `setState` and then dispatches on `currentState` with `handleEvent`.
* Workers read and write the registry, the platoon data, the application's state
  and all sockets.
* The application thread reads the registry and sends on all sockets.
* Only the queues are locked, and the store of `updateTruckField`.

### Threads of a following truck

```
 driver --request--> FSM thread ----- tcpSocket ---- leading truck
                       |  creates on joining            |        |
       next_state,     +-- send_current_status ---------+        |
       retry_times     +-- check_obstacle --------------+        |
       leadingNoti     +-- check_lead_message ----------+        |
       in_Emergercy    +-- check_broadcast_message -- udpSocket--+
```

All six threads share the variables on the left with no lock, and three of them
receive or send on one TCP socket. The four session threads end when they see the
state IDLE.

### Hard behaviours

* Two workers on one FSM: a command can be run by another command's handler.
* A socket is an integer that the kernel reuses as soon as it is closed, and
  sockets are looked up, kept in lists, and used later.
* `close` comes before `removeTruck`; `addTruck` before the `auth_ok` reply.
* A truck can be removed by its `leave_done` (worker) and by its disconnect
  (connection thread), in any order.
* The TCP server and the workers are up while the application still boots.
* Handlers throw (an unknown command, a `json` object passed where a
  `std::string` is wanted), and the worker's loop must survive it.
* The FSM thread of a follower and its listener wait for messages on one socket:
  each takes answers meant for the other, and the first message after a request
  is taken for its answer.
* `next_state` is written by threads that act on what they saw rounds ago, so a
  recovery or a failed leave resumes in a state of the past.
* Session threads detach themselves, so joining them before leaving does not wait;
  one that blocks in a receive meets the next session.

`PROJECT.json` lists each of these with its line, under "hazards", together with
the properties that watch it, or the reason why none does yet.

## 2. Modules and how they map to the code

```
PlatoonOrder      <-- refined by --  TruckManager <- PlatoonServer <- EventManager <- LeadingTruck
CommandFifo       <-- refined by --  CommandQueue        (EXTENDS, from right to left)
FollowingTruck --EXTENDS--> PlatoonClient
Membership        <-- refined by --  LeadingTruck, and by PlatoonClient inside FollowingTruck
RegistryRace   --EXTENDS--> TruckManager
SpeedControl      (shares no state with another module)
```

* **TruckManager** — the registry. `trucks` is a function from orders to
  `[id, socket]`. The mutating methods are actions, the const ones operators.
  The walk over a `std::map` in key order is `InOrder`. `removeTruck` erases the
  *first* entry of an id and renumbers from 1 (`trucks_manager.cpp:36-46`).
* **PlatoonOrder** — what a registry promises: a line of trucks, joined at its
  tail, left by the first entry of an id, the rest closing up in order.
* **CommandQueue** — one `MsgQueue` with its condition variable and the worker
  that serves it. `worker` tells whether the worker is about to test the
  predicate, in the wait set, handling a command, or gone. Spurious wake-ups,
  `stop` at any time and enqueues after `stop` are all there.
* **CommandFifo** — what a queue promises: first in, first out, each command
  handled once, the consumer leaving only when nothing is pending.
* **PlatoonServer** — the accept loop and the connection threads. `connPc`
  follows a thread through `handleTruckSocket`; `fd` is its descriptor. The four
  places where the outside can see a thread between two statements are steps of
  their own: before and after `addTruck`, between it and the `auth_ok` reply,
  and between `close` and `removeTruck`.
* **EventManager** — `processCommands` of both workers and all handlers of the
  FSM. `pc[t]` is the place of thread `t`; `msg`, `list`, `sock` and `temp` are
  its locals (the message, the list of trucks taken by `getTrucks`, a looked-up
  socket, a field of the platoon data that was read). A step is *one* access to
  shared state: one call of the registry, one read or write of a field, one
  `send`. So `updateTruckField(&PlatoonData::speed, getPlatoonData().speed - 15)`
  is two steps, `readSpeed` and `writeSpeed`, as in the code, where only the
  store is locked.
* **LeadingTruck** — the application thread and the composition of all threads,
  with the fairness and the properties of the process.
* **PlatoonClient** — the sockets of a following truck, numbered by `conn`, one
  pair per call of `startClient`, and what the leading truck does with the other
  ends: it registers a truck before it answers its key, answers the requests of a
  connection in order (a `join_done` as a second join), with an error where the key is
  wrong or messages arrived as one, or not at all; it may answer an alert as a request
  nobody made, synchronises the trucks it knows, broadcasts, and drops a truck whose
  connection it has lost.
* **FollowingTruck** — the process of `following.cpp`. The FSM thread goes through
  the cases of its switch: `pc[FSM]` begins each round at the `Case` of the
  state and passes through the methods of `FollowingTruck` call by call. The four
  session threads of every connection follow the functions they are named after;
  the two listeners share `Listener`, their code differing only in the receive.
* **Membership** — what the platoon promises one truck: outside, registered, gone,
  in this order and once, and admitted only after it was registered. LeadingTruck
  implements it with the registry and the connection threads (`Phase`);
  PlatoonClient implements it with the leading truck as a following truck sees it,
  under everything FollowingTruck does. The two modules describe the same
  protocol from its two ends: that both refine one abstract module is what ties
  the small leader of PlatoonClient to the full one.
* **RegistryRace** — `addTruck` and `removeTruck` statement by statement, one
  connection thread per truck, with `++currentOrder` as a read and a write. The
  operations of `std::map` are still steps.
* **SpeedControl** — the speed of a joined truck: `speedControl` in the status
  thread, `processCommands` in both listeners, the limit of `emergencyBrake` in the
  FSM thread. `doing[t]` is the statement a thread is at; `result` is a speed that
  was computed and not yet stored. A step is one assignment, or the test before it.
* **TruckManager_proofs**, **CommandQueue_proofs**, **LeadingTruck_proofs**,
  **Crosstalk_proofs**, **Membership_proofs**, **SpeedControl_proofs**,
  **FollowingTruck_proofs**, **ClientMembership_proofs** — theorems, see section 5.
* **MCComponents**, **MCLeadingTruck**, **MCFollowingTruck**, **MCRegistryRace** —
  instances for TLC. MCComponents puts the registry, one command queue and the
  speed control side by side; in a behaviour one of them (`part`) moves.

`PROJECT.json` maps each definition to its lines. In EventManager the names of the
actions are those of the methods with a word for the access: `joinLookup`,
`joinCheck` and `joinAccept` are `handleJoin`; `leaveEntry` to `leaveStart` with
`syncList`, `syncNext` and `syncSend` are `handleLeave`. `slowDown` and
`syncNext` take one truck of the list per step.

## 3. Modelling decisions

* **Connections and ids.** A connection thread is named by the id it would draw
  from `generateTruckID`, a fresh UUID. A following truck that reconnects is a
  new element of `TruckIds`.
* **Descriptors** are external: `accept` returns the lowest free one, and `close`
  frees it. A `send` to -1, or to a descriptor that is closed, is lost, since the
  result of `send` is never looked at.
* **`wire`** holds the last `send`: the command, the truck the sender meant
  (`for`), and the connection that owned the descriptor at that moment
  (`reached`). Properties about who hears what are about `wire`. The JSON
  contents are not in it; no property is about them.
* **Registry methods are atomic steps** in TruckManager and above it. The code does
  not make them so: there is no lock. What these modules show about the registry
  holds for executions in which the methods do not overlap; RegistryRace shows what
  happens when they do. Everything *between* two calls is interleaved.
* **Queues in LeadingTruck** are sequences; `Dequeue` is atomic. CommandQueue
  shows that the locked queue with its condition variable gives that. `stop` is
  never called by the program, so LeadingTruck has none.
* **Messages.** A peer sends what a following truck sends: its own id, in
  well-formed JSON, or one of the three kinds of message the server turns down
  (`Rejections`). Test messages (`isTesting`) need no authentication and carry no
  id. `near` stands for a distance under the threshold of `handleCommunicate`.
* **Data.** Brake force is in tenths, so 0.2 is 2. `speed` and `brakeForce` are
  the fields that change after boot; the others are left out.
* **The environment file is complete and the UDP socket opens.** `init` then does
  not throw and a broadcast is one step that succeeds.
* **History variables**: `accepted` (trucks past the slot check), `postponed`
  (trucks whose leave request met an emergency), and in CommandQueue `enqueued`,
  `processed` and `beforeStop`. No guard reads one, except for the bound on
  `enqueued`.
* **Steps of a following truck.** A step is one access to a shared variable, one
  call of the client, or a call and the update of `retry_times` that follows from
  its result. `current_state` and `prev_state` are written by the FSM thread only,
  so the end of a round, with the switch of the next, is one step. The writes of
  `processCommands`, of `initTruck` and of the end of `emergencyBrake` are one step
  each: no thread reads two of the variables in an order that tells them apart. The looks that a
  session thread takes at the state at the beginning of its loop are one step.
* **The request** is set by the driver and withdrawn by `simulate_request` after a
  while. Each look at it finds either, which allows every order of the two.
* **`retry_times`** stops at `MAX_RESEND_MESS`: it is only compared with that.
* **`truck_status`** is "sync" or "running", which stands for every other value:
  the FSM looks for "sync", and for "slow_down", which nothing sets. SPEED_UP is
  left out, since the leading truck never sends speed_up. SpeedControl has the numbers.
* **A leader that ends** (`peer`, `endLeader`). Its kernel ends the connections, with a
  FIN, or with a reset where something was unread. After a FIN the next `send` still
  succeeds and is answered by a reset; after the reset has been reported, by an error
  of `send` or `recv` or by the FIN that went before, `send` raises SIGPIPE, which
  ends the process (`Killed`). `recv` returns an empty message. The reset is taken to
  arrive before the next `send`. A connection that breaks while the leader runs ends for
  the truck in the same way (`dropTruck`), with a reset. A truck cannot know of either before
  it sends or receives again: `OperatesAsMember` asks for an entry in the registry while
  the leader's end of the connection is "up".
* **Speeds** in SpeedControl are in km/h and rounded towards zero, forces in tenths.
  Both may be negative in a message of the leader, which bounds neither: a leave takes
  15 off the speed, a removal 0.2 off the force. Doubles are rounded elsewhere, so 101 % of a small speed is the speed itself: that the noise
  of `speedControl` also lets a speed grow is not seen below 100 km/h. One report runs
  at a time: CONNECTION_LOST also calls `updateCurrentStatus`, possibly while the
  status thread is in it, which is left out.
* **Messages in one segment.** `receiveTCPMessage` takes what has arrived: one
  message, or several, which no parser takes. The FSM thread does not catch what
  the parser throws, so the process ends (`aborted`); the listener does.
* **Closed descriptors.** `recv` returns -1, which `std::string` rejects as a
  length: the process ends. `recvfrom` returns an empty message. A closed UDP socket
  keeps its port while a thread blocks on it, and `bind` fails meanwhile.
* **pthread_join** on a detached thread fails at once. On one that has not
  detached itself yet it waits for ever, since threads end in IDLE only.
* **The leading truck in PlatoonClient** is LeadingTruck seen from one truck. What depends
  there on other trucks, queues and the shared state machine is here a choice:
  a request may stay unanswered (`staySilent`: no free slot, an emergency, another
  handler); a wrong key and messages read in one buffer are answered with an error
  (`refuseAuth`, `refuseMerged`), each costing one of `refusals`; once a
  join was granted (`Reported`), an alert of the truck may be answered as a join or a leave nobody asked
  for (`answerAlert`). Reports and alerts are not kept one by one, so `Reported` allows
  more of these answers than the code. The workers find a socket in the registry
  only (`Responds`), while a sync, whose socket was looked up earlier, may be sent to a truck
  that has just been removed (`syncTruck`). When `recv` ends a connection's thread,
  because the truck closed it or it broke, the socket is closed and the truck removed
  (`dropTruck`): one step here, since the truck can tell nothing of what lies between.
  A message reaches the connection it was meant for or none; that the leader
  reuses descriptors in between is LeadingTruck's subject.
* **Bounds of a following truck** are carried by the state (`left`): a
  behaviour starts with one of `Setups`, which names the session threads that run
  and how many connections, messages, broadcasts and failures there are.
* **Mutants.** Operators named `method_Fault`, each just before its original, are
  faulty versions of it. `PROJECT.json` says which property each must break, under
  the configuration of the run. No specification uses them.

## 4. Properties and runs

Times are for two TLC workers.

### Passing runs

| run | configuration | states | properties |
|---|---|---|---|
| `components` | registry: 3 ids, 2 sockets, up to 4 entries; queue: 2 commands, 4 enqueues, fairness; speed: join at 20 km/h, one sync or slow_down, of −13 km/h or a force of 1.2 among others, any number of broadcasts, jitter 98 to 101 %, fairness | 68 k, 80 s | `TMTypeOK`, `OrdersContiguous`, `BehindIsTheRestOfTheLine`, `SocketIsStable`, `ImplementsPlatoonOrder`; `CQTypeOK`, `NoLostWakeup`, `NothingLostOrReordered`, `StopDrains`, `QueuedCommandsHandled`, `ImplementsCommandFifo`; `SCTypeOK`, `BackwardsOnlyIfTold`, `RepeatedEmergencySlowsDown` |
| `join` | `JoinLoads`: 2 trucks, 2 slots, 4 messages: join, leave_done; or 1 truck, 3 messages: status, leave, emergency, tests, all rejections | 1.4 M, 80 s | `TypeOK`, `NoGhostTruck`, `PlatoonCapacity`, `RemovalIsItsOwn`, `ImplementsMembership`, `EmergencyLatched` |
| `leave` | `LeaveLoads`: 2 trucks, 3 messages: leave, emergency | 1.7 M, 60 s | `NoCrosstalkWhileConnected` |
| `drain` | `DrainLoads`: 1 truck, 3 messages: status, leave, obstacle, an unknown command; fairness | 0.2 M, 90 s | `EmergencyIsBroadcast`, `QueuesDrain`, `ClosedTruckIsRemoved` |
| `follow` | 14 setups: 2 sessions with one kind of thread, with a refusal, with a broken connection; 1 session with both of these, with two kinds of thread, with repeated failures, with what the leader sends unasked, with a leader that ends; 2 retries; fairness | 0.7 M, 170 s | `FTTypeOK`, `OperatesAsMember`, `OperatesConnected`, `ThreadsServeTheSession`, `LossIsRecovered`, `LeaderEndIsNoticed`, `ImplementsMembership` |

* **`components`, the registry:** drives the registry further than the process does: ids
  registered twice, any socket, removals of ids that are not there. It shows that
  the re-indexing keeps the orders without a gap (`OrdersContiguous`), that
  neither re-indexing nor a second registration moves the socket a truck is
  answered on (`SocketIsStable`), that `getTrucksBehind` is the rest of the line
  (for an unknown id: the whole line, since `find` says -1; the program's only call of it
  is commented out), and that the map with
  its counter refines PlatoonOrder.
* **`components`, the queue:** shows that the notify after the push cannot slip between the
  test of the predicate and the wait (`NoLostWakeup`), that the line is preserved
  (`NothingLostOrReordered`), that a worker told to stop first drains what was
  enqueued before (`StopDrains`; the class has `stop`, the program never calls it), and that the queue refines CommandFifo, its
  fairness included. `QueuedCommandsHandled` is `EveryCommandHandled` of the module,
  for the behaviours in which the queue moves.
* **`components`, the speed:** three threads store the speed, the force and the
  reference of one truck. A braking takes off more than is left, and the test that
  catches it reads a reference which a listener may replace. The leader itself may send a
  speed below zero: six leaves without a leave_done make it −13 km/h, which a sync stores as it is and
  a slow_down makes the speed to brake to. `BackwardsOnlyIfTold`: this is the only
  way, so until the leader has named such a speed no report starts from or ends with one. The end of a braking
  clears force and reference in two stores and can wipe out half of an emergency that
  arrived in between, or all of it. `EmergencySlowsDown`
  (`RepeatedEmergencySlowsDown` in the run) says that the repetition of the broadcast
  makes up for that: the truck comes down to 5 km/h.
* **`join`** puts authentication, join, leave_done and disconnect of two trucks
  against each other and against the application's synchronisation.
  `NoGhostTruck` relates the registry to the connection threads: every entry
  belongs to a connection that authenticated and has not ended, holds its own
  descriptor while that is open, and appears once. `RemovalIsItsOwn` says that a
  truck leaves the registry by its own disconnect or its own leave_done only.
  `PlatoonCapacity` says how many trucks can have been accepted and still be
  registered: *fewer* than `NUM_TRUCKS`, because the truck that asks was
  registered when it authenticated and takes a slot itself, and because no
  interleaving of the check and the registrations admits more.
  Its other workload (`AlarmLoad`) starts at boot and uses every command of the
  test interface. `EmergencyLatched`: after boot nothing but test_normal ends an
  emergency — not test_emergency_off, which only clears the signal, not a
  synchronisation that was under way, and not another command run by the wrong handler.
  `ImplementsMembership`: a truck is registered once and for good, in whatever order
  its messages, a late worker and its disconnect come.
* **`leave`** covers the long handler: the list of trucks and their sockets is taken
  before two field updates and a send per truck. Trucks disconnect and
  descriptors are reused during it. An `emergency` command can run this handler
  too, in the other worker, when the shared state says Leave. Still, nothing
  addressed to a truck that is connected reaches another one
  (`NoCrosstalkWhileConnected`): a stale socket is only ever that of a truck
  whose connection is closed.
* **`drain`** is the liveness of the process. `QueuesDrain`: the workers always come
  back to an empty queue, whatever throws. `ClosedTruckIsRemoved`: the registry
  does not keep a closed connection. `EmergencyIsBroadcast`: the application, even
  in the middle of a synchronisation over a list that was taken before, gets to
  the broadcast.
* **`follow`** is a following truck against a leading truck that answers, refuses,
  is silent, answers what nobody asked, drops connections or synchronises at any time,
  with the driver asking to join and to leave at any time. `OperatesAsMember` says that
  whatever answers are missed, taken by the wrong thread, given twice or late, and
  whatever state CONNECTION_LOST brings back, a truck that operates was granted its join on its
  present connection, and while that connection lasts it is still registered on
  it: in particular that a leave that fails after `leave_start`, or a `leave_start`
  nobody asked for, leaves the truck where it may go on. `OperatesConnected` says the same of its sockets: an operating truck
  holds an open TCP connection and a UDP socket that was bound, although a failed
  attempt leaves sockets behind and a thread of the last session can hold the port.
  `ThreadsServeTheSession` says that no thread of a session ends before the truck has
  left: a state that passes through IDLE would end them, and a truck that came back
  to operate would be deaf. `LossIsRecovered` says that a truck whose sends work
  again leaves CONNECTION_LOST, or its process ends, for which it must have
  recorded a state to go back to that is not CONNECTION_LOST itself. All hold
  while threads of an earlier session still run, set `next_state` and count
  failures. `LeaderEndIsNoticed`: when the leading process ends, or has dropped the
  truck because the connection broke, a truck whose reports have begun does not
  operate for ever, although the first report after the end of the process succeeds and starts `retry_times`
  over. It is SIGPIPE that sees to it, more often than CONNECTION_LOST.
  `ImplementsMembership`: retries, refusals, leaves and lost connections take the
  leader through the abstract membership and nothing else.

### Bounds

* *Two trucks* are the smallest number for descriptor reuse and for crosstalk; each
  of the interleavings above involves one sender, one addressee and at most one
  newcomer. The two violation runs on descriptors show that reuse does happen
  within the bound. `MaxTrucks` bounds only the stand-alone registry, where four
  entries over three ids give double registrations and removals from the front,
  the middle and the end.
* *Workloads.* A behaviour of LeadingTruck starts with one of `Workloads`: how many
  connections there are, how many messages the server receives, the key included, and
  which requests and rejections they are. Three or four are two authentications and two commands (or one and three), enough for a command
  in each worker while the other truck comes or goes.
* *`NumTrucks`* is 2 in `join`, so that the slots run out; elsewhere 3.
* *Each workload picks its requests.* All of them at once exceed what TLC can
  explore; each takes those that touch the state its properties are about, and
  the runs together fire every action.
* *Speed.* One sync or slow_down against any number of broadcasts: every store of a
  listener meets every statement of `speedControl`. Among the messages are a speed of −13 km/h and
  a force of 1.2, the leader's after six leaves without a leave_done, so that a
  truck rolls back and `limitForce` happens.
* *Setups.* All four threads of two sessions at once are out of reach. Each
  hazard of the follower involves the FSM thread and one other thread, over two
  sessions when that thread outlives the first, or two other threads in one session
  (a listener against a sender, the two listeners, the two writers of
  CONNECTION_LOST). Refusals, messages nobody asked for and broken connections have
  setups of their own, with a session that can be tried again. `MAX_RESEND_MESS` is 2 instead of 5: a failure that is
  retried, and one that ends the retries. Two failures reach it.
* *Symmetry* over `TruckIds` is used in `join` and `leave` only, which check
  safety. No action chooses by a truck's name.
* *Deadlock* is checked for the leading truck, whose application thread never
  ends, and for the queue, whose worker can be woken or stopped. The process of a
  following truck may end (`aborted`), wait for an answer that does not come, or
  block in `pthread_join`; its runs do not check deadlock.

### Fairness

`FairSpec` asks weak fairness of each thread of the process: the application
thread, each worker, and each connection thread where it does not wait for its
peer (the `auth_ok` reply and `removeTruck` after `close`). Each of these is a
runnable thread under a preemptive scheduler with no lock held across steps, so
it cannot be denied for ever. *Nothing* is asked of peers: they need not connect,
send or disconnect. In SpeedControl the status thread and both listeners are
weakly fair once they have something to do, and so is the arrival of a broadcast:
the leader repeats it every second while it is in EMERGENCY (`app.cc:82-85`). The
property is about exactly that case. In CommandQueue the worker is weakly fair; producers, `stop`
and spurious wake-ups are not. In FollowingTruck the FSM thread is weakly fair, and so are
the status threads, taken together: runnable threads, one of which sleeps between two
reports; a receive with nothing to receive is not enabled, so
fairness does not make the leading truck answer. Failed sends are bounded: the
network may fail, but a socket that is open and never works again would not be
"a connection that works", which is what `LossIsRecovered` is about.

### Violation runs

Each checks one statement that a comment of the code makes and the code does not
keep; section 6 tells the stories.

| run | property | what TLC finds |
|---|---|---|
| `reused_socket` | `SendReachesAddressee` | a sync for a departed truck reaches a newcomer |
| `danger` | `DangerRaisesAlarm` | a dangerous status handled as nothing |
| `signal` | `SignalIsBroadcast` | the emergency is overwritten during boot |
| `postpone` | `PostponedLeaveResumes` | a postponed leave is forgotten |
| `threads_exit` | `ThreadsExitBeforeLeaving` | the truck leaves while its threads run |
| `registry_race` | `AddedIsRegistered` | a truck that was added is not in the registry |
| `retried_leave` | `BrakeForceInRange` | five retried leaves send a force of 1.1 |

## 5. Proofs

All are checked by TLAPS for every value of the constants, under the assumptions
named in the modules (`SocketAssumption`, `NumAssumption`, `RequestAssumption`,
`DataAssumption`, `SpeedAssumption`, `ClientAssumption`, `FollowingAssumption` and
those of the queue): descriptors and counts are natural numbers, -1 is no
descriptor, requests are records of the fields the handlers read, the leader's speeds and forces are
integers of either sign, a setup of the follower names some of its four threads. Ids and commands are arbitrary sets. Every
safety property that a passing run checks, and the safety part of every refinement,
is a theorem.

**Registry** (`TruckManager_proofs`). The inductive invariant is

    TMInv == currentOrder \in Nat /\ trucks \in [1 .. currentOrder -> Truck]

`TMTypeOK` alone is not inductive for `OrdersContiguous`: one must know that the
counter is the size of the map. The work is in `removeTruck`: after the erasure
the domain is `1 .. n` without one order, and the lemmas show that it has `n - 1`
elements, that each rank in it belongs to exactly one order (the order itself
before the gap, one more behind it), and therefore that `InOrder` is the old line
without one position.

* `TypeCorrect`: `TMSpec => []TMTypeOK`.
* `Contiguous`: `TMSpec => []OrdersContiguous`.
* `RegistryImplementsLine`: `TMSpec => ImplementsPlatoonOrder`, with the mapping
  `platoon <- getTrucks`. `addTruck` maps to `AddAtTail`, `removeTruck` to `RemoveFirst`, a
  removal of an unknown id to a stutter.
* `SocketsDoNotMove`: `TMSpec => SocketIsStable`. The entry `find` sees
  first is the one that stays first: addition is at the tail, and the map from old
  to new orders is increasing.
* `BehindIsTheRest`: `TMSpec => []BehindIsTheRestOfTheLine`.

**Queue** (`CommandQueue_proofs`). The inductive invariant `CQInv` joins
`CQTypeOK`, `NoLostWakeup` and `NothingLostOrReordered` with what they need: a
worker holds a command only while busy (else a step that drops `inHand` could lose
it), and a stopped worker was told to stop and had handled at least what was
enqueued before.

* `QueueTypeCorrect`, `NoWakeupIsLost`, `FirstInFirstOut`, `StopDrainsTheQueue`:
  the four safety properties of the run.
* `QueueStepsAsFifo`: `CQSpec => Fifo!Safety`, each step of the locked queue is one
  of CommandFifo or a stutter (the wait, the wake-ups and `stop` are the stutters).

**Leading truck** (`LeadingTruck_proofs`, `Crosstalk_proofs`). Four invariants, each
resting on the ones before:

* `OwnInv` is `NoGhostTruck` with what makes it inductive: the registry's `TMInv`,
  and for each connection, that it has not authenticated before it was accepted,
  that one to be answered has, and that an open one has a descriptor. Without the
  first, `authenticateTruck` could register a second entry of a truck.
* `MsgInv`: every command in a queue or a worker's hands, and every accepted
  truck, is that of a connection that authenticated, or a test message.
  `SlotsRespected` needs it: a truck that registers was not accepted before.
* `SharedInv` and `LocalInv` bound the shared state and the locals of each thread at
  each of its places: a list that is being walked is not empty where its head is
  used, a socket that was looked up is a descriptor or -1.
* `CrossInv`: open connections have different descriptors, and whatever a thread
  has kept (a looked-up socket, the sockets of a list) is, for a truck that is still
  connected, its own descriptor or -1. This is what makes stale sockets harmless to
  connected trucks: a truck keeps its descriptor until it closes and never opens
  again.

The theorems: `RegistryHasNoGhost`, `TrucksLeaveByThemselves`, `SlotsRespected`,
`ProcessTypeCorrect`, `EmergencyEndsOnRequest`, `NoCrosstalk`: every safety property
of the leading truck that the passing runs check, for any number of trucks,
descriptors, slots and messages. `SlotsRespected` counts: an accepted truck is
registered, the one that asks is registered too and not yet accepted, and the check
has seen fewer than `NumTrucks` entries; the proof injects the accepted, registered
trucks into the orders of the registry.

**Membership** (`Membership_proofs`). `LeaderImplementsMembership`:
`Spec => ImplementsMembership`, under the mapping of `Phase`: a truck is registered
while it has an entry, gone once it has authenticated and has none. The invariants
above give what the mapping needs: who registers has not authenticated before
(`OwnInv`), so no step goes back from "gone"; who is accepted has (`MsgInv`).

**Speed control** (`SpeedControl_proofs`). `SpeedInv` adds to the types what holds until the
leader names a speed below zero: while the truck's speed is negative, the status thread stands
between the store of the braked speed and that of the reference (the test cannot fail
there, since no reference is negative); what it is about to store there is not
negative; and no speed a listener holds is. `SpeedTypeCorrect` and
`RollsBackOnlyIfTold` follow, for every set of messages and any speeds and forces.

**Following truck** (`FollowingTruck_proofs`). The three safety properties are parts of
one invariant, `FTInv`, because none is inductive alone. The FSM thread has no record
of having joined except its state and the place it is at, and other threads overwrite
`next_state` at any moment. So the invariant says, from the inside out:

* `Place` and `Course`: which places belong to a state, and which states `next_state`
  and `prev_state` can hold in it. Session threads store nothing but
  CONNECTION_LOST, but at any time, also when their session is over. So a truck can be
  lost in any state. It goes back to the one it was in, or, from JOINING, which records
  none in `prev_state`, to IDLE.
* `Standing`: what the truck is to the leader at each state and place: `Attached`
  (both sockets of the present connection and no other), then `Authenticated`, then a
  `Member`. Every way to an operating state, whether from a join, a recovery or a leave
  that failed, is one on which it is still a member.
* `Conversation(c)`: what can be under way on a connection. `auth_ok` in the inbox means
  that the leader knows the connection, `join_accepted`, asked for or not, that it granted a join. A
  `leave_done` is only ever sent where the session is over or at "close". Hence a
  connection the leader knew and no longer has registered is one the truck has parted
  with, or one that is lost, which is `OperatesAsMember`.
* `Serves(t)`: a session thread that runs serves the present session, or one whose
  connection is closed. `Attached` has `bound \ closed \subseteq {conn}` for this: a
  thread that waits to start while several later connections come and go cannot belong
  to a session that still counts, however many there are.

The proof has one lemma per call of the client, one for the session threads, and one per
method of the FSM. The leader's steps are cut by what they can disturb: `StepAt` shows that a step of
the leader on one connection leaves the conversations on the others alone,
`PeersOnlyBreak` that a connection once lost stays lost, `LeaderAt` that what is under way on
the connection still fits what was granted. Behind the last stands a fact about sequences,
`HasSplice`: what is left of the requests after some were refused together was there
before. TLC had checked `FTInv` first, with
the setups of `follow` (0.7 M states) and by simulation with three connections and all
four threads. The theorems: `FollowingTypes`, `OperatesOnlyAsMember`,
`OperatesOnlyConnected`, `ThreadsOutliveNoSession`. They cover what the run cannot: all
four threads of every session at once, more than two sessions, any number of
failures, messages and retries.

**The other end of the membership** (`ClientMembership_proofs`).
`FollowerImplementsMembership`: `FTSpec => ImplementsMembership`. Only the leader writes
its registry (`CallsKeep`, and one lemma per kind of step); what it registers was not
known before (`enrolled`), what it admits, asked or not, was known by `Conversation`, and what a
leave or a lost connection removes stays known and so is never registered again. With
`LeaderImplementsMembership`, both programs are proved to implement one protocol.

**Only model-checked.** Everything under fairness, since TLAPS does not reach liveness
through `ENABLED`: `QueuedCommandsHandled` and the fairness part of
`ImplementsCommandFifo`, `RepeatedEmergencySlowsDown`, the properties of `drain`,
`LossIsRecovered` and `LeaderEndIsNoticed`.

## 6. Findings

1. **Closed before removed** (`platoon_server.cpp:128`, run `reused_socket`).
   The descriptor is closed before `removeTruck` runs, so a new peer can get the
   number while the registry still maps it to the old truck. A sync for the old
   truck then goes to the new peer, which has not authenticated. The same window
   opens whenever a socket that was looked up earlier is used.
2. **One FSM, two workers** (`event_manager.cpp:28`, run `danger`). `setState`
   and `handleEvent` are separate accesses to the same field. When the emergency
   worker sets its own state in between, a status that reports a dangerous distance
   goes to an empty handler. The reverse race runs `handleLeave` for an emergency
   command: a leave nobody asked for.
3. **Boot overwrites an emergency** (`app.cc:42`, run `signal`). `init` and `idle`
   assign the application's state unconditionally. The emergency is gone, the
   signal stays on, and so the next dangerous distances are ignored.
4. **A postponed leave is dropped** (`event_manager.cpp:122`, run `postpone`).
   Nothing keeps the request, and the reply about it is lost, because a `json`
   object passed for a `std::string` throws when converted.
5. **Threads are not waited for** (`following.cpp:199`, run `threads_exit`). The
   debug output says "Wait for threads EXIT" and then "Threads EXIT", but the threads
   have detached themselves and end in IDLE only, so `pthread_join` fails at once
   and the truck leaves while they run. The listener may take `leave_start`, and
   when the sockets are closed under it, its `recv` throws and ends the process.

6. **Overlapping registrations** (`trucks_manager.cpp:17`, run `registry_race`).
   Connection threads call `addTruck` and `removeTruck` with no lock. Two that read the
   same `currentOrder` store at one order, and an addition between the copy of
   `removeTruck` and its assignment is lost: a truck that got `auth_ok` is not
   in the registry, so it is neither synchronised nor found when it joins. The C++
   behaviour of overlapping map operations is undefined on top of that.
7. **A retried leave brakes again** (`event_manager.cpp:146`, run `retried_leave`).
   Each leave request takes 15 off the platoon's speed and adds 0.2 to its force; only
   leave_done undoes it, once. A follower retries a leave that gets no usable answer, and
   after five the platoon is told to brake with 1.1, where `workflow.txt:53` has
   0.0 to 1.0.

Observed in the models, without a statement in the code that is contradicted: a sync
that overtakes `auth_ok` makes a truck report a failed authentication
(`platoon_server.cpp:77`); `speed` is read outside the mutex that guards its store,
so an update can be lost (`event_manager.cpp:144`); an obstacle thread that retries
while the truck leaves puts it into CONNECTION_LOST with closed sockets
(`following.cpp:292`); a listener that has stored the force of an emergency but not its
reference lets a report brake towards 0, to a standstill until the next broadcast; a
truck whose leader ended is more likely to be ended by SIGPIPE than to reach
CONNECTION_LOST, which `following.cpp:265` has for this case. They are listed under
"hazards".

## 7. What is not modelled

* **Following truck**: location and distances, which nothing depends on; two
  `updateCurrentStatus` that overlap; `main`, which waits for threads that detach
  themselves, and the input 0; a leading truck that restarts; `emergency_brake`, a
  thread that is never started.
* **UDP failures**: `sendBroadcast` throws when `sendto` fails, in a thread that
  does not catch it; the process would end.
* **TCP as a byte stream**: `recv` is taken for one message. Two messages in one
  segment do not parse and are dropped or refused: `rejectMessage` has that effect, and so
  have `refuseMerged` and a "garbled" receive of the follower. A message in two segments is not modelled.
* **SIGPIPE and back-pressure in the leading truck**: a send that kills the process or
  blocks a worker.
* **Overlapping operations of one `std::map`**: undefined in C++. RegistryRace has them as
  steps; `getTrucks` against a `removeTruck` is not in it.
* **Two reads and a write of the platoon data** that lose an update are in the model;
  the code states no value that would be missed, so no property does.
* **Dead code**: `acceptConnections`, `stop` of the server (`getTrucksBehind` and `stop` of
  the queues have no caller either; they are modelled as operations of their classes), `connectionLost` and
  `handleInvalidTasks` (empty, never entered), `comm_init.cpp` and
  `comm_manager.cpp` (commented out).
* **Configuration, logging, JSON formatting, the dotenv library**, and the GPU
  notebooks and kernel under `src/gpu`, which no platoon program links.

## 8. Plan

Done: the registry, its refinement and its races; the command queue and its
refinement; the server, the FSM, the application and their composition; the following
truck with its client, its speed and a leader that ends; the membership that both
programs implement; the proofs of section 5, on both ends of the connection.

Next, in this order:

1. **UDP failure and process death** in LeadingTruck.
2. A leading truck that restarts, in PlatoonClient, and `FTInv` with it.
