# Verification of pubsublib

TLA+ models, TLC runs and TLAPS proofs for pubsublib, a C++ library of MQTT and
Sparkplug B publish/subscribe clients. In this document `src/` is the root of
the repository, so the library's own code is under `src/src/` and its public
headers under `src/include/pubsub/`.

## 1. Inventory

Every client runs three kinds of threads: the application's (it calls `Start`,
`Stop`, the setters and `Metric::Value`), one worker per client (a state machine
that wakes every 100 ms, or earlier when notified), and the thread of the
external Paho MQTTAsync library, which calls back.

| Component | State it keeps | Operations | Interacts with |
|---|---|---|---|
| Sparkplug node (`sparkplugnode.cpp`) | `node_state_`, `node_timer_`, `delivered_`, `stop_node_task_`, `sequence_number_`, the handle, device list, list of remote hosts and nodes | `Start`, `Stop`, `NodeTask` with four state handlers, connect/disconnect/lost callbacks, `Message` dispatch | polls its devices; Paho; application |
| Sparkplug device (`sparkplugdevice.cpp`) | `device_state_`, its birth and death topics | `Start`, `Stop`, `Poll` | publishes through its node |
| Sparkplug host (`sparkplughost.cpp`) | `host_state_`, timer, `delivered_`, `connection_lost_`, its STATE topic | `Start`, `Stop`, `HostTask` with five state handlers | Paho; nodes read its STATE |
| MQTT client (`mqttclient.cpp`, `mqtttopic.cpp`) | `client_state_`, timer, `delivered_`, `connection_lost_`, topics, subscriptions | `Start`, `Stop`, `ClientTask` with four state handlers, callbacks, `Message`, `PublishTopics` | Paho; topics; application |
| Broker detection (`detectbroker.cpp`) | one MQTT client | `Start` | MQTT client |
| Metric and topic (`metric.cpp`, `itopic.cpp`) | value, valid and updated flags; topic name parts | `Value`, `SetUpdated`, `ResetUpdated`, `Topic` | written by the application, read by workers |
| Payload and its codec (`payload.cpp`, `payloadhelper.cpp`) | metrics by name, body, timestamps | `GenerateProtobuf`, `ParseProtobuf`, JSON and text forms | topics |
| Inbound Sparkplug messages (`sparkplugnode.cpp` 1091-1565) | remote nodes, hosts and devices | one handler per message type | Paho thread; application reads |
| Factory, workflow, XML, TLS options, logging | none of interest | construction, configuration | - |

What is hard here, and what makes each part correct:

* **Order over an unreliable connection.** A node's birth (NBIRTH) has to come
  before the births of its devices (DBIRTH) in every connection, and nothing
  after its death (NDEATH), while connections are refused, lost, late, or closed
  by the application at any step.
* **Handles.** One handle per client: every path out of a worker destroys it,
  and no answer meant for an earlier connection may be taken for a new one.
* **Time-outs against late answers.** `connectTimeout` (10 s) is longer than the
  node's own 5 s wait; a disconnect is waited for, but not forever.
* **Termination.** `Stop` joins the worker; a client out of service must let go.
* **Lost updates.** An application writes a metric while the worker publishes it
  and clears the updated flag.
* **State that outlives what it describes.** `node_state_` and `device_state_`
  survive the connection, the worker and the host state they were derived from.

`PROJECT.json` lists each hazard at its line with the properties that cover it,
or the reason why none does.

## 2. Order of work

All of these are done except 8. Later modules build on the earlier ones.

| # | Module | About | Builds on | Abstract specification | Proved in |
|---|---|---|---|---|---|
| 1 | `MQTTAsync` | the Paho handle and its pending callbacks (external) | - | - | used in every proof |
| 2 | `EdgeSession` | what a node promises in each connection | - | is one | - |
| 3 | `SparkplugNode` | node, devices, connection | 1 | implements `EdgeSession` | `SparkplugNodeProofs` |
| 4 | `MqttClient` | client, topics, metrics | 1 | implements `MetricUpdates` | `MqttClientProofs` |
| 5 | `DetectBroker` | detector over its client | 4 | - | `DetectBrokerProofs` |
| 6 | `SparkplugHost` | host and its retained STATE | 1 | implements `HostPresence` | `SparkplugHostProofs` |
| 7 | `SparkplugInbound` | `Message` and the handlers of node and device messages; the nodes that send them | 9 | - | `SparkplugInboundProofs`, `SparkplugViewProofs` |
| 8 | `HostAndNode` | host, broker and node together | 3, 6 | - | not done |
| 9 | `SparkplugPayload` | names of topics; metric list, alias numbers, protobuf codec, as operators | - | - | lemmas in `SparkplugInboundProofs` |
| 10 | `MetricUpdates` | what a client promises to who writes its metrics | - | is one | - |
| 11 | `HostPresence` | what a host promises to the readers of its STATE | - | is one | - |

`HostAndNode` was to show a node that waits for its host against the host of module 6. It
would show nothing more: a node that waits never connects (`HostOnlineStartsNode`, section 6), and
`scadaHost` of module 3 already changes at any step, which includes every STATE that module 6 can send.

## 3. The modules

All modules share a form: `VARIABLES` named after the members of the class, `pc`
for where the worker thread is, `app` for where the application's thread is, and
`Next == Worker \/ App \/ Environment`. One pass of a worker's loop is the
`while` test (`TestStop`) and one handler; a handler is one step unless another
thread can interfere inside it, and then it is cut there (each device polled,
each publication, each subscription-then-birth). `PROJECT.json` maps every
definition to its source lines. A definition introduced by "Mutant" in a
comment is a plausible wrong version of the definition it precedes; it is not
part of any specification, and exists to show that the properties notice it.

Clocks are abstracted: `timerUp` says that the timer the worker compares with
has run out; a handler that sets the timer clears it, and `Timeout` may set it
at any later step. So every order of an answer and its time-out is covered, and
the lengths (5 s, 10 s, 100 ms) are not.

**`MQTTAsync`** is what the library relies on in Paho: the states of a handle, the
calls (`CreateAndConnect`, `Disconnect`, `Destroy`) and the events of the network
(`Accepted`, `Refused`, `Lost`, `Closed`, `Delivered`). An event changes the
handle at once and leaves a callback behind, which Paho's thread calls later:
this gap is where the races of all clients are.

**`SparkplugNode`** has the loop of `NodeTask` (`TaskStart`, `TestStop`, `TaskExit`,
`TaskExitWait`), `DoIdle` (`DoIdleWait`, `DoIdleConnect`), `DoWaitOnConnect`
(`...NotYet`, `...Subscribe`, `...Birth`), `DoOnline` (`DoOnline`, `PollDevice`,
`PollDone`, `DoOnlineDeath`, `DoOnlineDisconnect`) and `DoWaitOnDisconnect`. A
publication is `Publish` (test the connection, take a number) and then
`WorkerSend` (hand it over), because `SparkplugDevice::Stop` runs the same code in
the application's thread (`DeviceStop`, `DeviceStopSend`) and the numbers are
shared. `session` is a history variable: what a subscriber has seen of the current
connection. `scadaHost` is the host elsewhere; its STATE reaches `hostOnline` only
over the node's own subscription.

**`EdgeSession`** is the promise to a subscriber: birth of the node, births and deaths
of devices, death of the node, end. `ImplementsEdgeSession` maps `phase` to the
node's session (`Phase`) and `device` to what was seen of each device.

**`MqttClient`** has the loop of `ClientTask` with its handlers, `PublishTopics`
(`PublishTopic`, `GenerateText`, `SendMessage`: reset the flag, make the text, hand it over), the application's
`AddMetric`, `WriteValue`, `WriteFlag` (`Metric::Value` is two steps), `Start`, `Stop`,
a second `Start` (`Restart`, which joins the running worker as the code does) and
Paho's callbacks including `Message`.

**`MetricUpdates`** is the promise to the application that writes a metric: two atomic operations,
`Write` and `Take`. What is taken is the current value, so an older one never follows a newer one, and a
change stays pending until its value, or a later one, was taken. `ImplementsMetricUpdates` lets the value be the
client's, a metric be pending while its flag is set, or about to be set by `WriteFlag`, or just reset by a worker that has
not made the text yet, and takes for taken what the worker has in hand or sent last: `WriteValue` is `Write`,
`GenerateText` is `Take`, every other step stutters.

**`DetectBroker`** is `DetectBroker::Start` in the application's thread, over the whole of
`MqttClient`: each of its polls reads `connection_lost_` and then the handle, and
the client's steps fall between.

**`SparkplugHost`** has the loop of `HostTask` with its five handlers, `Start`, `Stop` and
the broker's side: `sent` is the last STATE handed to Paho in this connection, `retained` is
what the broker keeps, and a connection that breaks makes the broker publish the
offline will.

**`HostPresence`** is the promise to whoever reads the retained STATE: it is announced in an open connection
and says what the application has decided at that moment; once the host is leaving, it announces nothing more,
but for the offline of an online host that goes with the disconnect; what is retained was announced, in order, or is the will.
`ImplementsHostPresence` hides the worker, its timers and its attempts: only the state of the handle
(`connection`), the last STATE handed over (`said`) and the broker's copy are visible.

**`SparkplugPayload`** is the data of a Sparkplug message, without state. A topic name is the
sequence of its levels and `Topic` takes it apart (checked against the names in
`src/test/test_topic.cpp` by an `ASSUME` of `MCSparkplugInbound`). A payload maps the names of
its metrics to value, alias, validity and update flag; names are numbers in
the order of the sorted list, so `AssignAliasNumbers` gives each its `Rank`.
`WriteProtobuf` chooses the metrics and whether they carry their names;
`ParseEntry` is one turn of the loop of `ParseProtobuf`: find by name or by alias, create, or skip.

**`SparkplugInbound`** is a receiver, host or node, and the nodes it hears. `births` is
`node_list_` with the birth payload of each node and each of its devices; a message is
taken from `wire` by the handler for its type, which makes what is missing (`Created`),
marks metrics stale, or begins to parse; the parser then takes one metric at a time
(`parsing`), so that the application and the senders may step in between. A node is also
its own receiver when `own` is its name: the payload the handlers write to for
an NCMD is then the one it gives birth with. Senders are external, but encode with the
code's own `AssignAliasNumbers` and `WriteProtobuf`. `Conforming` chooses
what the comments of the code say a birth carries (all metrics with their names, named in the
right namespace) or what this library sends; a connection that breaks at either end
loses what is under way, and the broker publishes the will. Metrics are added anywhere in the list while their node is not
connected, and every `Start` numbers them anew. `missed` and `moved` are history variables: the nodes a message of which was
lost since their last birth, and those a `Start` has given a metric another number.

## 4. What is checked

Twelve runs; the six that pass have a mutant for every property.

| Run | Question | Bounds |
|---|---|---|
| `node_lifecycle` | Does a node keep births and deaths in order, own its handle, implement `EdgeSession`, and let go when stopped or out of service? | one device, `SeqModulus` 1; Start, Stop, the service of node and device, Start and Stop of the device at any step; 459k states |
| `node_host` | Does a node that waits for its host leave when the host goes offline, does it give birth to every device it finds idle, and are its numbers consecutive? | two devices, `SeqModulus` 2; the host and the setting change; 556k |
| `client_lifecycle` | Is Online the answer to this connect, is no update forgotten, is the handle owned and a disconnect awaited? Are its metrics what `MetricUpdates` promises? Do Start and Stop return, does a client out of service let go, are updates sent? | one published and one subscribed topic, two values; 521k |
| `detect_search` | Does a search end, find only what accepted it, give up only for its own reason? | two brokers, 3 polls; 34k |
| `host_state` | Is what the host says of itself what it announced, and does it leave nothing retained online? Does it implement `HostPresence`? | no bound but the stimuli; 7.9k |
| `inbound` | Until a number moves, does a value stay with its metric, and is what is shown of a living node what it last said? Is a dead node shown as dead, are a node's own metrics its own, whatever moves? | one node with two metrics and one device, heard by a host or by itself; `MaxWire` 2, `MaxAhead` 0; 1.16M |
| `node_loss_is_noticed`, `node_host_online`, `node_rebirth`, `client_exit_awaits`, `inbound_library`, `inbound_alias` | each shows that the code does not do what a comment in it says (section 6) | the smallest instance that shows it; `inbound_library` with senders of this library (`Conforming` FALSE) |

Why the bounds are enough. The devices of a node interact only through the node's
state, the counter and the order of the poll: one shows every order of births and
deaths, two show a poll that is half done. The counter matters only for
consecutiveness, which is a property of neighbours: with modulus 2 a lost or
repeated number shows at once and a connection wraps it several times; where it is irrelevant modulus 1
removes it. (`NumbersAreInOrder` is proved for any modulus.)
Topics interact through the walk of `PublishTopics` only. Two values distinguish "changed"
from "unchanged". 3 polls instead of 100 let the search end before, during and after
every step of the client, since time is abstract. `Stimuli` says what the application does in
a run, so that a run can afford the detail its question needs; the proofs
are for every subset of `AllStimuli`, all of them together included, except that the order of the
numbers needs `deviceStop` left out. In `inbound`, two metrics are what it takes to mix two up, and
for a new one to come before or after an old one; nodes share nothing at the receiver but its list, so one is enough; two messages under
way are enough for a death to be followed by a birth, and a third would only wait; a device speaks when nothing else is
under way (`MaxAhead`), since its messages change no metrics. No module has an
unbounded counter. There is no symmetry set: the liveness runs would not be sound with one, and
the others are small.

Deadlock is checked in every run. The type invariants of `SparkplugInbound` and `DetectBroker` are checked as part of `IInv` and `DetectInv`.

**Fairness.** The workers are loops that wake themselves every 100 ms (`WF(Worker)`);
a call of the application that has begun runs on; time passes (`WF(Timeout)`).
Nothing forces the application to call anything, a broker to accept, or a
connection to live. Beyond this:

* `SparkplugNode` assumes that Paho ends every connect and disconnect it accepted and calls
  back (connects have `connectTimeout`, disconnects a time-out of their own).
* `MqttClient` and `DetectBroker` assume nothing of Paho: their calls return and
  their handles are given back though Paho may be silent for ever.
* `SparkplugInbound` assumes that Paho's thread handles what has arrived and finishes a payload it
  has begun to parse. Nothing makes a node speak, or the connections last.
* `SparkplugHost` assumes that a STATE handed to Paho arrives unless the connection goes first.

## 5. What is proved

TLAPS proves these for every value of the constants: any set of devices, any modulus,
any topics and values, any stimuli. The assumptions are those of the modules:
the placeholders `NoDevice`, `NoTopic`, `NoValue` are not themselves devices, topics or
values, the modulus is positive, published and subscribed topics are disjoint, and the
names of metrics are finitely many numbers in the order of the sorted list. Three theorems need more: `NumbersAreInOrder`
that no device is stopped from the application, and the two of `SparkplugViewProofs` that births name all
their metrics (`Conforming`): nobody can know a metric it was never told of (`BirthTellsAll`, section 6). What
`ValuesAreNotMixedUp` and, of living nodes, `ViewsAreCurrent` state is conditional: it holds of a node until a `Start` has
moved one of its numbers. It is false after that (`ValuesStayWithTheirMetric`, section 6).

| Theorem | States |
|---|---|
| `SparkplugNodeProofs!NodeInvariant`, `TypeCorrect` | `IInv` and `TypeOK` of the node |
| `BirthsInOrder`, `DeathIsLast`, `HandleNeedsWorker` | `BirthBeforeDevices`, `SilentAfterDeath`, `NoHandleWithoutWorker` |
| `NumbersAreInOrder` | `NumbersInOrder` |
| `NodeImplementsEdgeSession` | every behaviour of the node is one of `EdgeSession` |
| `MqttClientProofs!ClientInvariant`, `TypeCorrect` | `IInv` and `TypeOK` of the client |
| `OnlineIsAnswered`, `HandleNeedsWorker`, `NoUpdateForgotten`, `DisconnectAwaited` | `OnlineMeansAnswered`, `NoHandleWithoutWorker`, `UpdateNotForgotten`, `DisconnectIsAwaited` |
| `ClientImplementsUpdates` | every behaviour of the client's metrics is one of `MetricUpdates` |
| `DetectBrokerProofs!DetectInvariant`, `DetectTypes` | `DetectInv` and `DetectTypeOK` of the detector and its client |
| `FoundBrokerAccepted`, `NoSearchEndsForAnother` | `FoundMeansAccepted`, `GivesUpForAReason` |
| `SparkplugHostProofs!HostInvariant`, `HostTypes` | `HostInv` and `TypeOK` of the host |
| `AnnouncedStateIsTrue`, `StoppedHostIsOffline` | `StateAnnounced`, `StoppedMeansOffline` |
| `HostImplementsPresence` | every behaviour of the host is one of `HostPresence` |
| `SparkplugInboundProofs!InboundInvariant`, `InboundTypes` | `IInv` and `TypeOK` of receiver and senders |
| `ValuesAreNotMixedUp`, `OwnMetricsAreSafe` | `OnlyRenumberingMixesUp`, `OwnMetricsObeyCommands` |
| `SparkplugViewProofs!ViewInvariant`, `ViewsAreCurrent` | `ViewInv`, `ViewIsCurrent` |

The arguments:

* **Node.** `BirthBeforeDevices` is not inductive: a device's birth could be sent in
  a connection that was established behind the back of an Online node.
  `ConnectingPart` says that this cannot be: while Paho connects, the node is Idle or
  waits, and its worker is between handlers. `ConnectedPart` then keeps Online and
  "born in this connection" equivalent, and "dead" and "about to disconnect";
  `WorkerPart` carries both through the handlers and the two steps of a
  publication, and `AppPart` says that the application only adds deaths. The
  refinement is proved from the invariant, one step per action: only
  `SessionOpens`, `WorkerSend`, `DeviceStopSend` and the steps that end a connection
  are visible in `EdgeSession`, the others stutter. For `NumbersInOrder` the strengthening is
  `NumberPart`: the next number a subscriber expects is the one the worker holds, if it is about to
  send one, and the counter otherwise. It is true because only the worker takes numbers, and only
  in a live connection.
* **Client.** The connection half: `delivered_` is shared by every answer, so
  `ConnectingPart` says that no callback of an earlier connection is pending when
  one is attempted (the handle was destroyed in between), `ConnectedPart` that in a
  live connection `delivered_` can only be the answer to its connect, and
  `DisconnectingPart` the same of a disconnect. The update half is
  `UpdateNotForgotten` itself, proved over the five steps of writing and publishing:
  it is inductive because the flag is set after the value and reset before it is read. The refinement
of `MetricUpdates` needs a second fact of the same kind, `FlagsMove`: pending ends nowhere but at
`GenerateText`, because the reset flag, the worker in hand of the metric and the writer between its two steps overlap.
* **Host.** Here the handle outlives the attempts, so `ConnectingPart` speaks of attempts made
  while an earlier one is still open. `OfflinePart` and `LostPart` relate the
  worker's state to the broker's: a host that is Offline has told it, or its will
  has. `WorkerPart` says that only a host that leaves disconnects; part of it is that no pass
  of the loop ever finds the state WaitOnDisconnect: that handler is never run,
  the exit of `HostTask` does the waiting. For the refinement of `HostPresence` one lemma
shows that a step which leaves service, handle, `sent` and `retained` alone stutters, and the others are taken one by one:
`WorkerAnnounces` for the handlers that publish, `LeaveStep` for those that disconnect, where `StateAnnounced` says
that the last word of an Online host follows an "online" of this connection.

* **Detector.** Its steps are the client's, so its invariant is the client's `IInv` (`ClientStep` of
  `MqttClientProofs` is used as it stands) and two parts more. `CallPart` says where the
  application's thread is in each phase of a search; `AnswerPart` that what a search can see,
  a connected handle, `connection_lost_`, or a pending callback that will set it, is an answer given in
  this search. It speaks of `Searching` only: while `Start` joins the worker of the search before,
  its answers are still about.
* **Inbound.** A number means a metric only relative to its node's list. `AliasPart`, `WirePart` and
  `ParsingPart` say that messages under way, the payload under the parser and the receiver's
  copy give a metric the number the sender gives it now, or none, as long as no number of the node has moved. Adding a metric, or a
  `Start` that moves no number, extends the sender's list (`Extends`) and keeps all of this; a `Start` that moves one puts the
  node into `moved`, and nothing is claimed of it from then on. What is claimed always is that a number
  means one metric of the list: the lemmas on `Rank` show that `AssignAliasNumbers` makes them different. Then finding
  by alias finds the metric meant (`FoundIsMeant`), entry by entry of
  `ParseEntry`. `BirthsPart` and `ParsingPart` also say that a node parses into its own payload only for a command that
  names it, from which `OwnMetricsAreSafe` follows, and that no payload of a device is parsed at all.

* **View.** `ViewIsCurrent` speaks of a receiver with nothing left to read, so its invariant has to speak of every
  state before: `ViewInv` says of each message under way, and of the payload half parsed, what it will have done to the receiver
  when it is read. Of a living node, whose last birth is under way or was heard, every metric is known or will be
  (`IsKnown`: a message that teaches its name and number, or the receiver's copy), and the last word on it
  (`WordsOn`: messages that carry it, and deaths, which make it stale) is its value (`IsCurrent`); of a dead node the
  last word is its death (`IsStale`), which is shown to hold of every node, while what is said of the living is about nodes whose numbers have
  not moved. `FaithfulPart` is what makes the parser do so: no payload gives a metric two values. The proof has three kinds of steps. A message sent goes to the end of the queue, so it becomes the last word
  on what it carries and leaves the words on the rest alone. A message taken from the front moves its word from
  the queue to the parser, or, for a death, to the receiver. And one turn of the parser moves the word of
  one metric to the receiver, by `FoundIsMeant` to the right one. Steps about other
  nodes change none of this. The lemmas on queues (`BirthsIn`, `WordsOn` of an appended or a shortened queue) carry most of it.

Only model-checked: the liveness properties (the prover has no rules for `ENABLED`), and the violations of section 6.
Every safety property of a passing run, refinements included, is a theorem. No module here has a
`RECURSIVE` operator or computes over data by recursion.

## 6. What the code does not do

Six runs end in a violation of what the repository says of itself.
`PROJECT.json` quotes the lines.

1. `DevicesAreBorn`: a device that was Online when its node was stopped is
   never born in the node's next connection.
2. `LossIsNoticed`: `connection_lost_` of a node is set and never read. A node
   whose connection breaks believes itself Online until it is stopped.
3. `HostOnlineStartsNode`: with `WaitOnHostOnline` a node waits for the host's STATE
   before it connects, but the STATE comes over that connection.
4. `ExitAwaitsDisconnect`: the exit of `ClientTask` tests a flag that
   `SendDisconnect` just reset, and destroys the handle under the disconnect.
5. `BirthTellsAll`: a birth of this library carries only the metrics that changed, and no
   names once `Start` has numbered them, so a receiver that has not met them skips them all.
6. `ValuesStayWithTheirMetric`: every `Start` numbers the sorted list from 1, so a metric added before another moves
   its number, while receivers keep the number they heard first. When the new birth is lost, a value
   sent by number lands on another metric. `OnlyRenumberingMixesUp` says that nothing else does this.

Seen while modelling, and without a run of their own:

* The poll before the NDEATH is commented "This generates DDEATH messages"
  (`src/src/sparkplugnode.cpp:1004`). It only does so when the node is out of service: after
  `Stop`, or when the host went offline, `Poll` sees an Online node in service, and the
  devices stay alive. This is the first half of case 1.
* A device out of service is born while its node is online and dies in the next poll.
* `MqttClient` ignores a lost connection as the node does, and a message on a topic the client
  does not know makes a metric that is dropped at once.
* The detector can return before `Connect` gave it a name.
* A `Stop` between a handler and the loop's test makes the host leave without an offline
  STATE, and an orderly disconnect sends no will, so the broker retains "online".
* The names of NDEATH, DBIRTH and DDEATH begin with `spvBv1.0`, and the NDEATH does not name its
  node (`src/src/sparkplugnode.cpp:655-700`, `src/src/sparkplugdevice.cpp:83-197`), so no subscriber to `spBv1.0` gets them.
  The properties of `inbound` are about senders that name them right.
* bdSeq is neither compared nor counted up, so a will that arrives after the next NBIRTH
  makes a living node's metrics stale. The model has the broker keep that order, so `ViewIsCurrent` and `DeathIsShown` say nothing
  about a late will.
* The handler of NCMD does not compare the node's name with its own; it relies on the
  subscription.
* The handlers of device messages skip every birth topic that is marked as published, to leave their own
  devices alone (`src/src/sparkplugnode.cpp:1389`). The birth topic of every device is (`src/src/sparkplugdevice.cpp:146`),
  also of one that was just made for a remote node: no metric of a remote device is ever taken.
* A host whose connection is lost goes on to call itself online while the broker has published its will;
  `StateAnnounced` is about a host that is connected.

## 7. Assumptions and omissions

* `MQTTAsync_sendMessage` fails only without a connection; `MQTTAsync_destroy` drops the pending
  callbacks. Messages of one connection arrive in order or not at all.
* One application thread. `Start` of a running node or host is not modelled (it would join a
  worker that nobody told to stop); `Start` of a running client is.
* Devices are created before `Start`. A poll visits them in any order.
* A plain MQTT topic carries one metric. The validity of metrics is left out.
* `connection_lost_` of the host is left out: nothing reads it. Of several STATE
  messages in flight only the last is kept.
* Sparkplug messages keep the order in which their node sent them, the will included. Data types,
  timestamps, null values, properties and metadata of metrics are left out, as is the JSON form: they convert one value and keep no state.
  The bytes of a body are left out, and with them the races on them (hazards without a property).
* The alias numbers of a node's devices are left out, since no receiver takes a device's metrics.
* The library itself sends no NDATA or DDATA; `NodeData` is that of another implementation.
* A `Start` also recreates or resets a node's default metrics (`AddDefaultMetrics`) before it numbers them. They are left out:
  on the list they act like metrics added before the first `Start`. Metrics are added while their node is not connected; one that is added
  to a connected node has no number and no birth until the next `Start`. A node that starts has no connection, so nothing
  is under way to it.
* A subscriber does not subscribe to the commands of other nodes, as the comment at `src/src/sparkplugnode.cpp:1284` asks.
* `seen` of the detector counts the answers to the worker of the present search only: those an earlier worker gets
  while `Start` joins it are not in it.
* `IsWildcard` is called nowhere.

Not modelled: configuration files, TLS options, factories, clock helpers, log output, and the generated
protobuf code, which have no state worth checking. `PROJECT.json` lists every part with its reason.

The repository's implementation is C++: `map` covers about 44 % of the 7,400 lines (comments
included) under `src/src/` and `src/include/pubsub/`. The JavaScript under `src/docs/manual/html/` is the
search and menu code of the generated Doxygen pages and no part of the program; it is not modelled.
