------------------------------ MODULE Connect -------------------------------
(***************************************************************************)
(* A test process on its way to a node (Rig::acquire, Rig::assistant and   *)
(* Node::connect in banc-host/src/rig.rs and node.rs): it finds and loads  *)
(* the config, takes the lock file or the lease, reads the node's token,   *)
(* connects over USB or the network, shakes hands and identifies the node. *)
(* A rig daemon runs handshake_server at the other end of a stream that    *)
(* may be cut anywhere; what listens may also be no daemon at all.         *)
(***************************************************************************)
EXTENDS RigConfig, Wire

CONSTANTS
    Worlds,       \* the worlds a process may start in
    Names,        \* the names tests ask for
    MaxPublished  \* bound: frames a node sends of its own accord

\* The assistants of a config are a list.
ASSUME WorldsAssumption ==
    \A w \in Worlds : w.config # None =>
        LET list == w.config.assistants
        IN  Len(list) \in Nat /\ DOMAIN list = 1..Len(list)
ASSUME PublishedAssumption == MaxPublished \in Nat

VARIABLES
    world,     \* what RigConfig is about; it does not change
    at,        \* where the test process is
    outcome,   \* why it came to an end, or "none"
    role,      \* what it connects to: "Lease", "Node" or "Usb"; "none" at first
    wanted,    \* the config entry of the node
    device,    \* the USB device that was opened, or None
    identity,  \* the Identity the node has answered, or None
    c2s, s2c,  \* the stream, from the client and to it
    open,      \* the stream is not broken
    server,    \* handshake_server's end: "off", "accept", a role, "refused" or "failed"
    published, \* frames the node has sent of its own accord
    received   \* those the client has read

stream == <<c2s, s2c, open, server, published>>
vars == <<world, at, outcome, role, wanted, device, identity, stream, received>>

config == world.config

\* The messages on the stream.
Hello(token) == [type |-> "hello", version |-> NET_VERSION, role |-> role, token |-> token]
HelloOk(rig) == [type |-> "ok", rig |-> rig]
Denied == [type |-> "denied"]
Identify == [type |-> "identify"]
Identity(i) == [type |-> "identity", identity |-> i]
Publish(n) == [type |-> "publish", number |-> n]

Addr == IF role = "Lease" THEN config.lease.addr ELSE wanted.addr
Token == world.tokens[IF role = "Lease" THEN config.lease.token_file ELSE wanted.token_file]
Daemon == world.listens[Addr.host]

Ends(why) == at' = "over" /\ outcome' = why
Goes(to) == at' = to /\ UNCHANGED outcome

(***************************************************************************)
(* Rig::acquire.                                                           *)
(***************************************************************************)
Acquire ==
    /\ at = "acquire"
    /\ \/ Locate(world) = "none" /\ Ends("skip") /\ UNCHANGED role
       \/ Locate(world) = "error" /\ Ends("locate") /\ UNCHANGED role
       \/ Locate(world) = "found" /\ ~Loads(world) /\ Ends("config") /\ UNCHANGED role
       \/ /\ Locate(world) = "found" /\ Loads(world)
          /\ IF config.lease = None
             THEN Goes("lock") /\ UNCHANGED role
             ELSE /\ role' = "Lease"
                  /\ IF TokenReads(world, config.lease.token_file) THEN Goes("dial") ELSE Ends("token")
    /\ UNCHANGED <<world, wanted, device, identity, stream, received>>

\* RigLock::take, as far as its file matters here (see RigLock).
TakeLock ==
    /\ at = "lock"
    /\ \/ world.lock = "free" /\ Goes("held")
       \/ world.lock = "busy" /\ (Goes("held") \/ Ends("timeout"))
       \/ world.lock \in {"unopenable", "unmakeable"} /\ Ends("lock")
    /\ UNCHANGED <<world, role, wanted, device, identity, stream, received>>

\* LeaseClient::acquire goes on after its handshake (see Lease).
LeaseAnswered ==
    /\ at = "asks"
    /\ Goes("held") \/ Ends("timeout") \/ Ends("broken")
    /\ c2s' = <<>> /\ s2c' = <<>> /\ server' = "off" /\ open' = FALSE
    /\ UNCHANGED <<world, role, wanted, device, identity, published, received>>

(***************************************************************************)
(* Rig::assistant and Node::connect.                                       *)
(***************************************************************************)
\* A mutant: a name the config does not have gets any USB node.
AskForAnything(name) ==
    /\ at = "held"
    /\ wanted' = Assistant(config, name)
    /\ role' = "Usb" /\ Goes("usb")
    /\ UNCHANGED <<world, device, identity, stream, received>>

AskFor(name) ==
    /\ at = "held"
    /\ wanted' = Assistant(config, name)
    /\ IF wanted' = None THEN Ends("unknown") /\ UNCHANGED role
       ELSE IF IsNetwork(wanted')
       THEN /\ role' = "Node"
            /\ IF TokenReads(world, wanted'.token_file) THEN Goes("dial") ELSE Ends("token")
       ELSE role' = "Usb" /\ Goes("usb")
    /\ UNCHANGED <<world, device, identity, stream, received>>

\* The first device that matches, in whatever order they are enumerated.
OpenUsb ==
    /\ at = "usb"
    /\ LET matching == {d \in world.usb : MatchesUsb(d, wanted)}
       IN  \/ matching = {} /\ Ends("no_device") /\ UNCHANGED device
           \/ \E d \in matching : device' = d /\ Goes("identify")
    /\ UNCHANGED <<world, role, wanted, identity, stream, received>>

Dial ==
    /\ at = "dial"
    /\ IF Connects(world, Addr)
       THEN /\ c2s' = <<>> /\ s2c' = <<>> /\ open' = TRUE /\ server' = "accept" /\ published' = 0
            /\ Goes("hello")
       ELSE Ends("unreachable") /\ UNCHANGED stream
    /\ UNCHANGED <<world, role, wanted, device, identity, received>>

\* handshake_client, handshake_client_sync
SendHello ==
    /\ at = "hello"
    /\ IF open THEN c2s' = WriteFrame(c2s, Hello(Token)) /\ Goes("reply")
       ELSE Ends("broken") /\ UNCHANGED c2s
    /\ UNCHANGED <<world, role, wanted, device, identity, s2c, open, server, published, received>>

\* Reading fails on a bad length and at the end of a stream that broke; the
\* lease's stream has timeouts, too.
ReadFails ==
    /\ at \in {"reply", "identity"}
    /\ Oversized(s2c) \/ (~Complete(s2c) /\ (~open \/ role = "Lease"))
    /\ Ends("broken")
    /\ UNCHANGED <<world, role, wanted, device, identity, stream, received>>

\* Only a node's rig has to be the one of the config.
RigMatches(reply) == role = "Lease" \/ config.rig \in {None, reply.rig}

ReadReply ==
    /\ at = "reply" /\ Complete(s2c)
    /\ LET reply == FrameOf(s2c)
       IN  \/ reply.type = "ok" /\ RigMatches(reply) /\ Goes(IF role = "Lease" THEN "asks" ELSE "identify")
           \/ reply.type = "ok" /\ ~RigMatches(reply) /\ Ends("wrong_rig")
           \/ reply.type = "denied" /\ Ends("denied")
           \/ reply.type \notin {"ok", "denied"} /\ Ends("broken")
    /\ s2c' = RestOf(s2c)
    /\ UNCHANGED <<world, role, wanted, device, identity, c2s, open, server, published, received>>

\* Node::identify
SendIdentify ==
    /\ at = "identify" /\ role = "Node"
    /\ IF open THEN c2s' = WriteFrame(c2s, Identify) /\ Goes("identity")
       ELSE Ends("broken") /\ UNCHANGED c2s
    /\ UNCHANGED <<world, role, wanted, device, identity, s2c, open, server, published, received>>

Checked(i) ==
    /\ identity' = i
    /\ \/ i.protocol_version # PROTOCOL_VERSION /\ Ends("protocol")
       \/ /\ i.protocol_version = PROTOCOL_VERSION /\ wanted.unique_id \notin {None, i.unique_id}
          /\ Ends("unique_id")
       \/ /\ i.protocol_version = PROTOCOL_VERSION /\ wanted.unique_id \in {None, i.unique_id}
          /\ Goes("node")

\* The device answers, or goes away.
IdentifyUsb ==
    /\ at = "identify" /\ role = "Usb"
    /\ Checked(device.identity) \/ (Ends("broken") /\ UNCHANGED identity)
    /\ UNCHANGED <<world, role, wanted, device, stream, received>>

\* TcpWireRx: HostClient tells the answer from what the node publishes.
Receive ==
    /\ at = "identity" /\ Complete(s2c)
    /\ LET frame == FrameOf(s2c)
       IN  \/ /\ frame.type = "identity" /\ Checked(frame.identity) /\ UNCHANGED received
           \/ /\ frame.type = "publish" /\ received' = Append(received, frame.number)
              /\ UNCHANGED <<at, outcome, identity>>
           \/ /\ frame.type \notin {"identity", "publish"}
              /\ UNCHANGED <<at, outcome, identity, received>>
    /\ s2c' = RestOf(s2c)
    /\ UNCHANGED <<world, role, wanted, device, c2s, open, server, published>>

(***************************************************************************)
(* The other end.                                                          *)
(***************************************************************************)
client == <<world, at, outcome, role, wanted, device, identity, received>>

Welcome(hello) == hello.version = Daemon.version /\ hello.token = Daemon.token

\* handshake_server
ServeHello ==
    /\ server = "accept" /\ ~Daemon.stranger /\ Complete(c2s)
    /\ LET hello == FrameOf(c2s)
       IN  IF Welcome(hello)
           THEN s2c' = WriteFrame(s2c, HelloOk(Daemon.rig)) /\ server' = hello.role /\ UNCHANGED open
           ELSE s2c' = WriteFrame(s2c, Denied) /\ server' = "refused" /\ open' = FALSE
    /\ c2s' = RestOf(c2s)
    /\ UNCHANGED <<client, published>>

ServeNothing ==
    /\ server = "accept" /\ ~Complete(c2s) /\ ~open
    /\ server' = "failed"
    /\ UNCHANGED <<client, c2s, s2c, open, published>>

\* Not a rig daemon: a length out of bounds, a frame that does not decode, or
\* half a frame; it may hang up or wait.
StrangerTalks ==
    /\ server = "accept" /\ Daemon.stranger
    /\ s2c' \in {Header(MaxFrame + 1), WriteFrame(<<>>, Garbage), Header(BodySize)}
    /\ open' \in {open, FALSE} /\ server' = "failed"
    /\ UNCHANGED <<client, c2s, published>>

\* The node answers, and publishes topics from the moment the stream is its own.
ServeIdentify ==
    /\ server = "Node" /\ open /\ Complete(c2s)
    /\ c2s' = RestOf(c2s)
    /\ IF FrameOf(c2s) = Identify
       THEN s2c' = WriteFrame(s2c, Identity(Daemon.identity)) /\ UNCHANGED server
       ELSE server' = "failed" /\ UNCHANGED s2c
    /\ UNCHANGED <<client, open, published>>

NodePublishes ==
    /\ server = "Node" /\ open /\ published < MaxPublished
    /\ published' = published + 1
    /\ s2c' = WriteFrame(s2c, Publish(published'))
    /\ UNCHANGED <<client, c2s, open, server>>

\* The connection breaks; what was in flight is cut anywhere.
Break ==
    /\ server \notin {"off", "failed"} /\ open
    /\ open' = FALSE
    /\ \E n \in 0..Len(c2s), k \in 0..Len(s2c) :
          c2s' = SubSeq(c2s, 1, n) /\ s2c' = SubSeq(s2c, 1, k)
    /\ UNCHANGED <<client, server, published>>

Init ==
    /\ world \in Worlds
    /\ at = "acquire" /\ outcome = "none" /\ role = "none"
    /\ wanted = None /\ device = None /\ identity = None
    /\ c2s = <<>> /\ s2c = <<>> /\ open = FALSE /\ server = "off"
    /\ published = 0 /\ received = <<>>

Next ==
    \/ Acquire \/ TakeLock \/ LeaseAnswered
    \/ (\E name \in Names : AskFor(name)) \/ OpenUsb \/ Dial
    \/ SendHello \/ ReadFails \/ ReadReply \/ SendIdentify \/ IdentifyUsb \/ Receive
    \/ ServeHello \/ ServeNothing \/ StrangerTalks \/ ServeIdentify \/ NodePublishes \/ Break

Spec == Init /\ [][Next]_vars

-----------------------------------------------------------------------------
\* Every variable has its type; there is an entry before there is a node, and
\* an identity only of what was asked for.
TypeOK ==
    /\ at \in {"acquire", "lock", "dial", "hello", "reply", "asks", "held", "usb",
               "identify", "identity", "node", "over"}
    /\ role \in {"none", "Lease", "Node", "Usb"}
    /\ server \in {"off", "accept", "Node", "Lease", "refused", "failed"}
    /\ open \in BOOLEAN
    /\ published \in 0..MaxPublished /\ Len(received) <= published
    /\ role \in {"Node", "Usb"} => wanted # None
    /\ at = "over" <=> outcome # "none"

\* "Catch a typo/DNS/reused-token that landed us on another rig", "reject ...
\* silently matching the wrong device": a node a test gets is one the config
\* means.  It really has the rig name, the protocol, the unique id, serial and
\* product that are asked for, and something was asked for.
NodeIsConfigured ==
    at = "node" =>
        /\ identity.protocol_version = PROTOCOL_VERSION
        /\ wanted.unique_id \in {None, identity.unique_id}
        /\ role = "Node" =>
              /\ identity = Daemon.identity /\ Daemon.token = Token
              /\ config.rig \in {None, Daemon.rig}
        /\ role = "Usb" =>
              /\ identity = device.identity
              /\ wanted.serial # None \/ wanted.product # None
              /\ wanted.serial \in {None, device.serial} /\ wanted.product \in {None, device.product}

\* "On success the stream is positioned at the first post-handshake frame ...
\* on failure the peer got `Denied`": a server that gives a stream away has met
\* a client with its version, its token and that role; a client goes on only
\* if its server has; and from there on either end reads, from the first one,
\* the frames the other end wrote.
HandshakeAgrees ==
    /\ server \in {"Node", "Lease"} =>
          /\ server = role /\ Daemon.token = Token /\ Daemon.version = NET_VERSION
          /\ c2s # <<>> => Head(c2s) = Header(BodySize)[1]
    /\ at \in {"asks", "identify", "identity", "node"} /\ role # "Usb" =>
          /\ server = role
          /\ s2c # <<>> => Head(s2c) = Header(BodySize)[1]
    /\ outcome = "denied" => Daemon.token # Token \/ Daemon.version # NET_VERSION
    /\ received = [n \in DOMAIN received |-> n]

\* The ends banc doctor does not foresee.  It never shakes hands with a node,
\* opens no USB device and asks for no name; it does not wait for a lock or a
\* lease, nor try to make a lock file; it takes a URL for an address; and a
\* stream breaks when it likes.
BeyondDoctor ==
    \/ outcome \in {"timeout", "unknown", "no_device", "wrong_rig", "protocol", "unique_id"}
    \/ outcome = "broken" /\ ~(role = "Lease" /\ Daemon.stranger)
    \/ outcome = "denied" /\ role = "Node"
    \/ outcome = "unreachable" /\ role = "Node" /\ wanted.addr.url
    \/ outcome = "lock" /\ world.lock = "unmakeable"

\* "what doctor checks is what a suite will use": a suite skips exactly where
\* banc doctor and banc rig status find no rig, and where it ends in any other
\* way doctor fails, but for the ends of BeyondDoctor.  Status fails there too
\* when the config or what arbitrates the rig is at fault, and not a node.
DoctorForesees ==
    at = "over" =>
        /\ outcome = "skip" <=> Doctor(world) = 2
        /\ outcome = "skip" <=> RigStatus(world) = 2
        /\ outcome # "skip" /\ ~BeyondDoctor =>
              /\ Doctor(world) = 1
              /\ role # "Node" => RigStatus(world) = 1
=============================================================================
