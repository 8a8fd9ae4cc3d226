----------------------------- MODULE RigConfig ------------------------------
(***************************************************************************)
(* The rig configuration (banc-host/src/config.rs, and the parts of rig.rs *)
(* and of the banc command that only read it), as operators on a world: a  *)
(* record of what the program finds on the machine and on the network.     *)
(*   env, above       BANC_RIG, and whether a config lies further up       *)
(*   config           the parsed file, or None if it does not parse        *)
(*   tokens           the trimmed content of every token file, or None     *)
(*   listens          who answers at every host:port, or None              *)
(*   usb              the devices attached                                 *)
(*   lock, artifacts  the lock file; can the artifacts directory be written*)
(*   probe_rs         is probe-rs on the PATH                              *)
(* A missing option is None; a blank text is Blank.  An address has a host and*)
(* may be written as a URL.                                                *)
(***************************************************************************)
EXTENDS Integers, Sequences, FiniteSets

CONSTANTS
    None,
    NotHex,            \* a unique_id that is not 16 hex digits
    NET_VERSION,
    PROTOCOL_VERSION

\* A text without characters.
Blank == ""

Locate(w) ==
    CASE w.env = "file" -> "found"
      [] w.env = "dangling" -> "error"
      [] w.env = "unset" -> IF w.above THEN "found" ELSE "none"

IsNetwork(a) == a.addr # None

Named(entries) ==
    /\ \A i \in DOMAIN entries : entries[i].name # Blank
    /\ \A i, j \in DOMAIN entries : entries[i].name = entries[j].name => i = j

\* One transport, with what it needs to find the one node that is meant.
Reachable(a) ==
    IF IsNetwork(a)
    THEN a.serial = None /\ a.product = None /\ a.token_file # None /\ a.addr.host # Blank
    ELSE (a.serial # None \/ a.product # None) /\ a.token_file = None

Validate(config) ==
    /\ Named(config.assistants) /\ Named(config.instruments)
    /\ \A i \in DOMAIN config.assistants :
          Reachable(config.assistants[i]) /\ config.assistants[i].unique_id # NotHex
    /\ config.lease # None => config.lease.addr.host # Blank

Loads(w) == w.config # None /\ Validate(w.config)

\* The first entry of that name, or None.
Assistant(config, name) ==
    LET hits == {i \in DOMAIN config.assistants : config.assistants[i].name = name}
    IN  IF hits = {} THEN None
        ELSE config.assistants[CHOOSE i \in hits : \A j \in hits : i <= j]

\* read_token fails on a missing file and on a blank one.
TokenReads(w, file) == w.tokens[file] \notin {None, Blank}

\* The predicate that picks a USB device, and a mutant of it.
MatchesEither(device, a) == device.serial = a.serial \/ device.product = a.product
MatchesUsb(device, a) ==
    /\ a.serial # None => device.serial = a.serial
    /\ a.product # None => device.product = a.product

(***************************************************************************)
(* banc doctor and banc rig status, by their exit codes.                   *)
(***************************************************************************)
\* TcpStream::connect wants host:port; tcp_reach takes a URL as well.
Connects(w, addr) == ~addr.url /\ w.listens[addr.host] # None
TcpReach(w, addr) == w.listens[addr.host] # None

\* query_status: connect, handshake, one request.
LeaseAnswers(w, lease) ==
    /\ TokenReads(w, lease.token_file)
    /\ Connects(w, lease.addr)
    /\ LET d == w.listens[lease.addr.host]
       IN  ~d.stranger /\ d.version = NET_VERSION /\ d.token = w.tokens[lease.token_file]

\* flock_status cannot open the file; a file that is not there is free.
FlockAnswers(w) == w.lock # "unopenable"

ArbiterAnswers(w) ==
    IF w.config.lease # None THEN LeaseAnswers(w, w.config.lease) ELSE FlockAnswers(w)

TargetOK(w, target) ==
    /\ w.probe_rs
    /\ target.probe_host # None => TcpReach(w, target.probe_host)
    /\ target.token_file # None => TokenReads(w, target.token_file)

\* A mutant: token files are left to the suite.
AssistantOnlyReached(w, a) == IsNetwork(a) => TcpReach(w, a.addr)

\* USB nodes are not looked for.
AssistantOK(w, a) == IsNetwork(a) => TokenReads(w, a.token_file) /\ TcpReach(w, a.addr)

\* Only addresses with a port and without a slash are.
InstrumentOK(w, i) == i.address # None /\ ~i.address.url => TcpReach(w, i.address)

LoadConfigExit(w) ==
    CASE Locate(w) = "none" -> 2
      [] Locate(w) = "error" -> 1
      [] Locate(w) = "found" -> IF Loads(w) THEN 0 ELSE 1

RigStatus(w) ==
    IF LoadConfigExit(w) # 0 THEN LoadConfigExit(w) ELSE IF ArbiterAnswers(w) THEN 0 ELSE 1

AllIsWell(w) ==
    LET c == w.config
    IN  /\ ArbiterAnswers(w)
        /\ c.target # None => TargetOK(w, c.target)
        /\ \A i \in DOMAIN c.assistants : AssistantOK(w, c.assistants[i])
        /\ \A i \in DOMAIN c.instruments : InstrumentOK(w, c.instruments[i])
        /\ w.artifacts

Doctor(w) ==
    IF LoadConfigExit(w) # 0 THEN LoadConfigExit(w) ELSE IF AllIsWell(w) THEN 0 ELSE 1
=============================================================================
