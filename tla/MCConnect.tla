----------------------------- MODULE MCConnect ------------------------------
(* An instance of Connect for TLC: worlds around a network rig and a USB rig. *)
EXTENDS Connect

At(host) == [host |-> host, url |-> FALSE]
Url(host) == [host |-> host, url |-> TRUE]

Node(unique_id) ==
    [name |-> "a0", serial |-> None, product |-> None, addr |-> At("pi"), token_file |-> "node.token",
     unique_id |-> unique_id]
Usb(serial, product) ==
    [name |-> "a0", serial |-> serial, product |-> product, addr |-> None, token_file |-> None,
     unique_id |-> None]

\* Configs: what is right, and what validate refuses.
Plain(a) == [rig |-> None, lease |-> None, target |-> None, assistants |-> <<a>>, instruments |-> <<>>]
Lease(addr) == [addr |-> addr, token_file |-> "lease.token"]

NodeEntries ==
    {Node(None), Node("u1"), Node(NotHex)}
    \union {[Node(None) EXCEPT !.addr = x] : x \in {Url("pi"), At(Blank)}}
    \union {[Node(None) EXCEPT !.token_file = None], [Node(None) EXCEPT !.serial = "s1"]}
    \union {[Node(None) EXCEPT !.name = Blank]}

NetworkConfigs ==
    {None}
    \union {Plain(a) : a \in NodeEntries}
    \union {[Plain(Node("u1")) EXCEPT !.rig = "bench", !.lease = x] :
               x \in {None, Lease(At("pi")), Lease(Url("pi")), Lease(At(Blank))}}
    \union {[Plain(Node(None)) EXCEPT !.assistants = <<Node(None), Node("u1")>>]}

Instrument(name, address) == [name |-> name, address |-> address]

BenchConfigs ==
    {[Plain(a) EXCEPT !.target = t, !.instruments = i] :
        a \in {Usb("s1", None), Usb(None, "p1"), Usb("s1", "p1"), Usb(None, None),
               [Usb("s1", None) EXCEPT !.unique_id = "u1"]},
        t \in {None, [probe_host |-> Url("pi"), token_file |-> "node.token"]},
        i \in {<<>>, <<Instrument("i", At("pi"))>>, <<Instrument("i", None), Instrument("i", None)>>}}

Is(protocol_version, unique_id) == [protocol_version |-> protocol_version, unique_id |-> unique_id]

Rig(version, token, rig, id) ==
    [stranger |-> FALSE, version |-> version, token |-> token, rig |-> rig, identity |-> id]
Stranger == [Rig(0, "", "", Is(1, "")) EXCEPT !.stranger = TRUE]

Daemons ==
    {None, Stranger}
    \union {Rig(v, t, r, i) : v \in {0, 1}, t \in {"t1", "t2"}, r \in {"bench", "other"},
                              i \in {Is(1, "u1"), Is(1, "u2"), Is(2, "u1")}}

Device(serial, product, id) == [serial |-> serial, product |-> product, identity |-> id]
Devices == {Device("s1", "p1", Is(1, "u1")), Device("s1", "p2", Is(1, "u2")),
            Device("s2", "p1", Is(1, "u2")), Device("s2", "p2", Is(2, "u1"))}

Base ==
    [env |-> "unset", above |-> TRUE, config |-> Plain(Node(None)),
     tokens |-> [f \in {"node.token", "lease.token"} |-> "t1"],
     listens |-> [h \in {"pi", "hub"} |-> Rig(0, "t1", "bench", Is(1, "u1"))],
     usb |-> {}, lock |-> "free", artifacts |-> TRUE, probe_rs |-> TRUE]

MCWorlds ==
    \* Where the config is.
    {[Base EXCEPT !.env = e, !.above = u] : e \in {"unset", "file", "dangling"}, u \in BOOLEAN}
    \* The network: who listens, and what the token files hold.
    \union {[Base EXCEPT !.config = c, !.tokens["node.token"] = n, !.listens["pi"] = d] :
               c \in NetworkConfigs, n \in {None, Blank, "t1"}, d \in Daemons}
    \union {[Base EXCEPT !.config = [Plain(Node("u1")) EXCEPT !.lease = Lease(At("hub"))],
                         !.tokens["lease.token"] = l, !.listens["hub"] = d, !.listens["pi"] = n] :
               l \in {None, Blank, "t1", "t2"}, d \in Daemons, n \in {None, Rig(0, "t1", "other", Is(1, "u1"))}}
    \* The bench: what is plugged in, and the state of the machine.
    \union {[Base EXCEPT !.config = c, !.usb = u] : c \in BenchConfigs, u \in SUBSET Devices}
    \union {[Base EXCEPT !.config = c, !.usb = Devices, !.lock = l, !.artifacts = a, !.probe_rs = p] :
               c \in BenchConfigs, l \in {"free", "busy", "unopenable", "unmakeable"},
               a \in BOOLEAN, p \in BOOLEAN}
=============================================================================
