----------------------------- MODULE TcCapture -----------------------------
(***************************************************************************)
(* The packet capture of pcap mode (kern/tc.h).  The classifiers on the    *)
(* interface run in no process of their own and look packets up in         *)
(* network_map, an LRU hash, in both directions, to learn which process    *)
(* they belong to.  It is filled by two kprobes, on tcp_sendmsg() and      *)
(* udp_sendmsg(): a program runs only if setupManagerPcapNG() attaches it. *)
(*                                                                         *)
(* A flow is a 5-tuple seen from one end; Reverse[f] is the tuple of the   *)
(* answers.                                                                *)
(***************************************************************************)
EXTENDS Integers, FiniteSets

CONSTANTS
    Procs,          \* the processes
    Local,          \* the flows whose source is on this host
    Reverse,        \* Reverse[f]: source and destination of f exchanged
    Cgroups,
    TargetPid,      \* target_pid, or NoProc for all
    TargetCgroup,   \* target_cgroup_id, or NoCgroup for all
    NoProc, NoCgroup,
    NetCap          \* max_entries of network_map

VARIABLES
    owner,          \* owner[f]: the process that has the socket of f
    hasSent,        \* the flows on which their owner has sent
    cgroup,         \* cgroup[p]: the cgroup p is in
    network_map,    \* the tuples and the net_ctx_t stored for them
    verdict         \* the verdict on a packet, while that is the last step

vars == <<owner, hasSent, cgroup, network_map, verdict>>

NoPacket == [kind |-> "none"]

\* The programs of tc.h among the probes of setupManagerPcapNG(), of OpenSSL and of
\* Go alike.
Attached == {"ingress_cls_func", "egress_cls_func"}

-----------------------------------------------------------------------------
\* What trace_sendmsg() makes of network_map: bpf_map_update_elem() on an LRU hash,
\* which gives up some entry when it is full.  Nothing is filtered here.
trace_sendmsg(key, ctx) ==
    LET keys == DOMAIN network_map
        put(kept) == [k \in kept \cup {key} |-> IF k = key THEN ctx ELSE network_map[k]]
    IN  IF key \in keys \/ Cardinality(keys) < NetCap
        THEN {put(keys)}
        ELSE {put(keys \ {victim}) : victim \in keys}

\* What capture_packets() finds for a tuple: the entry of the tuple, else the
\* one of the tuple turned round.
net_ctx(key) ==
    IF key \in DOMAIN network_map THEN {network_map[key]}
    ELSE {network_map[k] : k \in {Reverse[key]} \cap DOMAIN network_map}

\* filter_rejects_base() on the recorded pid; the uid filter is alike.
filter_rejects_base(ctx) == TargetPid # NoProc /\ TargetPid # ctx.pid

\* capture_packets() on a packet of flow f with the tuple key, which the pcap
\* filter lets pass: whether it becomes an event.  One that belongs to nobody does.
capture_packets(f, key) ==
    verdict' =
        [kind |-> "packet", flow |-> f,
         kept |-> \A ctx \in net_ctx(key) :
                    /\ ~filter_rejects_base(ctx)
                    /\ TargetCgroup \in {NoCgroup, ctx.cgroup}]

-----------------------------------------------------------------------------
egress_cls_func(f) ==
    /\ "egress_cls_func" \in Attached
    /\ f \in hasSent
    /\ capture_packets(f, f)
    /\ UNCHANGED <<owner, hasSent, cgroup, network_map>>

\* An answer to flow f.
ingress_cls_func(f) ==
    /\ "ingress_cls_func" \in Attached
    /\ f \in hasSent
    /\ capture_packets(f, Reverse[f])
    /\ UNCHANGED <<owner, hasSent, cgroup, network_map>>

\* A packet that is too short, refused by the pcap filter, or an IP packet that
\* is neither TCP nor UDP nor ICMP is let go; one that is not IP at all (ARP)
\* is captured and belongs to nobody.
other_packet ==
    /\ \E kept \in BOOLEAN : verdict' = [kind |-> "other", kept |-> kept]
    /\ UNCHANGED <<owner, hasSent, cgroup, network_map>>

-----------------------------------------------------------------------------
\* The host: sockets are opened, sent on and closed, and processes move between
\* cgroups.  The kprobe on tcp_sendmsg() or udp_sendmsg() runs as part of a send.
Open(p, f) ==
    /\ owner[f] = NoProc
    /\ owner' = [owner EXCEPT ![f] = p]
    /\ verdict' = NoPacket
    /\ UNCHANGED <<hasSent, cgroup, network_map>>

Send(f) ==
    /\ owner[f] # NoProc
    /\ hasSent' = hasSent \cup {f}
    /\ IF "sendmsg" \in Attached
       THEN network_map' \in
                trace_sendmsg(f, [pid |-> owner[f], cgroup |-> cgroup[owner[f]]])
       ELSE UNCHANGED network_map
    /\ verdict' = NoPacket
    /\ UNCHANGED <<owner, cgroup>>

Close(f) ==
    /\ owner[f] # NoProc
    /\ owner' = [owner EXCEPT ![f] = NoProc]
    /\ hasSent' = hasSent \ {f}
    /\ verdict' = NoPacket
    /\ UNCHANGED <<cgroup, network_map>>

MoveCgroup(p, g) ==
    /\ cgroup' = [cgroup EXCEPT ![p] = g]
    /\ verdict' = NoPacket
    /\ UNCHANGED <<owner, hasSent, network_map>>

Init ==
    /\ owner = [f \in Local |-> NoProc]
    /\ hasSent = {}
    /\ cgroup \in [Procs -> Cgroups]
    /\ network_map = <<>>
    /\ verdict = NoPacket

Next ==
    \/ \E f \in Local :
         \/ egress_cls_func(f)
         \/ ingress_cls_func(f)
         \/ Send(f)
         \/ Close(f)
         \/ \E p \in Procs : Open(p, f)
    \/ \E p \in Procs, g \in Cgroups : MoveCgroup(p, g)
    \/ other_packet

Spec == Init /\ [][Next]_vars

-----------------------------------------------------------------------------
(* What a document says, and the code does not do.                         *)

\* docs/defense-detection.md:156: "Limit capture to specific processes using `--pid`
\* flag instead of capturing all traffic": a packet of a connection on which its
\* process has sent is captured only if that process is the target.
PidLimitsCapture ==
    verdict.kind = "packet" /\ verdict.kept => TargetPid \in {NoProc, owner[verdict.flow]}
=============================================================================
