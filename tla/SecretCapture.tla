--------------------------- MODULE SecretCapture ---------------------------
(***************************************************************************)
(* From the secrets of a TLS connection to the key log: the hooks of       *)
(* kern/openssl_masterkey*.h, kern/boringssl_masterkey.h and the last part *)
(* of kern/gotls_kern.c copy what the connection holds at that moment, and *)
(* KeylogHandler writes the secrets it has not seen yet, cut to the length *)
(* it takes from the cipher suite of the event.                            *)
(*                                                                         *)
(* The hooks of OpenSSL run at any time, before the secrets exist and after*)
(* they have been replaced as well.  A secret is "own" (of the connection),*)
(* "old" (of a session that was offered for resumption), "next" (of a later*)
(* key update) or "zero".  The early secret is left out.                   *)
(***************************************************************************)
EXTENDS Integers, FiniteSets, Sequences

CONSTANTS
    TlsConns,       \* connections, each with its client random
    Suites,         \* cipher suites of TLS 1.3, by their number
    MaxFailures     \* bound: writes and flushes of the key log that fail

VARIABLES
    lib,            \* "openssl", "boringssl" or "gotls"
    tls,            \* tls[k]: the connection: version, suite, phase, whether a session
                    \* was offered and what became of it
    captured,       \* the events under way to the handler
    keylog,         \* keylog[k][label]: the lines written: the secret, the number of
                    \* bytes, and the phase in which it was taken
    seenKeys,       \* the keys of seenKeys: connections and labels
    complete,       \* the connections of which an event taken after the handshake
                    \* was handled without an error
    failures,       \* writes that failed
    flushFailures   \* flushes that failed after a write

secretVars == <<lib, tls, captured, keylog, seenKeys, complete, failures, flushFailures>>

Label12 == {"CLIENT_RANDOM"}
TrafficLabels == {"CLIENT_TRAFFIC_SECRET_0", "SERVER_TRAFFIC_SECRET_0", "EXPORTER_SECRET"}
HandshakeLabels == {"CLIENT_HANDSHAKE_TRAFFIC_SECRET", "SERVER_HANDSHAKE_TRAFFIC_SECRET"}
Labels == Label12 \cup TrafficLabels \cup HandshakeLabels

\* The suites KeylogHandler knows: 0x1301, 0x1302 and 0x1303.
TlsAes128GcmSha256 == 4865
TlsAes256GcmSha384 == 4866
TlsChacha20Poly1305Sha256 == 4867
KnownSuites == {TlsAes128GcmSha256, TlsAes256GcmSha384, TlsChacha20Poly1305Sha256}

MasterSecretMaxLen == 48
EvpMaxMdSize == 64

SecretConstantsOK == TlsAes128GcmSha256 \in Suites

\* The phases of a connection: nothing yet, the ClientHello is made, the keys of
\* the handshake exist, the handshake is over, the traffic keys were updated.
New == 0
Hello == 1
Keyed == 2
Done == 3
Updated == 4

-----------------------------------------------------------------------------
\* The traced program.
Step(k) ==
    /\ tls[k].phase < IF tls[k].version = 13 THEN Updated ELSE Done
    /\ tls' = [tls EXCEPT ![k].phase = @ + 1]
    /\ UNCHANGED <<lib, captured, keylog, seenKeys, complete, failures, flushFailures>>

\* What the connection holds for a label: of TLS 1.2 the key of the session that
\* is offered, until the server has answered.
Held(k, label) ==
    LET c == tls[k]
    IN  CASE label \in Label12 /\ c.version = 12 ->
               (CASE c.phase >= Keyed -> IF c.session = "resumed" THEN "old" ELSE "own"
                  [] c.phase = Hello /\ c.session # "fresh" -> "old"
                  [] OTHER -> "zero")
          [] label \in HandshakeLabels /\ c.version = 13 ->
               IF c.phase >= Keyed THEN "own" ELSE "zero"
          [] label \in TrafficLabels /\ c.version = 13 ->
               (CASE c.phase = Updated -> IF label = "EXPORTER_SECRET" THEN "own" ELSE "next"
                  [] c.phase = Done -> "own"
                  [] OTHER -> "zero")
          [] OTHER -> "zero"

\* The key a line of the connection should have.
Right(k, label) ==
    IF label \in Label12 /\ tls[k].session = "resumed" THEN "old" ELSE "own"

\* The length of the secrets of TLS 1.3, that of the hash of the suite.
HashLen(k) == IF tls[k].suite = TlsAes256GcmSha384 THEN 48 ELSE 32

\* The length of the secret a line should have.
RightLen(k, label) == IF label \in Label12 THEN MasterSecretMaxLen ELSE HashLen(k)

\* What DecodeFromBytes() takes for the cipher suite: of OpenSSL that of the
\* session, once the server has chosen it; of BoringSSL, whose struct has another
\* field in that place, hash_len.  An event of Go has no such field.
CipherId(k) ==
    IF lib = "boringssl" THEN HashLen(k)
    ELSE IF lib = "openssl" /\ tls[k].phase >= Keyed THEN tls[k].suite
    ELSE 0

\* An event reaches the ring, or a read has failed or the ring is full.
Output(k, labels) ==
    /\ captured' \in {captured, captured \cup
         {[conn |-> k, taken |-> tls[k].phase, cipher_id |-> CipherId(k),
           secrets |-> [l \in labels |-> Held(k, l)]]}}
    /\ UNCHANGED <<lib, tls, keylog, seenKeys, complete, failures, flushFailures>>

\* probe_ssl_master_key() of OpenSSL: SSL_write(), SSL_do_handshake(),
\* SSL_in_before() or SSL_get_wbio() is entered.
probe_ssl_master_key(k) ==
    /\ lib = "openssl"
    /\ Output(k, Labels)

\* uretprobe_bssl_do_handshake(): SSL_do_handshake() has returned 1, as it does as
\* well when it is called later on.  The secrets of the handshake are not read.
\* (probe_ssl_master_key() of BoringSSL, which would, is attached nowhere.)
uretprobe_bssl_do_handshake(k) ==
    /\ lib = "boringssl"
    /\ tls[k].phase >= Done
    /\ Output(k, Label12 \cup TrafficLabels)

\* gotls_mastersecret(): the program itself logs a secret that exists.
gotls_mastersecret(k, label) ==
    /\ lib = "gotls"
    /\ label # "EXPORTER_SECRET"
    /\ Held(k, label) = Right(k, label)
    /\ Output(k, {label})

-----------------------------------------------------------------------------
\* A bug: the secrets of SHA-384 are cut like those of SHA-256.
lengthShort(e) == IF e.cipher_id \in KnownSuites THEN 32 ELSE EvpMaxMdSize

\* length of handleTLS13(): an unknown suite has its secrets written in full.
length(e) ==
    IF e.cipher_id \in {TlsAes128GcmSha256, TlsChacha20Poly1305Sha256} THEN 32
    ELSE IF e.cipher_id = TlsAes256GcmSha384 THEN 48
    ELSE EvpMaxMdSize

\* transcript # 0: the hash is known with which the secrets of the handshake are
\* derived.  Go has derived its own.
HasTranscript(e) == lib = "gotls" \/ e.cipher_id \in KnownSuites

\* A bug: the first label that was seen ends the handling of the event.
PendingOrNone(e) ==
    {l \in DOMAIN e.secrets :
        /\ e.secrets[l] # "zero"
        /\ \A m \in Labels : <<e.conn, m>> \notin seenKeys
        /\ l \in HandshakeLabels => HasTranscript(e)}

\* The labels of an event that are written: not those without a secret, not those
\* seen, and of the handshake only with a hash.
Pending(e) ==
    {l \in DOMAIN e.secrets :
        /\ e.secrets[l] # "zero"
        /\ <<e.conn, l>> \notin seenKeys
        /\ l \in HandshakeLabels => HasTranscript(e)}

\* A line: masterKey[:MasterSecretMaxLen], data[:length], or the secret of Go,
\* which comes with its length.
Line(e, l) ==
    [secret |-> e.secrets[l],
     bytes |-> IF l \in Label12 THEN MasterSecretMaxLen
               ELSE IF lib = "gotls" THEN HashLen(e.conn)
               ELSE length(e),
     taken |-> e.taken]

Write(e, labels) ==
    keylog' = [keylog EXCEPT ![e.conn] =
        [l \in Labels |-> IF l \in labels THEN Append(@[l], Line(e, l)) ELSE @[l]]]

\* A bug: nothing is marked.
MarkSeenNot(e, labels) == seenKeys' = seenKeys

MarkSeen(e, labels) == seenKeys' = seenKeys \cup {<<e.conn, l>> : l \in labels}

\* Handle(): handleTLS12(), handleTLS13() or handleGoTLS() writes all that is
\* pending.
Handle(e) ==
    /\ captured' = captured \ {e}
    /\ Write(e, Pending(e))
    /\ MarkSeen(e, Pending(e))
    /\ complete' = IF e.taken >= Done THEN complete \cup {e.conn} ELSE complete
    /\ UNCHANGED <<lib, tls, failures, flushFailures>>

\* A write fails: the labels that come after it, in the random order of a Go map,
\* are not written either.
HandleWriteFails(e) ==
    /\ failures + flushFailures < MaxFailures
    /\ \E written \in SUBSET Pending(e) :
         /\ written # Pending(e)
         /\ Write(e, written)
         /\ MarkSeen(e, written)
    /\ captured' = captured \ {e}
    /\ failures' = failures + 1
    /\ UNCHANGED <<lib, tls, complete, flushFailures>>

\* handleTLS12() flushes before it marks the key: the flush fails after the write.
HandleFlushFails(e) ==
    /\ failures + flushFailures < MaxFailures
    /\ lib # "gotls" /\ tls[e.conn].version = 12
    /\ Pending(e) # {}
    /\ captured' = captured \ {e}
    /\ Write(e, Pending(e))
    /\ flushFailures' = flushFailures + 1
    /\ UNCHANGED <<lib, tls, seenKeys, complete, failures>>

Init ==
    /\ lib \in {"openssl", "boringssl", "gotls"}
    /\ tls \in [TlsConns -> [version : {12, 13}, suite : Suites, phase : {New},
                             session : {"fresh", "resumed", "refused"}]]
    /\ \A k \in TlsConns : IF tls[k].version = 13 THEN tls[k].session = "fresh"
                           ELSE tls[k].suite = TlsAes128GcmSha256
    /\ captured = {}
    /\ keylog = [k \in TlsConns |-> [l \in Labels |-> <<>>]]
    /\ seenKeys = {}
    /\ complete = {}
    /\ failures = 0
    /\ flushFailures = 0

Next ==
    \/ \E k \in TlsConns :
         \/ Step(k)
         \/ probe_ssl_master_key(k)
         \/ uretprobe_bssl_do_handshake(k)
         \/ \E l \in Labels : gotls_mastersecret(k, l)
    \/ \E e \in captured : Handle(e) \/ HandleWriteFails(e) \/ HandleFlushFails(e)

Spec == Init /\ [][Next]_secretVars

-----------------------------------------------------------------------------
\* A label that was seen has a line, and failures are bounded.
TypeOK ==
    /\ lib \in {"openssl", "boringssl", "gotls"}
    /\ \A k \in TlsConns, l \in Labels :
         keylog[k][l] \in Seq([secret : {"own", "old", "next"}, bytes : {32, 48, 64},
                               taken : New .. Updated])
    /\ seenKeys \subseteq TlsConns \X Labels
    /\ \A k \in TlsConns, l \in Labels : <<k, l>> \in seenKeys => keylog[k][l] # <<>>
    /\ complete \subseteq TlsConns
    /\ failures + flushFailures \in 0 .. MaxFailures

\* A secret has one line in the key log, whatever order the events arrive in and
\* however often a write fails half way; only a flush that fails leaves the key
\* unseen and its line written.
LoggedOnce ==
    \A k \in TlsConns, l \in Labels : Len(keylog[k][l]) <= 1 + flushFailures

\* The connection has another secret in the place of its own at that phase.
Replaced(k, l, phase) ==
    \/ l \in Label12 /\ tls[k].session = "refused" /\ phase < Keyed
    \/ l \in TrafficLabels \ {"EXPORTER_SECRET"} /\ phase = Updated

\* The handler is given the length of the secrets of the connection: it is that of
\* TLS 1.2, comes from Go, or follows from a suite of OpenSSL that is known.
LengthKnown(k) ==
    \/ tls[k].version = 12
    \/ lib = "gotls"
    \/ lib = "openssl" /\ tls[k].suite \in KnownSuites

\* A line has the secret of its connection, in whatever order the events are handled,
\* unless the first event that had one was taken while another secret was in its
\* place (a later event then does not correct it); and it has the bytes of that
\* secret and no others wherever the handler is given the length.  Otherwise, with a
\* suite it does not know and for BoringSSL, it always has too many.
LoggedIsRight ==
    \A k \in TlsConns, l \in Labels : \A i \in DOMAIN keylog[k][l] :
        LET line == keylog[k][l][i]
        IN  /\ line.secret = Right(k, l) <=> ~Replaced(k, l, line.taken)
            /\ line.bytes = IF LengthKnown(k) THEN RightLen(k, l) ELSE EvpMaxMdSize

\* Once an event taken after the handshake has been handled without an error, no
\* secret it should hold is missing, also if an earlier event was taken too early
\* or was written half.  The secrets of the handshake are there for OpenSSL and
\* the suites the handler knows, and only for those.
NothingMissing ==
    lib # "gotls" =>
        \A k \in complete : \A l \in Labels :
            keylog[k][l] # <<>> <=>
                IF tls[k].version = 12 THEN l \in Label12
                ELSE l \in TrafficLabels \/ (l \in HandshakeLabels /\ LengthKnown(k))

=============================================================================
