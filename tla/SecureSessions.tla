--------------------------- MODULE SecureSessions ---------------------------
(***************************************************************************)
(* The secure sessions of KNXnet/IP: IpSecureSessions of                   *)
(* src/src/knx/ip_secure.cpp, and the tunnels that IpTunnelServer opens in *)
(* them.  A client makes a session over UDP or over a TCP stream, proves   *)
(* in it that it knows the password of a user, and is then heard by the    *)
(* tunnel server; ETS may change the credentials at any time.              *)
(*                                                                         *)
(* A handshake gives a key of its own, so keys are numbered; the n-th      *)
(* frame of a client in a session has the sequence number n.  UDP repeats, *)
(* delays, reorders and loses frames.  The cryptography is what it         *)
(* promises: a frame opens only under the key it was sealed with.          *)
(***************************************************************************)
EXTENDS Integers, Sequences, FiniteSets

CONSTANTS
    Endpoint,      \* UDP endpoints of clients
    Handle,        \* the numbers the platform gives TCP connections
    NSession,      \* KNX_IPSECURE_MAX_SESSIONS
    MaxId,         \* 65535 in the source
    User,          \* users that may have a password
    Version,       \* credentials ETS may set; 0 is none
    NTunnel,       \* tunnels of the tunnel server
    SessionTimeout, AuthTimeout, \* 60 s and 10 s
    MaxKey,        \* bound: handshakes and TCP connections
    MaxFrame,      \* bound: frames of a client in a session
    MaxEvent       \* bound: changes of credentials, restarts

SecureSessionsAssumption ==
    /\ NSession \in Nat \ {0} /\ MaxId \in Nat /\ MaxId > NSession /\ NTunnel \in Nat
    /\ SessionTimeout \in Nat /\ AuthTimeout \in Nat /\ AuthTimeout <= SessionTimeout
    /\ MaxKey \in Nat /\ MaxFrame \in Nat /\ MaxEvent \in Nat
    /\ 0 \in Version /\ 0 \notin User

Slot   == 1 .. NSession
Tunnel == 1 .. NTunnel
NoHandle == "udp"

VARIABLES
    sessions,     \* _sessions; id 0: a free slot
    streams,      \* _streams: [Handle -> ...], instance 0: no such connection
    nextId,       \* _nextId
    credentials,  \* PID_DEVICE_AUTHENTICATION and PID_USER_PASSWORD_HASHES
    tunnels,      \* the session of each tunnel: its id, and (ghost) its key
    clients,      \* ghost: the peer and the id of each handshake, and the frames sent under its key
    instances,    \* ghost: TCP connections so far
    heard,        \* ghost: the frames the tunnel server was given, per key, in order
    refused,      \* ghost: a frame was handed on though its credentials had been changed
    events        \* number of events so far

vars == <<sessions, streams, nextId, credentials, tunnels, clients, instances, heard, refused, events>>

NoSession == [id |-> 0, key |-> 0, user |-> 0, endpoint |-> "none", tcp |-> NoHandle, instance |-> 0,
              device |-> 0, password |-> 0, received |-> 0, age |-> 0]
NoStream  == [instance |-> 0, age |-> 0]
NoTunnel  == [id |-> 0, key |-> 0]

\* What a client may put into its n-th frame; it is chosen when that frame first arrives.
Inner ==
    [kind : {"authenticate"}, user : User, password : Version \ {0}]
    \cup [kind : {"request", "close"}, user : {0}, password : {0}]

Unseen == [kind |-> "unseen", user |-> 0, password |-> 0]

UserKey == User \cup {0}

-----------------------------------------------------------------------------
(* Helpers *)

InUse == {s \in Slot : sessions[s].id # 0}

Ids == {sessions[s].id : s \in InUse}

\* credentialsCurrent.
\* seeded fault: the password is not looked at again
IsCurrentDevice(s) ==
    credentials.device # 0 /\ credentials.device = sessions[s].device

IsCurrent(s) ==
    /\ credentials.device # 0 /\ credentials.device = sessions[s].device
    /\ sessions[s].user # 0 =>
          /\ credentials.password[sessions[s].user] # 0
          /\ credentials.password[sessions[s].user] = sessions[s].password

\* The next id that is not 0 and not in use
FreshId == CHOOSE i \in 1 .. MaxId :
              /\ i \notin Ids
              /\ \E n \in 1 .. NSession + 1 :
                    /\ i = ((nextId + n - 1) % MaxId) + 1
                    /\ \A m \in 1 .. n - 1 : ((nextId + m - 1) % MaxId) + 1 \in Ids

\* releaseSession tells the tunnel server.
TunnelsWithout(released) ==
    [t \in Tunnel |-> IF \E s \in released : sessions[s].id = tunnels[t].id THEN NoTunnel ELSE tunnels[t]]

\* close: a session over TCP takes its connection with it.
StreamsWithout(released) ==
    [h \in Handle |-> IF \E s \in released : sessions[s].tcp = h THEN NoStream ELSE streams[h]]

Close(released) ==
    /\ sessions' = [s \in Slot |-> IF s \in released THEN NoSession ELSE sessions[s]]
    /\ tunnels'  = TunnelsWithout(released)
    /\ streams'  = StreamsWithout(released)

\* closeStream: the sessions of the connection go with it.
SessionsOf(h) == {s \in InUse : sessions[s].tcp = h}

CloseStream(h) ==
    /\ sessions' = [s \in Slot |-> IF s \in SessionsOf(h) THEN NoSession ELSE sessions[s]]
    /\ tunnels'  = TunnelsWithout(SessionsOf(h))
    /\ streams'  = [streams EXCEPT ![h] = NoStream]

Event == events < MaxEvent /\ events' = events + 1

-----------------------------------------------------------------------------
(* Connections and handshakes *)

\* loop() accepts a connection; the platform may give it the number of an earlier one.
Accept(h) ==
    /\ streams[h].instance = 0 /\ instances < MaxKey
    /\ Cardinality({g \in Handle : streams[g].instance # 0}) < NSession
    /\ instances' = instances + 1
    /\ streams'   = [streams EXCEPT ![h] = [instance |-> instances + 1, age |-> 0]]
    /\ UNCHANGED <<sessions, nextId, credentials, tunnels, clients, heard, refused, events>>

\* The peer closes the connection, or what it sends is no KNXnet/IP frame.
Hangup(h) ==
    /\ streams[h].instance # 0
    /\ CloseStream(h)
    /\ UNCHANGED <<nextId, credentials, clients, instances, heard, refused, events>>

\* One session per TCP connection, one that is not authenticated per UDP endpoint
MayRequest(endpoint, h) ==
    IF h # NoHandle THEN streams[h].instance # 0 /\ SessionsOf(h) = {}
    ELSE ~\E s \in InUse : sessions[s].endpoint = endpoint /\ sessions[s].tcp = h /\ sessions[s].user = 0

\* SESSION_REQUEST.  isAnswered: the response could be sent; it may still be lost.
Request(s, endpoint, h, isAnswered) ==
    /\ Len(clients) < MaxKey
    /\ credentials.device # 0
    /\ MayRequest(endpoint, h)
    /\ sessions[s].id = 0 /\ \A r \in Slot : sessions[r].id = 0 => s <= r
    /\ nextId' = FreshId
    /\ clients' = Append(clients, [id |-> FreshId, endpoint |-> endpoint, tcp |-> h,
                                   instance |-> IF h = NoHandle THEN 0 ELSE streams[h].instance,
                                   sent |-> [i \in 1 .. MaxFrame |-> Unseen]])
    /\ heard' = Append(heard, 0)
    /\ IF isAnswered
       THEN /\ sessions' = [sessions EXCEPT ![s] =
                  [NoSession EXCEPT !.id = FreshId, !.key = Len(clients) + 1, !.endpoint = endpoint,
                                    !.tcp = h,
                                    !.instance = IF h = NoHandle THEN 0 ELSE streams[h].instance,
                                    !.device = credentials.device]]
            /\ UNCHANGED streams
       ELSE /\ streams' = [g \in Handle |-> IF g = h THEN NoStream ELSE streams[g]]
            /\ UNCHANGED sessions
    /\ UNCHANGED <<credentials, tunnels, instances, refused, events>>

-----------------------------------------------------------------------------
(* What clients send in a session *)

\* The i-th frame under key k arrives: the first time, or once more.  TCP brings it once
\* and in order.
Arrives(k, i, inner) ==
    /\ clients[k].sent[i] \in {Unseen, inner}
    /\ clients[k].tcp # NoHandle =>
          /\ streams[clients[k].tcp].instance = clients[k].instance
          /\ \E s \in InUse : sessions[s].key = k /\ sessions[s].received = i - 1
    /\ clients' = [clients EXCEPT ![k] = [@ EXCEPT !.sent = [@ EXCEPT ![i] = inner]]]

Found(k) ==
    {s \in InUse : /\ sessions[s].id = clients[k].id /\ sessions[s].endpoint = clients[k].endpoint
                   /\ sessions[s].tcp = clients[k].tcp}

\* seeded fault: the last frame may come again
IsNewOrLast(s, i) == i >= sessions[s].received

IsNew(s, i) == i > sessions[s].received

\* The frame is for a session, new, and can be opened.
Opens(s, k, i) == s \in Found(k) /\ IsCurrent(s) /\ IsNew(s, i) /\ sessions[s].key = k

\* A frame for a session whose credentials were changed closes it.
Revoke(k, i, inner) ==
    /\ Arrives(k, i, inner)
    /\ \E s \in Found(k) : ~IsCurrent(s) /\ Close({s})
    /\ UNCHANGED <<nextId, credentials, instances, heard, refused, events>>

\* The stream of a session is as old as the session.
Touch(s) ==
    streams' = [h \in Handle |-> IF h = sessions[s].tcp THEN [streams[h] EXCEPT !.age = 0] ELSE streams[h]]

IsPassword(inner) == credentials.password[inner.user] = inner.password

\* SESSION_AUTHENTICATE with the right password
Authenticate(s, k, i, inner) ==
    /\ Arrives(k, i, inner) /\ Opens(s, k, i)
    /\ inner.kind = "authenticate" /\ sessions[s].user = 0 /\ IsPassword(inner)
    /\ sessions' = [sessions EXCEPT ![s] = [@ EXCEPT !.received = i, !.age = 0, !.user = inner.user,
                                                     !.password = inner.password]]
    /\ Touch(s)
    /\ UNCHANGED <<nextId, credentials, tunnels, instances, heard, refused, events>>

\* A wrong password, a second authentication, anything else before it, or a farewell
IsLast(s, inner) ==
    \/ inner.kind = "authenticate" /\ (sessions[s].user # 0 \/ ~IsPassword(inner))
    \/ inner.kind # "authenticate" /\ sessions[s].user = 0
    \/ inner.kind = "close"

Farewell(s, k, i, inner) ==
    /\ Arrives(k, i, inner) /\ Opens(s, k, i)
    /\ IsLast(s, inner)
    /\ Close({s})
    /\ UNCHANGED <<nextId, credentials, instances, heard, refused, events>>

\* Anything else is given to the tunnel server, which may open a tunnel for it.
Dispatch(s, k, i, inner) ==
    /\ Arrives(k, i, inner) /\ Opens(s, k, i)
    /\ sessions[s].user # 0 /\ inner.kind = "request"
    /\ sessions' = [sessions EXCEPT ![s] = [@ EXCEPT !.received = i, !.age = 0]]
    /\ Touch(s)
    /\ heard' = [heard EXCEPT ![k] = IF @ >= i THEN -1 ELSE i]
    /\ refused' = (refused \/ credentials.password[sessions[s].user] # sessions[s].password)
    /\ \/ \E t \in Tunnel : /\ tunnels[t] = NoTunnel
                           /\ tunnels' = [tunnels EXCEPT ![t] = [id |-> sessions[s].id, key |-> k]]
       \/ UNCHANGED tunnels
    /\ UNCHANGED <<nextId, credentials, instances, events>>

\* The tunnel server sends; over TCP that may fail, and a session with old credentials ends.
SendFails(s) ==
    /\ s \in InUse /\ (sessions[s].tcp # NoHandle \/ ~IsCurrent(s))
    /\ Close({s})
    /\ UNCHANGED <<nextId, credentials, clients, instances, heard, refused, events>>

-----------------------------------------------------------------------------
(* Time *)

Timeout(s) == IF sessions[s].user # 0 THEN SessionTimeout ELSE AuthTimeout

\* seeded fault: only sessions that are in use have an end
IsOverInUse(s) == sessions[s].user # 0 /\ sessions[s].age >= Timeout(s)

IsOver(s) == sessions[s].age >= Timeout(s) \/ ~IsCurrent(s)

Expire(s) ==
    /\ s \in InUse /\ IsOver(s)
    /\ Close({s})
    /\ UNCHANGED <<nextId, credentials, clients, instances, heard, refused, events>>

ExpireStream(h) ==
    /\ streams[h].instance # 0 /\ streams[h].age >= SessionTimeout
    /\ CloseStream(h)
    /\ UNCHANGED <<nextId, credentials, clients, instances, heard, refused, events>>

\* loop() looks after everything between two ticks.
Tick ==
    /\ \A s \in InUse : sessions[s].age < Timeout(s)
    /\ \A h \in Handle : streams[h].instance # 0 => streams[h].age < SessionTimeout
    /\ sessions' = [s \in Slot |-> IF s \in InUse THEN [sessions[s] EXCEPT !.age = @ + 1] ELSE sessions[s]]
    /\ streams'  = [h \in Handle |-> IF streams[h].instance # 0 THEN [streams[h] EXCEPT !.age = @ + 1]
                                     ELSE streams[h]]
    /\ InUse # {} \/ \E h \in Handle : streams[h].instance # 0
    /\ UNCHANGED <<nextId, credentials, tunnels, clients, instances, heard, refused, events>>

-----------------------------------------------------------------------------
(* ETS and restarts *)

SetDevice(version) ==
    /\ Event
    /\ version # credentials.device
    /\ credentials' = [credentials EXCEPT !.device = version]
    /\ UNCHANGED <<sessions, streams, nextId, tunnels, clients, instances, heard, refused>>

SetPassword(user, version) ==
    /\ Event
    /\ version # credentials.password[user]
    /\ credentials' = [credentials EXCEPT !.password = [@ EXCEPT ![user] = version]]
    /\ UNCHANGED <<sessions, streams, nextId, tunnels, clients, instances, heard, refused>>

\* enabled(false) closes everything; after a restart the ids begin anew as well.
Disable(isRestart) ==
    /\ Event
    /\ sessions' = [s \in Slot |-> NoSession]
    /\ streams'  = [h \in Handle |-> NoStream]
    /\ tunnels'  = [t \in Tunnel |-> NoTunnel]
    /\ nextId'   = IF isRestart THEN 0 ELSE nextId
    /\ UNCHANGED <<credentials, clients, instances, heard, refused>>

Credentials == [device : Version, password : [User -> Version]]

Init ==
    /\ sessions = [s \in Slot |-> NoSession]
    /\ streams = [h \in Handle |-> NoStream]
    /\ nextId = 0
    /\ credentials = [device |-> 1, password |-> [u \in User |-> 1]]
    /\ tunnels = [t \in Tunnel |-> NoTunnel]
    /\ clients = << >> /\ instances = 0
    /\ heard = << >> /\ refused = FALSE
    /\ events = 0

Loop ==
    \/ \E s \in Slot : Expire(s)
    \/ \E h \in Handle : ExpireStream(h)
    \/ Tick

Next ==
    \/ Loop
    \/ \E h \in Handle : Accept(h) \/ Hangup(h)
    \/ \E s \in Slot, e \in Endpoint, isAnswered \in BOOLEAN :
          \E h \in Handle \cup {NoHandle} : Request(s, e, h, isAnswered)
    \/ \E k \in DOMAIN clients, i \in 1 .. MaxFrame, inner \in Inner :
          \/ Revoke(k, i, inner)
          \/ \E s \in Slot : \/ Authenticate(s, k, i, inner)
                            \/ Farewell(s, k, i, inner)
                            \/ Dispatch(s, k, i, inner)
    \/ \E s \in Slot : SendFails(s)
    \/ \E version \in Version : SetDevice(version) \/ \E user \in User : SetPassword(user, version)
    \/ \E isRestart \in BOOLEAN : Disable(isRestart)

Spec == Init /\ [][Next]_vars

\* loop() is called again and again.
FairSpec == Spec /\ WF_vars(Loop)

-----------------------------------------------------------------------------
(* Properties *)

TypeOK ==
    /\ \A s \in Slot : sessions[s].id \in 0 .. MaxId /\ sessions[s].user \in UserKey
    /\ nextId \in 0 .. MaxId
    /\ credentials \in Credentials
    /\ \A t \in Tunnel : tunnels[t].id \in 0 .. MaxId

\* What the tunnel server is given of a session comes in the order it was sent in, nothing
\* twice, though datagrams are repeated and reordered and numbers of sessions are reused.
HeardInOrder == \A k \in DOMAIN heard : heard[k] # -1

\* Nothing is handed on for a user whose password was changed since it was proved.
NothingRevoked == ~refused

\* A tunnel lives in the authenticated session that opened it, never in a later one with
\* the same number.
TunnelsInTheirSession ==
    \A t \in Tunnel : tunnels[t] # NoTunnel =>
        \E s \in InUse : sessions[s].id = tunnels[t].id /\ sessions[s].key = tunnels[t].key
                         /\ sessions[s].user # 0

\* A session over TCP has the connection it was made on, never a later one with the same
\* number.
SessionsOnTheirStream ==
    \A s \in InUse : sessions[s].tcp # NoHandle =>
        streams[sessions[s].tcp].instance = sessions[s].instance

\* The three together: a session, its frames, its tunnels and its connection belong to one
\* handshake.
SessionsCoherent == HeardInOrder /\ TunnelsInTheirSession /\ SessionsOnTheirStream

\* Who asks for a session and does not authenticate holds it only for a while, so that the
\* slots cannot be used up for good.
SlotsReturn ==
    \A s \in Slot : []<>(sessions[s].id # 0 => sessions[s].user # 0)

=============================================================================
