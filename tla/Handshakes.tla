----------------------------- MODULE Handshakes -----------------------------
(***************************************************************************)
(* What the two ends of a TLS connection find out in the handshake, and    *)
(* tell: the credentials the server takes for the name it is asked for     *)
(* (SNI), the protocol (NPN), the certificate of the other end and whether *)
(* it is authorized; in a connection of its own or in one that resumes the *)
(* session of another.  The messages themselves are OpenSSL's.             *)
(***************************************************************************)
EXTENDS Integers, Sequences, Functions

CONSTANTS Cas,          \* authorities; a certificate is known by its issuer
          ServerCa,     \* that of the server's own certificate, and trusted by all
          Hosts,        \* names a client may ask for
          Lists,        \* of protocols, the preferred one first
          ContextCas,   \* authorities of the certificates given to addContext
          Adders,       \* servers of the process that call addContext, "this" among them
          SameOptions,  \* whether a session is only used for the name it was made for
          Forgetful,    \* whether a client gives no list after one that did
          MaxConns, MaxContexts,   \* bounds
          Nobody        \* no certificate, no name, no list

VARIABLES server,       \* requestCert, rejectUnauthorized and NPNProtocols
          contexts,     \* Server.prototype._contexts, of all servers
          tlsNPN,       \* NPNProtocols of the module, where tls.connect keeps it
          conns         \* connections of "this" server, with both of their ends

handshakeVars == <<server, contexts, tlsNPN, conns>>

UnverifiedLeaf == "UNABLE_TO_VERIFY_LEAF_SIGNATURE"

\* What OpenSSL finds of a certificate with the store of a context; whatever it
\* is, VerifyCallback lets the handshake go on.
Verified(cert, ca) == IF cert = ca THEN "OK" ELSE UnverifiedLeaf
VerifyCallback == TRUE

\* verifyError: null, or the name of the error; no certificate is one, too.
VerifyError(peer, result) ==
    IF peer = Nobody THEN "UNABLE_TO_GET_ISSUER_CERT"
    ELSE IF result = "OK" THEN Nobody ELSE result

GetPeerCertificate(session, end) == session[end].peer

\* The name comes from the session, and the protocol of the server is the one that
\* was sent, that of the client what its callback noted.
GetServername(session) == session.host
GetNegotiatedProto(choice, isServer) == IF isServer THEN choice.sent ELSE choice.said

\* The string of getSession; setSession gives it to another connection.
GetSession(k) == conns[k].session
SetSession(k, from) ==
    from > 0 => /\ conns[from].client = "secure"
                /\ SameOptions => conns[from].host = conns'[k].host /\ conns[from].cert = conns'[k].cert

\* SSL_VERIFY_FAIL_IF_NO_PEER_CERT; every other fault is left to JavaScript.
FailsWithoutCert == server.requestCert /\ server.rejectUnauthorized

-----------------------------------------------------------------------------
\* tls.createServer.
Listen == /\ server = Nobody
          /\ \E request, reject \in BOOLEAN, npn \in Lists \cup {Nobody} :
               server' = [requestCert |-> request, rejectUnauthorized |-> reject, npn |-> npn]
          /\ UNCHANGED <<contexts, tlsNPN, conns>>

\* addContext, for a name or for all of them.
AddContext(adder, name, ca) ==
    /\ Len(contexts) < MaxContexts
    /\ contexts' = Append(contexts, [by |-> adder, name |-> name, ca |-> ca])
    /\ UNCHANGED <<server, tlsNPN, conns>>

\* A client without a host asks for the name "undefined".
NameSent(host) == IF host = Nobody THEN "undefined" ELSE host

\* tls.connect: a list that is given goes to the module, and the one of the
\* module to the connection.  `from` is the connection whose session it has.
NewConnection(host, cert, npn, from) ==
    /\ tlsNPN' = IF npn = Nobody THEN tlsNPN ELSE npn
    /\ conns' = Append(conns,
         [host |-> host, cert |-> cert, given |-> npn, npn |-> tlsNPN', from |-> from,
          context |-> 0, hit |-> FALSE, session |-> Nobody, offered |-> Nobody, chosen |-> Nobody,
          client |-> "hello", server |-> "start",
          clientSays |-> Nobody, serverSays |-> Nobody])

Connect(host, cert, npn, from) ==
    /\ server # Nobody /\ Len(conns) < MaxConns
    /\ npn = Nobody => Forgetful \/ tlsNPN = Nobody
    /\ NewConnection(host, cert, npn, from)
    /\ SetSession(Len(conns) + 1, from)
    /\ UNCHANGED <<server, contexts>>

-----------------------------------------------------------------------------
(* The callbacks.                                                          *)

\* SNICallback of the server: the first that matches, or none.
SNICallback(name) ==
    LET fits == {k \in 1..Len(contexts) : contexts[k].name \in {name, "*"}}
    IN  IF fits = {} THEN 0 ELSE CHOOSE k \in fits : \A m \in fits : k <= m

SelectSNIContextCallback(name) == SNICallback(name)

\* The server's own context has the callback that offers protocols, those of
\* addContext have none: Nobody is no offer, an empty one is of no protocols.
AdvertiseNextProtoCallback(context) ==
    IF context > 0 THEN Nobody ELSE IF server.npn = Nobody THEN <<>> ELSE server.npn

\* The client's choice: what it sends, and what it says of it.  It has to send
\* something, be it without a list or without one in common; it is not asked
\* when there is no offer.
SelectNextProtoCallback(mine, offer) ==
    LET common == SelectSeq(offer, LAMBDA p : p \in Range(mine))
    IN  IF offer = Nobody THEN [sent |-> "false", said |-> Nobody]
        ELSE IF mine = Nobody THEN [sent |-> "http/1.1", said |-> "false"]
        ELSE IF common # <<>> THEN [sent |-> Head(common), said |-> Head(common)]
        ELSE [sent |-> Head(mine), said |-> "false"]

CaOf(context) == IF context = 0 THEN ServerCa ELSE contexts[context].ca

\* The hello reaches the server: the session is resumed or a new one made; the
\* name is that of the session, and with it the context, and the offer, are found.
ServerHello(k) ==
    LET c == conns[k] IN
    /\ c.client = "hello" /\ c.server = "start"
    /\ \E hit \in IF c.from > 0 THEN BOOLEAN ELSE {FALSE} :
         LET name == IF hit THEN GetServername(GetSession(c.from)) ELSE NameSent(c.host)
             context == SelectSNIContextCallback(name)
             session == IF hit THEN GetSession(c.from)
                        ELSE [host |-> name, context |-> context,
                              client |-> Nobody, server |-> Nobody]
         IN  conns' = [conns EXCEPT ![k].hit = hit, ![k].context = context,
                                    ![k].session = session,
                                    ![k].offered = AdvertiseNextProtoCallback(context),
                                    ![k].server = "hello"]
    /\ UNCHANGED <<server, contexts, tlsNPN>>

\* A new session: the client verifies the certificate of the context and sends
\* its own, if it is asked to.
ClientKeys(k) ==
    LET c == conns[k] IN
    /\ c.server = "hello" /\ ~c.hit /\ c.client = "hello"
    /\ LET mine == IF server.requestCert THEN c.cert ELSE Nobody
           ca == CaOf(c.context)
       IN  conns' = [conns EXCEPT
             ![k].session.client = [peer |-> ca, result |-> Verified(ca, ServerCa)],
             ![k].session.server = [peer |-> mine, result |-> Verified(mine, ca)],
             ![k].chosen = SelectNextProtoCallback(c.npn, c.offered),
             ![k].client = "keys"]
    /\ UNCHANGED <<server, contexts, tlsNPN>>

\* The handshake ends in an error at both ends.
NoCertificate(k) ==
    LET c == conns[k] IN
    /\ c.client = "keys" /\ c.server = "hello"
    /\ FailsWithoutCert /\ GetPeerCertificate(c.session, "server") = Nobody
    /\ conns' = [conns EXCEPT ![k].server = "error", ![k].client = "error"]
    /\ UNCHANGED <<server, contexts, tlsNPN>>

\* The event "secure" of the server: what the cleartext stream is told, and
\* whether the application gets it or it is destroyed.
OnServerSecure(k) ==
    LET c == conns[k]
        error == IF server.requestCert
                 THEN VerifyError(GetPeerCertificate(c.session, "server"), c.session.server.result)
                 ELSE Nobody
    IN  conns' = [conns EXCEPT
          ![k].server = IF error # Nobody /\ server.rejectUnauthorized
                        THEN "destroyed" ELSE "secureConnection",
          ![k].serverSays = [authorized |-> server.requestCert /\ error = Nobody,
                             authorizationError |-> error,
                             npnProtocol |-> GetNegotiatedProto(c.chosen, TRUE),
                             servername |-> GetServername(c.session)]]

\* The last message of a new session comes from the server, so that it is secure
\* first; of a resumed one it comes from the client.
ServerSecure(k) ==
    LET c == conns[k] IN
    /\ c.server = "hello" /\ c.client = IF c.hit THEN "secure" ELSE "keys"
    /\ ~(FailsWithoutCert /\ GetPeerCertificate(c.session, "server") = Nobody)
    /\ OnServerSecure(k)
    /\ UNCHANGED <<server, contexts, tlsNPN>>

\* The event "secure" of the client.
OnClientSecure(s, choice) ==
    LET error == VerifyError(GetPeerCertificate(s, "client"), s.client.result)
    IN  [authorized |-> error = Nobody, authorizationError |-> error,
         npnProtocol |-> GetNegotiatedProto(choice, FALSE)]

\* A server that has destroyed its end may have done so before its last message
\* was sent.
ClientSecure(k) ==
    LET c == conns[k] IN
    /\ c.client = "keys"
    /\ \/ /\ c.server \in {"secureConnection", "destroyed"}
          /\ conns' = [conns EXCEPT ![k].client = "secure",
                                    ![k].clientSays = OnClientSecure(c.session, c.chosen)]
       \/ c.server = "destroyed" /\ conns' = [conns EXCEPT ![k].client = "error"]
    /\ UNCHANGED <<server, contexts, tlsNPN>>

ClientResumes(k) ==
    LET c == conns[k]
        choice == SelectNextProtoCallback(c.npn, c.offered)
    IN  /\ c.client = "hello" /\ c.server = "hello" /\ c.hit
        /\ conns' = [conns EXCEPT ![k].chosen = choice, ![k].client = "secure",
                                  ![k].clientSays = OnClientSecure(c.session, choice)]
        /\ UNCHANGED <<server, contexts, tlsNPN>>

HandshakeInit == server = Nobody /\ contexts = <<>> /\ tlsNPN = Nobody /\ conns = <<>>

HandshakeNext ==
    \/ Listen
    \/ \E adder \in Adders, name \in Hosts \cup {"*"}, ca \in ContextCas :
         AddContext(adder, name, ca)
    \/ \E host \in Hosts \cup {Nobody}, cert \in Cas \cup {Nobody},
          npn \in Lists \cup {Nobody}, from \in 0..Len(conns) : Connect(host, cert, npn, from)
    \/ \E k \in 1..Len(conns) : \/ ServerHello(k) \/ ClientKeys(k) \/ NoCertificate(k)
                                \/ ServerSecure(k) \/ ClientSecure(k) \/ ClientResumes(k)
-----------------------------------------------------------------------------
HandshakeTypeOK ==
    /\ Len(contexts) <= MaxContexts /\ Len(conns) <= MaxConns
    /\ tlsNPN \in Lists \cup {Nobody}
    /\ \A k \in 1..Len(conns) :
         /\ conns[k].client \in {"hello", "keys", "secure", "error"}
         /\ conns[k].server \in {"start", "hello", "secureConnection", "destroyed", "error"}
         /\ conns[k].context \in 0..Len(contexts) /\ conns[k].from \in 0..k - 1

\* A server takes the context it was given for the name the client asked for, and
\* says that name; a client is authorized if it has shown a certificate of the
\* authority of the context in which its session was made, and otherwise it does
\* not get through to a server that rejects it.  The client, too, is told of the
\* certificate it was shown.  Contexts added and sessions resumed in between make
\* no difference.
JudgedRight ==
    \A k \in 1..Len(conns) : LET c == conns[k] IN
      /\ c.context > 0 => /\ contexts[c.context].by = "this"
                          /\ contexts[c.context].name \in {NameSent(c.host), "*"}
      /\ c.serverSays # Nobody =>
           /\ c.serverSays.servername = NameSent(c.host)
           /\ c.serverSays.authorized =
                (server.requestCert /\ c.cert # Nobody /\ c.cert = CaOf(c.session.context))
           /\ c.server = "secureConnection" /\ server.requestCert /\ server.rejectUnauthorized
                => c.serverSays.authorized
      /\ c.clientSays # Nobody =>
           c.clientSays.authorized = (CaOf(c.session.context) = ServerCa)

\* The two ends agree on a protocol when they have one in common, that which the
\* server prefers, unless the context is one of addContext; a protocol that the
\* client says was chosen is one of the list it was given for this connection.
ProtocolAgreed ==
    \A k \in 1..Len(conns) : LET c == conns[k] IN
      c.serverSays # Nobody /\ c.clientSays # Nobody =>
        LET mine == IF c.given = Nobody THEN {} ELSE Range(c.given)
            theirs == IF server.npn = Nobody THEN <<>> ELSE server.npn
            common == {n \in 1..Len(theirs) : theirs[n] \in mine}
            said == c.clientSays.npnProtocol
        IN  IF c.context = 0 /\ common # {}
            THEN /\ said = c.serverSays.npnProtocol
                 /\ \E n \in common : said = theirs[n] /\ \A m \in common : n <= m
            ELSE said \in {"false", Nobody}

=============================================================================
