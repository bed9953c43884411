--------------------------- MODULE SecureContexts ---------------------------
(***************************************************************************)
(* crypto.createCredentials and SecureContext of the Node.js runtime       *)
(* (src/node_v0.6.19/node/src/node_crypto.cc, node_crypto.h and            *)
(* lib/crypto.js): which certificates a TLS context trusts. A context owns *)
(* its store of certificates, which OpenSSL frees with the context or when *)
(* another store takes its place, but for the store of the well known root *)
(* certificates, which all contexts without a list of their own share.     *)
(* Then what createCredentials makes of the texts it is given.  The two    *)
(* have no state in common here: a name of the one is a context that is    *)
(* watched for its store, one of the other for its key and certificate.    *)
(***************************************************************************)
EXTENDS Integers, Sequences, FiniteSets

CONSTANTS Contexts,    \* the contexts
          Cas,         \* certificates applications trust
          Roots,       \* the well known ones
          NoCert,      \* a text that is no certificate
          Created,     \* names of contexts, each for one after the other
          Pairs,       \* key pairs, by which keys and certificates are known
          Unreadable,  \* a text that holds neither
          MaxChain,    \* bound: certificates that follow the first one in a text
          MaxErrors,   \* bound: errors in the queue when a context is begun
          CertAlone,   \* whether a certificate without a key meets errors in the queue
          Empty,       \* the empty text
          Nothing

NoStore == 0

VARIABLES sc,          \* the SecureContext of each: ctx_, its cert_store, ca_store_
          stores,      \* the X509_STOREs by number: certificates, whether they
                       \* check revocation lists, whether they are alive
          rootStore,   \* root_cert_store
          ctx,         \* of each name: step, options, key, cert, chain and thrown
          errors       \* OpenSSL's queue of errors, the oldest first
scVars == <<sc, stores, rootStore>>
credentialVars == <<ctx, errors>>

\* step: how far createCredentials is. given: options.ca. took: the
\* certificates calls have accepted with True (history).
NoContext == [step |-> "none", ctx |-> FALSE, store |-> NoStore, caStore |-> NoStore,
              given |-> <<>>, took |-> {}]

ScInit ==
    /\ sc = [c \in Contexts |-> NoContext]
    /\ stores = <<>>
    /\ rootStore = NoStore

NewStore(certs) == Append(stores, [certs |-> certs, crl |-> FALSE, alive |-> TRUE])
Newest == Len(stores) + 1

\* SSL_CTX_set_cert_store: the store that is replaced is freed.
Replaced(all, c) == [all EXCEPT ![sc[c].store].alive = FALSE]

-----------------------------------------------------------------------------
\* new SecureContext and init: SSL_CTX_new makes an empty store.
InitContext(c, ca) ==
    /\ sc[c].step = "none"
    /\ stores' = NewStore({})
    /\ sc' = [sc EXCEPT ![c] = [NoContext EXCEPT !.step = "ca", !.ctx = TRUE,
                                                 !.store = Newest, !.given = ca]]
    /\ UNCHANGED rootStore

\* addCACert: the store is made before the certificate is read, and given to
\* the context after it.
AddCACert(c) ==
    /\ sc[c].step = "ca" /\ sc[c].given # <<>>
    /\ LET ca == Head(sc[c].given)
           new == sc[c].caStore = NoStore
           id == IF new THEN Newest ELSE sc[c].caStore
           all == IF new THEN NewStore({}) ELSE stores
           rest == [sc EXCEPT ![c].given = Tail(@), ![c].caStore = id,
                              ![c].step = IF Len(sc[c].given) = 1 THEN "crl" ELSE @]
       IN IF ca = NoCert
          THEN /\ sc' = rest
               /\ stores' = all
          ELSE LET added == [all EXCEPT ![id].certs = @ \cup {ca}] IN
               /\ sc' = [rest EXCEPT ![c].took = @ \cup {ca}, ![c].store = IF new THEN id ELSE @]
               /\ stores' = IF new THEN Replaced(added, c) ELSE added
    /\ UNCHANGED rootStore

\* addRootCerts, without options.ca: the first call fills the shared store.
AddRootCerts(c) ==
    /\ sc[c].step = "ca" /\ sc[c].given = <<>>
    /\ LET id == IF rootStore = NoStore THEN Newest ELSE rootStore IN
       /\ rootStore' = id
       /\ stores' = Replaced(IF rootStore = NoStore THEN NewStore(Roots) ELSE stores, c)
       /\ sc' = [sc EXCEPT ![c].store = id, ![c].caStore = id, ![c].took = Roots,
                           ![c].step = "crl"]

\* addCRL, which makes the store ask for a list of every issuer; a list that
\* cannot be read gives False.
AddCRL(c) ==
    /\ sc[c].step = "crl"
    /\ \/ stores' = [stores EXCEPT ![sc[c].caStore].crl = TRUE]
       \/ UNCHANGED stores
    /\ sc' = [sc EXCEPT ![c].step = "pfx"]
    /\ UNCHANGED rootStore

\* loadPKCS12 of a file with further certificates: they go to ca_store_.
LoadPKCS12(c, certs) ==
    /\ sc[c].step \in {"crl", "pfx"}
    /\ LET new == sc[c].caStore = NoStore /\ certs # {}
           id == IF new THEN Newest ELSE sc[c].caStore
           all == IF new THEN Replaced(NewStore({}), c) ELSE stores
       IN /\ stores' = IF certs = {} THEN stores ELSE [all EXCEPT ![id].certs = @ \cup certs]
          /\ sc' = [sc EXCEPT ![c].step = "done", ![c].took = @ \cup certs, ![c].caStore = id,
                              ![c].store = IF new THEN id ELSE @]
    /\ UNCHANGED rootStore

\* Without options.pfx, or with one that cannot be read: then it throws.
NoPKCS12(c) ==
    /\ sc[c].step \in {"crl", "pfx"}
    /\ sc' = [sc EXCEPT ![c].step = "done"]
    /\ UNCHANGED <<stores, rootStore>>

\* Mutant: the shared store is freed like any other.
FreedAlways(c) == Replaced(stores, c)

\* FreeCTXMem: SSL_CTX_free frees the store of the context, unless it is the
\* shared one, which the context lets go of first.
Freed(c) == IF sc[c].store = rootStore THEN stores ELSE Replaced(stores, c)

\* close, or the end of the object.
CloseContext(c) ==
    /\ sc[c].ctx
    /\ stores' = Freed(c)
    /\ sc' = [sc EXCEPT ![c] = [NoContext EXCEPT !.step = "closed"]]
    /\ UNCHANGED rootStore

Options == {<<>>} \cup UNION {[1 .. n -> Cas \cup {NoCert}] : n \in 1 .. 2}

ScNext ==
    \E c \in Contexts :
      \/ \E ca \in Options : InitContext(c, ca)
      \/ AddCACert(c) \/ AddRootCerts(c) \/ AddCRL(c)
      \/ \E certs \in SUBSET Cas : LoadPKCS12(c, certs)
      \/ NoPKCS12(c) \/ CloseContext(c)

ScSpec == ScInit /\ [][ScNext]_scVars
-----------------------------------------------------------------------------
(* Properties *)

\* Types of the contexts and stores.
ScTypeOK ==
    /\ rootStore \in 0 .. Len(stores)
    /\ \A c \in Contexts : sc[c].store \in 0 .. Len(stores) /\ sc[c].caStore \in 0 .. Len(stores)
    /\ \A i \in DOMAIN stores : stores[i].certs \subseteq Cas \cup Roots /\ stores[i].alive \in BOOLEAN

\* A context verifies with a store that has not been freed, whatever happened
\* to other contexts; no two contexts share one, except the root certificates,
\* and in a store of its own there is nothing but what it has accepted.
StoresLive ==
    \A c \in Contexts : sc[c].ctx =>
      /\ stores[sc[c].store].alive
      /\ \A d \in Contexts \ {c} : sc[d].ctx /\ sc[d].store = sc[c].store =>
           sc[c].store = rootStore
      /\ sc[c].store # rootStore => stores[sc[c].store].certs \subseteq sc[c].took

-----------------------------------------------------------------------------
(* crypto.createCredentials: key, certificate and the rest of its options  *)
(* go into a context one after the other.  Whether a certificate was good  *)
(* is read from OpenSSL's queue of errors, which is one for all calls of   *)
(* the thread, and in which most failures only leave something behind.     *)

NoCredentials == [step |-> "none", options |-> Nothing, key |-> Nothing, cert |-> Nothing,
              chain |-> 0, flags |-> FALSE, sid |-> FALSE, thrown |-> FALSE]

Steps == <<"options", "key", "cert", "ciphers", "ca", "session", "done">>
After(step) == Steps[1 + CHOOSE n \in 1..Len(Steps) - 1 : Steps[n] = step]

\* A call returns, with what it has changed; createCredentials goes on also when
\* it has returned False.
Returns(c, new) == ctx' = [ctx EXCEPT ![c] = [new EXCEPT !.step = After(@)]]

\* It throws, and createCredentials with it.
Throws(c, new) == ctx' = [ctx EXCEPT ![c] = [new EXCEPT !.step = "done", !.thrown = TRUE]]

\* The certificate of a text, the number of those behind it, and its end.
CertTexts == [pair : Pairs, chain : 0..MaxChain, end : {"eof", "garbled"}]

CreateContext(c) ==
    /\ \A d \in Created : ctx[d].step \in {"none", "done"}
    /\ Len(errors) <= MaxErrors
    /\ \E key \in Pairs \cup {Unreadable, Empty, Nothing}, opens \in BOOLEAN,
          cert \in CertTexts \cup {Unreadable, Empty, Nothing},
          ca \in {"readable", Unreadable}, sid \in {"short", "long", Nothing} :
         /\ key \notin Pairs => opens
         /\ cert \notin {Empty, Nothing} /\ key \in {Nothing, Empty}
              => CertAlone \/ errors = <<>>
         /\ ctx' = [ctx EXCEPT ![c] = [NoCredentials EXCEPT !.step = "options",
                       !.options = [key |-> key, cert |-> cert, ca |-> ca, sid |-> sid,
                                    opens |-> opens]]]
    /\ UNCHANGED errors

SetOptions(c) == /\ ctx[c].step = "options"
                 /\ \E flags \in BOOLEAN : Returns(c, [ctx[c] EXCEPT !.flags = flags])
                 /\ UNCHANGED errors

\* LoadBIO: an empty text, or neither text nor Buffer, makes none; no error is left.
LoadBIO(text) == IF text = Empty THEN Nothing ELSE text

\* What a PEM reader leaves in the queue: nothing when it finds what it wants,
\* else that there is no beginning, or that what is there cannot be used.
Left == {<<"PEM_R_NO_START_LINE">>, <<"bad">>}

\* A key is read if it is one and the passphrase opens it.
SetKey(c) ==
    /\ ctx[c].step = "key"
    /\ LET key == LoadBIO(ctx[c].options.key)
       IN  IF key = Nothing THEN Returns(c, ctx[c]) /\ UNCHANGED errors
           ELSE IF key \in Pairs /\ ctx[c].options.opens
           THEN Returns(c, [ctx[c] EXCEPT !.key = key]) /\ UNCHANGED errors
           ELSE Returns(c, ctx[c]) /\ \E left \in Left : errors' = errors \o left

\* SSL_CTX_use_certificate: with a key in the context the queue is cleared, and a
\* key that does not match is dropped.
UseCertificate(new, pair) ==
    [new EXCEPT !.cert = pair, !.key = IF @ = pair THEN @ ELSE Nothing]
QueueAfterUse(new) == IF new.key = Nothing THEN errors ELSE <<>>

\* SSL_CTX_use_certificate_chain: the certificate is good if the queue is empty;
\* then the others, to the end of the text, which is an error of its own kind.
\* The result: whether it is good, the context and the queue.
SSL_CTX_use_certificate_chain(new, text) ==
    IF text = Unreadable
    THEN {[ret |-> FALSE, new |-> new, errors |-> errors \o left \o <<"bad">>] : left \in Left}
    ELSE LET used == UseCertificate(new, text.pair)
             queue == QueueAfterUse(new)
             chained == [used EXCEPT !.chain = text.chain]
         IN  IF queue # <<>> THEN {[ret |-> FALSE, new |-> used, errors |-> queue]}
             ELSE IF text.end = "eof" THEN {[ret |-> TRUE, new |-> chained, errors |-> <<>>]}
             ELSE {[ret |-> FALSE, new |-> chained, errors |-> <<"bad">>]}

\* What is thrown is the oldest error of the queue.
SetCert(c) ==
    /\ ctx[c].step = "cert"
    /\ LET text == LoadBIO(ctx[c].options.cert)
       IN  IF text = Nothing THEN Returns(c, ctx[c]) /\ UNCHANGED errors
           ELSE \E r \in SSL_CTX_use_certificate_chain(ctx[c], text) :
                  IF r.ret THEN Returns(c, r.new) /\ errors' = r.errors
                  ELSE Throws(c, r.new) /\ errors' = Tail(r.errors)

\* A list of ciphers is taken without a look at the result.
SetCiphers(c) == /\ ctx[c].step = "ciphers"
                 /\ Returns(c, ctx[c])
                 /\ \/ UNCHANGED errors
                    \/ errors' = Append(errors, "bad")

\* addCACert: LoadX509 leaves its error behind.
LoadX509(text) == IF text = Unreadable THEN Left ELSE {<<>>}
AddCA(c) == /\ ctx[c].step = "ca"
                /\ Returns(c, ctx[c])
                /\ \E left \in LoadX509(ctx[c].options.ca) : errors' = errors \o left

\* The message of the error is made of all that is in the queue.
SetSessionIdContext(c) ==
    /\ ctx[c].step = "session"
    /\ IF ctx[c].options.sid = "long" THEN Throws(c, ctx[c]) /\ errors' = <<>>
       ELSE /\ Returns(c, [ctx[c] EXCEPT !.sid = ctx[c].options.sid = "short"])
            /\ UNCHANGED errors

\* Between calls: a handshake begins with an empty queue, others leave errors.
Idle == \A c \in Created : ctx[c].step \in {"none", "done"}
Handshake == Idle /\ errors # <<>> /\ errors' = <<>> /\ UNCHANGED ctx
OtherCalls == /\ Idle /\ Len(errors) < MaxErrors
              /\ errors' = Append(errors, "bad") /\ UNCHANGED ctx

CredentialInit == ctx = [c \in Created |-> NoCredentials] /\ errors = <<>>

CredentialNext ==
    \/ \E c \in Created : \/ CreateContext(c) \/ SetOptions(c) \/ SetKey(c) \/ SetCert(c)
                           \/ SetCiphers(c) \/ AddCA(c) \/ SetSessionIdContext(c)
    \/ Handshake \/ OtherCalls
-----------------------------------------------------------------------------
CredentialTypeOK ==
    /\ \A c \in Created : /\ ctx[c].step \in {Steps[n] : n \in 1..Len(Steps)} \cup {"none"}
                           /\ ctx[c].key \in Pairs \cup {Nothing}
                           /\ ctx[c].cert \in Pairs \cup {Nothing}
                           /\ ctx[c].chain \in 0..MaxChain
    /\ \A n \in 1..Len(errors) : errors[n] \in {"PEM_R_NO_START_LINE", "bad"}

\* A context that was made without an exception has the certificate it was given,
\* with all of its chain, and a key only if that is the certificate's; and what
\* is thrown is thrown for a fault in its own options, whatever other calls have
\* left in the queue.
JudgedByItself ==
    \A c \in Created : ctx[c].step = "done" =>
      LET o == ctx[c].options IN
      /\ ~ctx[c].thrown /\ o.cert \notin {Empty, Nothing} =>
           /\ o.cert \in CertTexts
           /\ ctx[c].cert = o.cert.pair /\ ctx[c].chain = o.cert.chain
           /\ ctx[c].key \in {o.cert.pair, Nothing}
           /\ o.cert.end = "eof"
      /\ ctx[c].thrown => \/ o.key = Unreadable \/ ~o.opens \/ o.cert = Unreadable
                          \/ o.sid = "long"
                          \/ o.cert \in CertTexts /\ o.cert.end = "garbled"

=============================================================================
