-------------------------------- MODULE Trust --------------------------------
(***************************************************************************)
(* What is believed on the word of a certificate: the provider's chain     *)
(* with its revocation evidence (app/auth/production_cert_verifier.py),    *)
(* the issuer of an attestation (app/veritas/layer2_qeaa.py) and the score *)
(* that veritasd makes of its layers (app/daemons/veritasd.py).            *)
(*                                                                         *)
(* The authorities are external and honest: they sign what is true when    *)
(* they sign it.  What can go wrong is time, that is what was true once,   *)
(* and names, that is another authority of the same name, which numbers    *)
(* its certificates as it likes.  Time counts in steps of the leeway.      *)
(* Discovery documents, formats, hash algorithms and the usage extensions  *)
(* are left out: any of them may refuse.                                   *)
(***************************************************************************)
EXTENDS Integers, Sequences, FiniteSets

CONSTANTS
    Cert,       \* certificates
    About,      \* of each: name, issuer, signer, serial, from, until, ca, ocsp
    Anchors,    \* the configured trust anchors
    Chains,     \* bound: the chains that are shown, leaf first
    Revocable,  \* bound: the leaves that may be revoked; who answers, answers
                \*   for their serials
    Lists,      \* bound: what a trusted-list snapshot may hold
    Never,      \* not revoked; no nextUpdate; no trusted list; no answer
    MaxAge,     \* 24 hours
    Validity,   \* external: nextUpdate is at most so much after thisUpdate
    MaxTime,    \* bound: the clock
    MaxPapers   \* bound: CRLs and OCSP responses

ASSUME TrustAssumption ==
    /\ Anchors \subseteq Cert /\ Anchors # {}
    /\ Chains \subseteq Seq(Cert) \ {<<>>}
    /\ Lists \subseteq SUBSET Cert /\ Revocable \subseteq Cert
    /\ {MaxAge, Validity, MaxTime, MaxPapers} \subseteq Nat
    /\ \A x, y \in Cert : /\ About[x].signer = About[y].signer
                          /\ About[x].serial = About[y].serial
                          => x = y

VARIABLES
    now,        \* the clock
    made,       \* the provider's verifier was constructed
    list,       \* EUTL snapshot: the qualified certificates, or Never
    revoked,    \* external: when each certificate was revoked, or Never
    papers,     \* external: the status documents signed so far
    verdict     \* the last answer of a verifier

trust == <<now, made, list, revoked, papers, verdict>>

Leeway == 1
NoVerdict == [kind |-> "none", leaf |-> 0, of |-> {}, at |-> 0, score |-> 0,
              layers |-> <<>>]

TrustTypeOK ==
    /\ now \in 0..MaxTime /\ made \in BOOLEAN
    /\ list \in {Never} \cup SUBSET Cert
    /\ revoked \in [Cert -> {Never} \cup 0..now]
    /\ \A p \in papers : p.this <= now
    /\ verdict.at <= now

TrustInit ==
    /\ now = 0 /\ made = FALSE
    /\ list \in {Never} \cup Lists
    /\ revoked = [c \in Cert |-> Never]
    /\ papers = {}
    /\ verdict = NoVerdict

-----------------------------------------------------------------------------
\* External: the clock, and the authorities.
Tick ==
    /\ now < MaxTime /\ now' = now + 1
    /\ UNCHANGED <<made, list, revoked, papers, verdict>>

\* Nobody here asks whether an authority itself was revoked.
RevokeCert(c) ==
    /\ revoked[c] = Never
    /\ revoked' = [revoked EXCEPT ![c] = now]
    /\ UNCHANGED <<now, made, list, papers, verdict>>

SignPaper(p) ==
    /\ Cardinality(papers) < MaxPapers
    /\ papers' = papers \cup {p}
    /\ UNCHANGED <<now, made, list, revoked, verdict>>

\* A document names certificates by their serials; "of" tells whose they are.
RevokedBy(c) ==
    {About[x].serial : x \in {y \in Cert : About[y].signer = c /\ revoked[y] # Never}}

PublishCrl(c) ==
    /\ About[c].ca
    /\ \E until \in {now + Validity, Never} :
         SignPaper([kind |-> "crl", signer |-> c, of |-> c, this |-> now,
                    next |-> until, serial |-> 0, revoked |-> RevokedBy(c)])

\* Every authority answers for its certificates, and so does who it allows to.
PublishOcsp(by, c) ==
    LET of == About[c].signer
    IN  /\ by = of \/ (About[by].ocsp /\ About[by].signer = of)
        /\ \E until \in {now + Validity, Never} :
             SignPaper([kind |-> "ocsp", signer |-> by, of |-> of, this |-> now,
                        next |-> until, serial |-> About[c].serial,
                        revoked |-> RevokedBy(of) \cap {About[c].serial}])

-----------------------------------------------------------------------------
\* The constructor's check is the only one an anchor outside the chain gets.
MakeVerifier ==
    /\ ~made
    /\ \A a \in Anchors : /\ About[a].ca
                          /\ now \in About[a].from..About[a].until
    /\ made' = TRUE
    /\ UNCHANGED <<now, list, revoked, papers, verdict>>

Valid(c, leeway) ==
    now + leeway >= About[c].from /\ now - leeway <= About[c].until

\* The issuer's name and, with its key, the signature.
SignedBy(c, issuer) ==
    About[c].issuer = About[issuer].name /\ About[c].signer = issuer

Links(chain) == {<<chain[k], chain[k + 1]>> : k \in 1..(Len(chain) - 1)}
TopOf(chain) == chain[Len(chain)]

\* Ends in an anchor, or in a certificate that one of the anchors signed.
Anchored(chain) ==
    TopOf(chain) \in Anchors \/ \E a \in Anchors : SignedBy(TopOf(chain), a)

\* _validate_chain.
ChainValid(chain) ==
    /\ \A k \in DOMAIN chain : Valid(chain[k], Leeway)
    /\ ~About[chain[1]].ca
    /\ \A link \in Links(chain) : About[link[2]].ca /\ SignedBy(link[1], link[2])
    /\ Anchored(chain)

\* The issuer that _validate_chain returns with the leaf.
IssuersOf(chain) ==
    IF Len(chain) > 1 THEN {chain[2]}
    ELSE IF chain[1] \in Anchors THEN {chain[1]}
    ELSE {a \in Anchors : SignedBy(chain[1], a)}

CrlValid(p, leaf, issuer) ==
    /\ p.kind = "crl" /\ p.signer = issuer
    /\ p.this <= now + Leeway
    /\ p.next # Never /\ p.next >= now - Leeway
    /\ About[leaf].serial \notin p.revoked

\* MUTANT: a response without nextUpdate does not grow old.
Ageless(p) == p.next # Never => p.next >= now - Leeway

\* Without nextUpdate, 24 hours, with no leeway.
FreshEnough(p) ==
    IF p.next # Never THEN p.next >= now - Leeway ELSE p.this >= now - MaxAge

\* A responder that bears the issuer's name is taken for the issuer, with the
\* key that it brings; any other one must be the issuer's, and be meant for it.
Responder(signer, issuer) ==
    \/ About[signer].name = About[issuer].name
    \/ SignedBy(signer, issuer) /\ About[signer].ocsp

OcspValid(p, leaf, issuer) ==
    /\ p.kind = "ocsp" /\ Responder(p.signer, issuer)
    /\ p.serial = About[leaf].serial /\ p.revoked = {}
    /\ p.this <= now + Leeway
    /\ FreshEnough(p)

\* verify of the production verifier, with revocation required: a CRL or an
\* OCSP response, and each one that is given must pass.
VerifyProvider(chain, given) ==
    /\ made /\ given # {} /\ Cardinality(given) <= 2
    /\ verdict' = [NoVerdict EXCEPT !.kind = "provider", !.leaf = chain[1], !.at = now,
                                    !.of = {p.of : p \in given}]
    /\ \A p, q \in given : p.kind = q.kind => p = q
    /\ ChainValid(chain)
    /\ \E issuer \in IssuersOf(chain) : \A p \in given :
         CrlValid(p, chain[1], issuer) \/ OcspValid(p, chain[1], issuer)
    /\ UNCHANGED <<now, made, list, revoked, papers>>

-----------------------------------------------------------------------------
(* A score is a percentage.  A credential is a chain with a claim to be    *)
(* qualified; its own signature, times and disclosures may be in order or  *)
(* not.                                                                    *)

\* _certificate_chain_is_valid: a trusted list decides instead of the anchors.
Trusted(chain) ==
    IF list # Never THEN chain[1] \in list
    ELSE {chain[k] : k \in DOMAIN chain} \cap Anchors # {} \/ Anchored(chain)

CredentialScore(chain, qualified, sound) ==
    IF ~(/\ sound
         /\ \A k \in DOMAIN chain : Valid(chain[k], 0)
         /\ \A link \in Links(chain) : SignedBy(link[1], link[2])) THEN 0
    ELSE IF ~Trusted(chain) THEN 25
    ELSE IF qualified THEN 100 ELSE 65

Weight == <<30, 35, 20, 15>>    \* VERITAS_WEIGHTS: layers 1, 2, 3 and C2PA

\* A layer that raises scores 0.
LayerScore(answer) == IF answer = Never THEN 0 ELSE answer

Clamped(score) == IF score < 0 THEN 0 ELSE IF score > 100 THEN 100 ELSE score

\* evaluate: in hundredths of a per cent; the sum is clamped once more.
EvaluateEvidence(chain, qualified, sound, first, rest) ==
    LET second == CredentialScore(chain, qualified, sound)
        scores == <<LayerScore(first), second, LayerScore(rest), LayerScore(rest)>>
        sum == Weight[1] * Clamped(scores[1]) + Weight[2] * Clamped(scores[2])
               + Weight[3] * Clamped(scores[3]) + Weight[4] * Clamped(scores[4])
    IN  /\ verdict' = [NoVerdict EXCEPT !.kind = "evaluation", !.leaf = chain[1],
                            !.at = now, !.layers = scores,
                            !.score = IF sum > 10000 THEN 10000 ELSE sum]
        /\ UNCHANGED <<now, made, list, revoked, papers>>

\* The verifiers remember nothing of what they answer: one answer will do.
TrustNext ==
    /\ verdict = NoVerdict
    /\ \/ Tick \/ MakeVerifier
       \/ \E c \in Revocable : RevokeCert(c) \/ PublishCrl(About[c].signer)
       \/ \E c, by \in Cert :
            /\ \E r \in Revocable : About[c].serial = About[r].serial
            /\ PublishOcsp(by, c)
       \/ \E chain \in Chains :
            \/ \E given \in SUBSET papers : VerifyProvider(chain, given)
            \/ /\ papers = {}         \* bound: an evaluation reads none of them
               /\ \E qualified, sound \in BOOLEAN, first, rest \in {Never, -5, 200} :
                    EvaluateEvidence(chain, qualified, sound, first, rest)

TrustSpec == TrustInit /\ [][TrustNext]_trust

-----------------------------------------------------------------------------
\* The certificates that really descend from an anchor, whatever their names:
\* those in every set of certificates that holds the anchors and whatever one
\* of its own signed.
Family(S) ==
    Anchors \subseteq S /\ \A x \in Cert : About[x].signer \in S => x \in S

Descends(c) == \A S \in SUBSET Cert : Family(S) => c \in S

\* What a layer adds to a score at most.
Share(k) == IF verdict.layers[k] > 0 THEN 100 * Weight[k] ELSE 0

(* Who is believed deserves it.  A provider's certificate descends from an *)
(* anchor, and if it was revoked, then not longer ago than evidence may be *)
(* old, whichever documents of whatever age are shown; unless they all     *)
(* speak of the certificates of another authority, which an OCSP response  *)
(* may when that authority bears the issuer's name.  An attestation counts *)
(* for more than a quarter only if its issuer is on the list or, without   *)
(* one, descends from an anchor; and no layer that fails or answers        *)
(* nonsense adds more than its weight.                                     *)
TrustSound ==
    /\ verdict.kind = "provider" =>
         /\ Descends(verdict.leaf)
         /\ revoked[verdict.leaf] # Never /\ About[verdict.leaf].signer \in verdict.of =>
              \/ verdict.at - revoked[verdict.leaf] <= Validity + Leeway
              \/ verdict.at - revoked[verdict.leaf] <= MaxAge
    /\ verdict.kind = "evaluation" =>
         /\ verdict.layers[2] > 25 =>
              IF list = Never THEN Descends(verdict.leaf) ELSE verdict.leaf \in list
         /\ verdict.score <= Share(1) + Share(2) + Share(3) + Share(4)
=============================================================================
