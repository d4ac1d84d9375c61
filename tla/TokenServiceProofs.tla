-------------------------- MODULE TokenServiceProofs --------------------------
(***************************************************************************)
(* Proofs about TokenService for every set of clients, tokens and sessions *)
(* and every lifetime.  The inductive invariant adds to the properties the *)
(* bookkeeping that connects a token to what bought it: the code is out of *)
(* the store, the parent token is marked used.                             *)
(***************************************************************************)
EXTENDS TokenService, TLAPS

\* What bought a token can no longer buy another one.
ParentIsSpent ==
  \A t \in Issued :
    \/ parent[t] \in Code \ stored /\ codes[parent[t]] # NoRecord
    \/ parent[t] \in Issued /\ refresh[parent[t]].used

\* A family is named by its first token; a family in which reuse was seen has
\* one.
FamiliesBegun ==
  /\ \A t \in Issued :
       /\ refresh[t].family \in Issued
       /\ refresh[refresh[t].family].family = refresh[t].family
  /\ reused \subseteq Issued

IInv ==
  /\ TypeOK
  /\ ParentIsSpent
  /\ FamiliesBegun
  /\ SingleUse
  /\ OneLivePerFamily
  /\ ReusedFamilyIsDead
  /\ FamilyKeepsItsOwner

USE ServiceAssumption
-----------------------------------------------------------------------------
(* Types *)

LEMMA NewRecordType ==
  ASSUME NEW f \in Token, NEW cl \in Client, NEW u \in User, NEW s \in Session,
         now \in Nat
  PROVE  /\ NewRecord(f, cl, u, s) \in RefreshTokenRecord
         /\ NewRecord(f, cl, u, s).family = f
         /\ NewRecord(f, cl, u, s).client = cl
         /\ NewRecord(f, cl, u, s).subject = u
         /\ NewRecord(f, cl, u, s).binding = s
         /\ ~NewRecord(f, cl, u, s).used
         /\ ~NewRecord(f, cl, u, s).revoked
BY DEF NewRecord, RefreshTokenRecord

LEMMA NewCodeType ==
  ASSUME NEW cl \in Client, NEW uri \in RedirectUri, NEW u \in User,
         NEW v \in Verifier, now \in Nat
  PROVE  [client |-> cl, redirect |-> uri, user |-> u, challenge |-> S256(v),
          expires |-> now + CodeLifetime] \in AuthorizationCodeRecord
BY DEF AuthorizationCodeRecord, Challenge

\* Marking a record used or revoked leaves a record, with the other fields as
\* they were.
LEMMA MarkedRecordType ==
  ASSUME NEW r \in RefreshTokenRecord
  PROVE  /\ [r EXCEPT !.used = TRUE] \in RefreshTokenRecord \ {NoRecord}
         /\ [r EXCEPT !.revoked = TRUE] \in RefreshTokenRecord \ {NoRecord}
<1>1. /\ [r EXCEPT !.used = TRUE] \in RefreshTokenRecord
      /\ [r EXCEPT !.revoked = TRUE] \in RefreshTokenRecord
  BY DEF RefreshTokenRecord
<1>2. QED
  BY <1>1, NoRecordAssumption

LEMMA TypeInit == Init => TypeOK
BY DEF Init, TypeOK, Issued

LEMMA TypeNext == TypeOK /\ [Next]_vars => TypeOK'
<1> SUFFICES ASSUME TypeOK, [Next]_vars PROVE TypeOK'
  OBVIOUS
<1> USE NoRecordAssumption DEF TypeOK, Issued
<1>1. ASSUME NEW c \in Code, NEW cl \in Client, NEW uri \in RedirectUri,
             NEW u \in User, NEW v \in Verifier, Authorize(c, cl, uri, u, v)
      PROVE  TypeOK'
  BY <1>1, NewCodeType DEF Authorize, refreshVars
<1>2. ASSUME NEW c \in Code, ValidateCode(c)
      PROVE  TypeOK'
  BY <1>2 DEF ValidateCode, Consume, refreshVars
<1>3. ASSUME NEW c \in Code, NEW s \in Session, NEW cl \in Client,
             NEW uri \in RedirectUri, NEW v \in Verifier,
             NEW p \in Session \cup {NoProof}, BurnCode(s, c, cl, uri, v, p)
      PROVE  TypeOK'
  BY <1>3 DEF BurnCode, Consume, refreshVars
<1>4. ASSUME NEW c \in Code, NEW s \in Session, NEW cl \in Client,
             NEW uri \in RedirectUri, NEW v \in Verifier,
             NEW p \in Session \cup {NoProof}, NEW t \in Token,
             RedeemCode(s, c, cl, uri, v, p, t)
      PROVE  TypeOK'
  <2>1. codes[c].user \in User
    BY <1>4 DEF RedeemCode, Consume, AuthorizationCodeRecord
  <2>2. NewRecord(t, cl, codes[c].user, s) \in RefreshTokenRecord
    BY <2>1, NewRecordType
  <2>3. QED
    BY <1>4, <2>2 DEF RedeemCode, Consume, Answer
<1>5. ASSUME NEW t \in held, RefreshExpired(t)
      PROVE  TypeOK'
  <2>1. refresh[t] \in RefreshTokenRecord
    OBVIOUS
  <2>2. refresh' = [refresh EXCEPT ![t] = [refresh[t] EXCEPT !.revoked = TRUE]]
    BY <1>5 DEF RefreshExpired
  <2>3. refresh' \in [Token -> RefreshTokenRecord \cup {NoRecord}]
    BY <2>1, <2>2, MarkedRecordType
  <2>4. Issued' = Issued
    BY <2>1, <2>2, MarkedRecordType
  <2>5. QED
    BY <1>5, <2>3, <2>4 DEF RefreshExpired, codeVars
<1>6. ASSUME NEW t \in held, RefreshReused(t)
      PROVE  TypeOK'
  <2>1. \A x \in Issued : refresh[x] \in RefreshTokenRecord
    OBVIOUS
  <2>2. refresh' \in [Token -> RefreshTokenRecord \cup {NoRecord}]
    BY <1>6, <2>1, MarkedRecordType DEF RefreshReused, RevokeFamily
  <2>3. \A x \in Token : x \in Issued <=> x \in Issued'
    BY <1>6, <2>1, MarkedRecordType DEF RefreshReused, RevokeFamily
  <2>4. refresh[t].family \in Token
    BY <2>1 DEF RefreshTokenRecord
  <2>5. QED
    BY <1>6, <2>2, <2>3, <2>4 DEF RefreshReused, codeVars
<1>7. ASSUME NEW t \in held, NEW s \in Session, NEW cl \in Client,
             NEW p \in Session \cup {NoProof}, NEW u \in Token,
             RefreshRotate(s, cl, t, p, u)
      PROVE  TypeOK'
  <2>1. t \in Token /\ refresh[t] \in RefreshTokenRecord
    BY DEF RefreshTokenRecord
  <2>2. NewRecord(refresh[t].family, cl, refresh[t].subject, s) \in RefreshTokenRecord
    BY <2>1, NewRecordType DEF RefreshTokenRecord
  <2>3. t # u
    BY <1>7 DEF RefreshRotate, Consumed, MayUse, Live
  <2>4. refresh' = [refresh EXCEPT
                     ![t] = [refresh[t] EXCEPT !.used = TRUE],
                     ![u] = NewRecord(refresh[t].family, cl, refresh[t].subject, s)]
    BY <1>7 DEF RefreshRotate, Consumed, MayUse
  <2>5. refresh' \in [Token -> RefreshTokenRecord \cup {NoRecord}]
    BY <2>1, <2>2, <2>4, MarkedRecordType
  <2>6. Issued' = Issued \cup {u}
    BY <2>1, <2>2, <2>3, <2>4, MarkedRecordType
  <2>7. held' \subseteq Issued'
    BY <1>7, <2>6 DEF RefreshRotate, Consumed, MayUse, Answer
  <2>8. parent' \in [Token -> Code \cup Token \cup {NoRecord}]
    BY <1>7, <2>1 DEF RefreshRotate, Consumed, MayUse
  <2>9. QED
    BY <1>7, <2>5, <2>7, <2>8 DEF RefreshRotate, Consumed, MayUse, codeVars
<1>8. CASE Tick
  BY <1>8 DEF Tick, codeVars, refreshVars
<1>9. CASE UNCHANGED vars
  BY <1>9 DEF vars
<1>10. QED
  BY <1>1, <1>2, <1>3, <1>4, <1>5, <1>6, <1>7, <1>8, <1>9
     DEF Next, CodeRequest, RefreshRequest

\* Every variable keeps its type.
THEOREM TypeCorrect == Spec => []TypeOK
BY TypeInit, TypeNext, PTL DEF Spec
-----------------------------------------------------------------------------
(* The four kinds of step, by what they do to the refresh-token dictionary   *)
(* token by token.  The lemmas below show that every step is of one of them; *)
(* the invariants are then proved kind by kind.                              *)

\* Authorization codes and the clock: tokens stay as they are, a record once
\* written stays under its code, and only a code never seen enters the store.
CodeStep ==
  /\ UNCHANGED <<refresh, parent, reused>>
  /\ \A c \in Code : codes[c] # NoRecord => codes'[c] = codes[c]
  /\ \A c \in stored' : c \in stored \/ codes[c] = NoRecord

\* Code c buys token t, the first of its family, for client cl on session s.
Redeemed(c, s, cl, t) ==
  /\ t \notin Issued /\ Issued' = Issued \cup {t}
  /\ \A x \in Issued : refresh'[x] = refresh[x] /\ parent'[x] = parent[x]
  /\ refresh'[t] = NewRecord(t, cl, codes[c].user, s)
  /\ refresh'[t] \in RefreshTokenRecord
  /\ parent'[t] = c
  /\ c \in stored /\ stored' = stored \ {c}
  /\ codes' = codes /\ codes[c] \in AuthorizationCodeRecord
  /\ codes[c].client = cl
  /\ reused' = reused

\* Token t buys its successor u.
Rotated(t, s, cl, u) ==
  /\ Live(t) /\ u \notin Issued /\ Issued' = Issued \cup {u}
  /\ refresh[t].client = cl /\ refresh[t].binding = s
  /\ \A x \in Issued : parent'[x] = parent[x]
  /\ \A x \in Issued \ {t} : refresh'[x] = refresh[x]
  /\ refresh[t] \in RefreshTokenRecord
  /\ refresh'[t] = [refresh[t] EXCEPT !.used = TRUE]
  /\ refresh'[u] = NewRecord(refresh[t].family, cl, refresh[t].subject, s)
  /\ refresh'[u] \in RefreshTokenRecord
  /\ parent'[u] = t
  /\ UNCHANGED <<codes, stored, reused>>

\* The tokens in R are revoked: one of them for expiry, or a whole family.
Revoked(R) ==
  /\ R \subseteq Issued /\ Issued' = Issued
  /\ \A x \in Issued \ R : refresh'[x] = refresh[x]
  /\ \A x \in R : refresh'[x] = [refresh[x] EXCEPT !.revoked = TRUE]
  /\ \A x \in Issued : refresh[x] \in RefreshTokenRecord
  /\ \/ reused' = reused
     \/ \E f \in Issued : /\ reused' = reused \cup {refresh[f].family}
                          /\ R = {x \in Issued : refresh[x].family = refresh[f].family}
  /\ UNCHANGED <<codes, stored, parent>>

LEMMA RedeemEffect ==
  ASSUME TypeOK, NEW c \in Code, NEW s \in Session, NEW cl \in Client,
         NEW uri \in RedirectUri, NEW v \in Verifier,
         NEW p \in Session \cup {NoProof}, NEW t \in Token,
         RedeemCode(s, c, cl, uri, v, p, t)
  PROVE  Redeemed(c, s, cl, t)
<1>1. codes[c] \in AuthorizationCodeRecord
  BY DEF RedeemCode, Consume, TypeOK
<1>2. NewRecord(t, cl, codes[c].user, s) \in RefreshTokenRecord
  BY <1>1, NewRecordType DEF AuthorizationCodeRecord, TypeOK
<1>3. /\ t \notin Issued /\ Issued' = Issued \cup {t}
      /\ \A x \in Issued : refresh'[x] = refresh[x] /\ parent'[x] = parent[x]
      /\ refresh'[t] = NewRecord(t, cl, codes[c].user, s)
      /\ parent'[t] = c
  BY <1>2, NoRecordAssumption DEF RedeemCode, Consume, TypeOK, Issued
<1>4. QED
  BY <1>1, <1>2, <1>3 DEF Redeemed, RedeemCode, Consume, CodeAccepted

LEMMA RotateEffect ==
  ASSUME TypeOK, NEW t \in held, NEW s \in Session, NEW cl \in Client,
         NEW p \in Session \cup {NoProof}, NEW u \in Token,
         RefreshRotate(s, cl, t, p, u)
  PROVE  Rotated(t, s, cl, u)
<1> USE DEF TypeOK, Issued
<1>1. t \in Issued /\ refresh[t] \in RefreshTokenRecord /\ u \notin Issued
  BY DEF RefreshRotate, Consumed, MayUse
<1>2. NewRecord(refresh[t].family, cl, refresh[t].subject, s) \in RefreshTokenRecord
  BY <1>1, NewRecordType DEF RefreshTokenRecord
<1>3. refresh' = [refresh EXCEPT
                    ![t] = [refresh[t] EXCEPT !.used = TRUE],
                    ![u] = NewRecord(refresh[t].family, cl, refresh[t].subject, s)]
  BY DEF RefreshRotate, Consumed, MayUse
<1>4. /\ \A x \in Token \ {t, u} : refresh'[x] = refresh[x]
      /\ refresh'[t] = [refresh[t] EXCEPT !.used = TRUE]
      /\ refresh'[u] = NewRecord(refresh[t].family, cl, refresh[t].subject, s)
  BY <1>1, <1>3
<1>5. Issued' = Issued \cup {u}
  BY <1>1, <1>2, <1>4, MarkedRecordType, NoRecordAssumption
<1>6. /\ \A x \in Issued : parent'[x] = parent[x]
      /\ parent'[u] = t
  BY <1>1 DEF RefreshRotate, Consumed, MayUse
<1>7. \A x \in Issued \ {t} : refresh'[x] = refresh[x]
  BY <1>1, <1>4
<1>8. /\ Live(t) /\ refresh[t].client = cl /\ refresh[t].binding = s
      /\ UNCHANGED <<codes, stored, reused>>
  BY DEF RefreshRotate, Consumed, MayUse, codeVars
<1> HIDE DEF Issued
<1>9. QED
  BY <1>1, <1>2, <1>4, <1>5, <1>6, <1>7, <1>8 DEF Rotated

LEMMA ExpireEffect ==
  ASSUME TypeOK, NEW t \in held, RefreshExpired(t)
  PROVE  Revoked({t})
<1> USE DEF TypeOK, Issued
<1>1. t \in Issued /\ \A x \in Issued : refresh[x] \in RefreshTokenRecord
  OBVIOUS
<1>2. /\ refresh'[t] = [refresh[t] EXCEPT !.revoked = TRUE]
      /\ \A x \in Token \ {t} : refresh'[x] = refresh[x]
  BY <1>1 DEF RefreshExpired
<1>3. Issued' = Issued
  BY <1>1, <1>2, MarkedRecordType
<1>4. QED
  BY <1>1, <1>2, <1>3 DEF Revoked, RefreshExpired, codeVars

LEMMA ReuseEffect ==
  ASSUME TypeOK, NEW t \in held, RefreshReused(t)
  PROVE  Revoked({x \in Issued : refresh[x].family = refresh[t].family})
<1> DEFINE R == {x \in Issued : refresh[x].family = refresh[t].family}
<1>1. t \in Issued /\ \A x \in Issued : refresh[x] \in RefreshTokenRecord
  BY DEF TypeOK, Issued
<1>2. /\ \A x \in R : refresh'[x] = [refresh[x] EXCEPT !.revoked = TRUE]
      /\ \A x \in Token \ R : refresh'[x] = refresh[x]
  BY DEF RefreshReused, RevokeFamily, Issued
<1>3. Issued' = Issued
  BY <1>1, <1>2, MarkedRecordType DEF Issued
<1>4. QED
  BY <1>1, <1>2, <1>3 DEF Revoked, RefreshReused, codeVars, Issued

LEMMA RequestKinds ==
  ASSUME TypeOK, [Next]_vars
  PROVE  \/ CodeStep
         \/ \E c \in Code, s \in Session, cl \in Client, t \in Token : Redeemed(c, s, cl, t)
         \/ \E t, u \in Token, s \in Session, cl \in Client : Rotated(t, s, cl, u)
         \/ \E t \in held : RefreshExpired(t) \/ RefreshReused(t)
<1> held \subseteq Token
  BY DEF TypeOK, Issued
<1>1. ASSUME NEW c \in Code, NEW cl \in Client, NEW uri \in RedirectUri,
             NEW u \in User, NEW v \in Verifier, Authorize(c, cl, uri, u, v)
      PROVE  CodeStep
  BY <1>1 DEF Authorize, refreshVars, CodeStep, TypeOK
<1>2. ASSUME NEW c \in Code, ValidateCode(c)
      PROVE  CodeStep
  BY <1>2 DEF ValidateCode, Consume, refreshVars, CodeStep
<1>3. ASSUME NEW c \in Code, NEW s \in Session, NEW cl \in Client,
             NEW uri \in RedirectUri, NEW v \in Verifier,
             NEW p \in Session \cup {NoProof}, BurnCode(s, c, cl, uri, v, p)
      PROVE  CodeStep
  BY <1>3 DEF BurnCode, Consume, refreshVars, CodeStep
<1>4. CASE Tick
  BY <1>4 DEF Tick, codeVars, refreshVars, CodeStep
<1>5. CASE UNCHANGED vars
  BY <1>5 DEF vars, CodeStep
<1>6. CASE RefreshRequest
  BY <1>6, RotateEffect DEF RefreshRequest
<1>7. CASE CodeRequest
  BY <1>7, <1>1, <1>2, <1>3, RedeemEffect DEF CodeRequest
<1>8. QED
  BY <1>4, <1>5, <1>6, <1>7 DEF Next

LEMMA StepKinds ==
  ASSUME TypeOK, [Next]_vars
  PROVE  \/ CodeStep
         \/ \E c \in Code, s \in Session, cl \in Client, t \in Token : Redeemed(c, s, cl, t)
         \/ \E t, u \in Token, s \in Session, cl \in Client : Rotated(t, s, cl, u)
         \/ \E R \in SUBSET Token : Revoked(R)
<1>1. ASSUME NEW t \in held, RefreshReused(t)
      PROVE  \E R \in SUBSET Token : Revoked(R)
  <2> DEFINE R == {x \in Issued : refresh[x].family = refresh[t].family}
  <2>1. R \in SUBSET Token
    BY DEF Issued
  <2>2. Revoked(R)
    BY <1>1, ReuseEffect
  <2> HIDE DEF R
  <2>3. QED
    BY <2>1, <2>2
<1>2. ASSUME NEW t \in held, RefreshExpired(t)
      PROVE  \E R \in SUBSET Token : Revoked(R)
  BY <1>2, ExpireEffect DEF TypeOK, Issued
<1>3. QED
  BY <1>1, <1>2, RequestKinds
-----------------------------------------------------------------------------
\* The fields of the records after each kind of step, where the families are
\* concerned.
LEMMA RotatedFields ==
  ASSUME NEW t \in Token, NEW u \in Token, NEW s \in Session, NEW cl \in Client,
         now \in Nat, Rotated(t, s, cl, u)
  PROVE  /\ refresh'[u].family = refresh[t].family
         /\ refresh'[u].client = refresh[t].client
         /\ refresh'[u].subject = refresh[t].subject
         /\ refresh'[u].binding = refresh[t].binding
         /\ refresh'[t].used
         /\ refresh'[t].revoked = refresh[t].revoked
         /\ \A x \in Issued :
              /\ refresh'[x].family = refresh[x].family
              /\ refresh'[x].client = refresh[x].client
              /\ refresh'[x].subject = refresh[x].subject
              /\ refresh'[x].binding = refresh[x].binding
              /\ x # t => refresh'[x].revoked = refresh[x].revoked
              /\ x # t => refresh'[x].used = refresh[x].used
<1>1. refresh[t] \in RefreshTokenRecord
  BY DEF Rotated
<1>2. NewRecord(refresh[t].family, cl, refresh[t].subject, s) = refresh'[u]
  BY DEF Rotated
<1>3. /\ refresh'[u].family = refresh[t].family
      /\ refresh'[u].client = refresh[t].client
      /\ refresh'[u].subject = refresh[t].subject
      /\ refresh'[u].binding = refresh[t].binding
  BY <1>1, <1>2 DEF NewRecord, Rotated
<1>4. /\ refresh'[t].used
      /\ refresh'[t].revoked = refresh[t].revoked
      /\ refresh'[t].family = refresh[t].family
      /\ refresh'[t].client = refresh[t].client
      /\ refresh'[t].subject = refresh[t].subject
      /\ refresh'[t].binding = refresh[t].binding
  BY <1>1 DEF Rotated, RefreshTokenRecord
<1>5. \A x \in Issued \ {t} : refresh'[x] = refresh[x]
  BY DEF Rotated
<1>6. QED
  BY <1>3, <1>4, <1>5

LEMMA RevokedFields ==
  ASSUME NEW R \in SUBSET Token, Revoked(R)
  PROVE  /\ \A x \in R : refresh'[x].revoked
         /\ \A x \in Issued :
              /\ refresh'[x].family = refresh[x].family
              /\ refresh'[x].client = refresh[x].client
              /\ refresh'[x].subject = refresh[x].subject
              /\ refresh'[x].binding = refresh[x].binding
              /\ refresh'[x].used = refresh[x].used
              /\ refresh[x].revoked => refresh'[x].revoked
<1>1. \A x \in Issued : \/ refresh'[x] = refresh[x] /\ x \notin R
                        \/ refresh'[x] = [refresh[x] EXCEPT !.revoked = TRUE]
  BY DEF Revoked
<1>2. \A x \in Issued : refresh[x] \in RefreshTokenRecord
  BY DEF Revoked
<1>3. R \subseteq Issued
  BY DEF Revoked
<1>4. QED
  BY <1>1, <1>2, <1>3 DEF RefreshTokenRecord
-----------------------------------------------------------------------------
LEMMA SpentNext ==
  ASSUME TypeOK, ParentIsSpent, [Next]_vars
  PROVE  ParentIsSpent'
<1> USE DEF ParentIsSpent
<1>1. CASE CodeStep
  <2>1. Issued' = Issued
    BY <1>1 DEF CodeStep, Issued
  <2>2. QED
    BY <1>1, <2>1 DEF CodeStep
<1>2. ASSUME NEW c \in Code, NEW s \in Session, NEW cl \in Client, NEW t \in Token,
             Redeemed(c, s, cl, t)
      PROVE  ParentIsSpent'
  BY <1>2, NoRecordAssumption DEF Redeemed
<1>3. ASSUME NEW t \in Token, NEW u \in Token, NEW s \in Session, NEW cl \in Client,
             Rotated(t, s, cl, u)
      PROVE  ParentIsSpent'
  <2>1. refresh'[t].used /\ t \in Issued
    BY <1>3 DEF Rotated, RefreshTokenRecord, Live
  <2>2. \A x \in Issued : refresh[x].used => refresh'[x].used
    BY <1>3, <2>1 DEF Rotated
  <2>3. codes' = codes /\ stored' = stored /\ Issued' = Issued \cup {u}
    BY <1>3 DEF Rotated
  <2>4. \A x \in Issued : parent'[x] = parent[x]
    BY <1>3 DEF Rotated
  <2>5. ASSUME NEW x \in Issued
        PROVE  \/ parent'[x] \in Code \ stored' /\ codes'[parent'[x]] # NoRecord
               \/ parent'[x] \in Issued' /\ refresh'[parent'[x]].used
    <3>1. CASE parent[x] \in Code \ stored /\ codes[parent[x]] # NoRecord
      BY <2>3, <2>4, <3>1
    <3>2. CASE parent[x] \in Issued /\ refresh[parent[x]].used
      BY <2>2, <2>3, <2>4, <3>2
    <3>3. QED
      BY <3>1, <3>2
  <2>6. parent'[u] \in Issued' /\ refresh'[parent'[u]].used
    BY <1>3, <2>1, <2>3 DEF Rotated
  <2>7. QED
    BY <2>3, <2>5, <2>6
<1>4. ASSUME NEW R \in SUBSET Token, Revoked(R)
      PROVE  ParentIsSpent'
  <2>1. \A x \in Issued : refresh[x].used => refresh'[x].used
    BY <1>4, RevokedFields
  <2>2. QED
    BY <1>4, <2>1 DEF Revoked
<1>5. QED
  BY <1>1, <1>2, <1>3, <1>4, StepKinds

LEMMA SingleUseNext ==
  ASSUME TypeOK, ParentIsSpent, SingleUse, [Next]_vars
  PROVE  SingleUse'
<1> USE DEF SingleUse
<1>1. CASE CodeStep
  BY <1>1 DEF CodeStep, Issued
<1>2. ASSUME NEW c \in Code, NEW s \in Session, NEW cl \in Client, NEW t \in Token,
             Redeemed(c, s, cl, t)
      PROVE  SingleUse'
  <2>1. \A x \in Issued : parent[x] # c
    BY <1>2 DEF ParentIsSpent, Redeemed, Issued
  <2>2. QED
    BY <1>2, <2>1 DEF Redeemed
<1>3. ASSUME NEW t \in Token, NEW u \in Token, NEW s \in Session, NEW cl \in Client,
             Rotated(t, s, cl, u)
      PROVE  SingleUse'
  <2>1. \A x \in Issued : parent[x] # t
    BY <1>3 DEF ParentIsSpent, Rotated, Live
  <2>2. QED
    BY <1>3, <2>1 DEF Rotated
<1>4. ASSUME NEW R \in SUBSET Token, Revoked(R)
      PROVE  SingleUse'
  BY <1>4 DEF Revoked
<1>5. QED
  BY <1>1, <1>2, <1>3, <1>4, StepKinds

LEMMA BegunNext ==
  ASSUME TypeOK, FamiliesBegun, [Next]_vars
  PROVE  FamiliesBegun'
<1> USE DEF FamiliesBegun
<1>1. CASE CodeStep
  BY <1>1 DEF CodeStep, Issued
<1>2. ASSUME NEW c \in Code, NEW s \in Session, NEW cl \in Client, NEW t \in Token,
             Redeemed(c, s, cl, t)
      PROVE  FamiliesBegun'
  <2>1. refresh'[t].family = t
    BY <1>2 DEF Redeemed, NewRecord
  <2>2. QED
    BY <1>2, <2>1 DEF Redeemed
<1>3. ASSUME NEW t \in Token, NEW u \in Token, NEW s \in Session, NEW cl \in Client,
             Rotated(t, s, cl, u)
      PROVE  FamiliesBegun'
  <2>1. t \in Issued /\ Issued' = Issued \cup {u} /\ reused' = reused
    BY <1>3 DEF Rotated, Live
  <2>2. QED
    BY <1>3, <2>1, RotatedFields DEF TypeOK
<1>4. ASSUME NEW R \in SUBSET Token, Revoked(R)
      PROVE  FamiliesBegun'
  <2>1. reused' \subseteq Issued'
    BY <1>4 DEF Revoked
  <2>2. Issued' = Issued
    BY <1>4 DEF Revoked
  <2>3. \A x \in Issued : refresh'[x].family = refresh[x].family
    BY <1>4, RevokedFields
  <2>4. QED
    BY <2>1, <2>2, <2>3
<1>5. QED
  BY <1>1, <1>2, <1>3, <1>4, StepKinds

LEMMA OneLiveNext ==
  ASSUME TypeOK, FamiliesBegun, OneLivePerFamily, [Next]_vars
  PROVE  OneLivePerFamily'
<1> USE DEF OneLivePerFamily, Live
<1>1. CASE CodeStep
  BY <1>1 DEF CodeStep, Issued
<1>2. ASSUME NEW c \in Code, NEW s \in Session, NEW cl \in Client, NEW t \in Token,
             Redeemed(c, s, cl, t)
      PROVE  OneLivePerFamily'
  <2>1. refresh'[t].family = t /\ t \notin Issued
    BY <1>2 DEF Redeemed, NewRecord
  <2>2. \A x \in Issued : refresh'[x] = refresh[x] /\ refresh[x].family # t
    BY <1>2, <2>1 DEF Redeemed, FamiliesBegun
  <2>3. Issued' = Issued \cup {t}
    BY <1>2 DEF Redeemed
  <2>4. QED
    BY <2>1, <2>2, <2>3 DEF Issued
<1>3. ASSUME NEW t \in Token, NEW u \in Token, NEW s \in Session, NEW cl \in Client,
             Rotated(t, s, cl, u)
      PROVE  OneLivePerFamily'
  <2>1. t \in Issued /\ Live(t) /\ u \notin Issued /\ Issued' = Issued \cup {u}
    BY <1>3 DEF Rotated
  <2>2. \A x \in Issued : Live(x)' => Live(x) /\ x # t
    BY <1>3, <2>1, RotatedFields DEF TypeOK
  <2>3. \A x \in Issued : Live(x)' => refresh'[x].family # refresh'[u].family
    BY <1>3, <2>1, <2>2, RotatedFields DEF TypeOK, Issued
  <2>4. QED
    BY <1>3, <2>1, <2>2, <2>3, RotatedFields DEF TypeOK, Issued
<1>4. ASSUME NEW R \in SUBSET Token, Revoked(R)
      PROVE  OneLivePerFamily'
  BY <1>4, RevokedFields DEF Revoked
<1>5. QED
  BY <1>1, <1>2, <1>3, <1>4, StepKinds

LEMMA ReusedDeadNext ==
  ASSUME TypeOK, FamiliesBegun, ReusedFamilyIsDead, [Next]_vars
  PROVE  ReusedFamilyIsDead'
<1> USE DEF ReusedFamilyIsDead
<1>1. CASE CodeStep
  BY <1>1 DEF CodeStep, Issued
<1>2. ASSUME NEW c \in Code, NEW s \in Session, NEW cl \in Client, NEW t \in Token,
             Redeemed(c, s, cl, t)
      PROVE  ReusedFamilyIsDead'
  <2>1. refresh'[t].family = t /\ t \notin reused'
    BY <1>2 DEF Redeemed, NewRecord, FamiliesBegun
  <2>2. QED
    BY <1>2, <2>1 DEF Redeemed
<1>3. ASSUME NEW t \in Token, NEW u \in Token, NEW s \in Session, NEW cl \in Client,
             Rotated(t, s, cl, u)
      PROVE  ReusedFamilyIsDead'
  <2>1. t \in Issued /\ ~refresh[t].revoked /\ Issued' = Issued \cup {u} /\ reused' = reused
    BY <1>3 DEF Rotated, Live
  <2>2. refresh'[u].family \notin reused
    BY <1>3, <2>1, RotatedFields DEF TypeOK
  <2>3. \A x \in Issued : /\ refresh'[x].family = refresh[x].family
                          /\ refresh'[x].revoked = refresh[x].revoked
    BY <1>3, <2>1, RotatedFields DEF TypeOK
  <2>4. QED
    BY <2>1, <2>2, <2>3
<1>4. ASSUME NEW R \in SUBSET Token, Revoked(R)
      PROVE  ReusedFamilyIsDead'
  <2>1. Issued' = Issued
    BY <1>4 DEF Revoked
  <2>2. \A x \in Issued : /\ refresh'[x].family = refresh[x].family
                          /\ refresh[x].revoked => refresh'[x].revoked
                          /\ x \in R => refresh'[x].revoked
    BY <1>4, RevokedFields
  <2>3. \A x \in Issued : refresh[x].family \in reused' \ reused => x \in R
    BY <1>4 DEF Revoked
  <2>4. QED
    BY <2>1, <2>2, <2>3
<1>5. QED
  BY <1>1, <1>2, <1>3, <1>4, StepKinds

\* x has the owner of f, and f was bought with a code that is out of the store.
SameOwner(x, f) ==
  /\ refresh[x].client = refresh[f].client
  /\ refresh[x].subject = refresh[f].subject
  /\ refresh[x].binding = refresh[f].binding

BegunByCode(f) ==
  /\ parent[f] \in Code \ stored
  /\ codes[parent[f]].client = refresh[f].client
  /\ codes[parent[f]].user = refresh[f].subject

OwnedFamily(x) == /\ refresh[x].family \in Issued
                  /\ SameOwner(x, refresh[x].family)
                  /\ BegunByCode(refresh[x].family)

LEMMA OwnerNext ==
  ASSUME TypeOK, ParentIsSpent, FamilyKeepsItsOwner, FamiliesBegun, [Next]_vars
  PROVE  FamilyKeepsItsOwner'
<1>1. \A x \in Issued : OwnedFamily(x)
  BY DEF FamilyKeepsItsOwner, OwnedFamily, SameOwner, BegunByCode
<1>2. SUFFICES ASSUME NEW x \in Issued' PROVE OwnedFamily(x)'
  BY DEF FamilyKeepsItsOwner, OwnedFamily, SameOwner, BegunByCode
<1>3. CASE CodeStep
  <2>1. Issued' = Issued /\ refresh' = refresh /\ parent' = parent
    BY <1>3 DEF CodeStep, Issued
  <2>2. /\ x \in Issued /\ refresh[x].family \in Issued
        /\ OwnedFamily(x)
        /\ parent[refresh[x].family] \in Code \ stored
    BY <1>1, <2>1 DEF OwnedFamily, BegunByCode
  <2>3. codes[parent[refresh[x].family]] # NoRecord
    BY <2>2 DEF ParentIsSpent, Issued
  <2>4. /\ codes'[parent[refresh[x].family]] = codes[parent[refresh[x].family]]
        /\ parent[refresh[x].family] \notin stored'
    BY <1>3, <2>2, <2>3 DEF CodeStep
  <2>5. QED
    BY <2>1, <2>2, <2>4 DEF OwnedFamily, SameOwner, BegunByCode
<1>4. ASSUME NEW c \in Code, NEW s \in Session, NEW cl \in Client, NEW t \in Token,
             Redeemed(c, s, cl, t)
      PROVE  OwnedFamily(x)'
  <2>1. /\ refresh'[t].family = t /\ refresh'[t].client = cl
        /\ refresh'[t].subject = codes[c].user
    BY <1>4 DEF Redeemed, NewRecord
  <2>2. /\ Issued' = Issued \cup {t} /\ codes' = codes /\ stored' = stored \ {c}
        /\ parent'[t] = c /\ codes[c].client = cl
        /\ \A y \in Issued : refresh'[y] = refresh[y] /\ parent'[y] = parent[y]
    BY <1>4 DEF Redeemed
  <2>3. CASE x = t
    BY <2>1, <2>2, <2>3 DEF OwnedFamily, SameOwner, BegunByCode
  <2>4. CASE x \in Issued
    BY <1>1, <2>2, <2>4 DEF OwnedFamily, SameOwner, BegunByCode
  <2>5. QED
    BY <2>2, <2>3, <2>4
<1>5. ASSUME NEW t \in Token, NEW u \in Token, NEW s \in Session, NEW cl \in Client,
             Rotated(t, s, cl, u)
      PROVE  OwnedFamily(x)'
  <2>1. /\ t \in Issued /\ Issued' = Issued \cup {u}
        /\ codes' = codes /\ stored' = stored
        /\ \A y \in Issued : parent'[y] = parent[y]
    BY <1>5 DEF Rotated, Live
  <2>2. /\ refresh'[u].family = refresh[t].family
        /\ refresh'[u].client = refresh[t].client
        /\ refresh'[u].subject = refresh[t].subject
        /\ refresh'[u].binding = refresh[t].binding
        /\ \A y \in Issued : /\ refresh'[y].family = refresh[y].family
                             /\ refresh'[y].client = refresh[y].client
                             /\ refresh'[y].subject = refresh[y].subject
                             /\ refresh'[y].binding = refresh[y].binding
    BY <1>5, RotatedFields DEF TypeOK
  <2>3. \A y \in Issued : OwnedFamily(y)'
    BY <1>1, <2>1, <2>2 DEF OwnedFamily, SameOwner, BegunByCode
  <2>4. OwnedFamily(u)'
    BY <1>1, <2>1, <2>2 DEF OwnedFamily, SameOwner, BegunByCode
  <2>5. QED
    BY <2>1, <2>3, <2>4
<1>6. ASSUME NEW R \in SUBSET Token, Revoked(R)
      PROVE  OwnedFamily(x)'
  <2>1. /\ Issued' = Issued /\ codes' = codes /\ stored' = stored /\ parent' = parent
        /\ \A y \in Issued : /\ refresh'[y].family = refresh[y].family
                             /\ refresh'[y].client = refresh[y].client
                             /\ refresh'[y].subject = refresh[y].subject
                             /\ refresh'[y].binding = refresh[y].binding
    BY <1>6, RevokedFields DEF Revoked
  <2>2. QED
    BY <1>1, <2>1 DEF OwnedFamily, SameOwner, BegunByCode
<1>7. QED
  BY <1>3, <1>4, <1>5, <1>6, StepKinds
-----------------------------------------------------------------------------
LEMMA IInvInit == Init => IInv
<1>1. Init => Issued = {}
  BY DEF Init, Issued
<1>2. QED
  BY <1>1, TypeInit DEF IInv, Init, ParentIsSpent, FamiliesBegun, SingleUse,
     OneLivePerFamily, Live, ReusedFamilyIsDead, FamilyKeepsItsOwner

LEMMA IInvNext == IInv /\ [Next]_vars => IInv'
BY TypeNext, SpentNext, BegunNext, SingleUseNext, OneLiveNext, ReusedDeadNext,
   OwnerNext DEF IInv

LEMMA IInvAlways == Spec => []IInv
BY IInvInit, IInvNext, PTL DEF Spec

\* No authorization code and no refresh token ever buys two refresh tokens.
THEOREM SingleUseHolds == Spec => []SingleUse
BY IInvAlways, PTL DEF IInv

\* Of all the tokens of a family at most one can still be exchanged.
THEOREM OneLivePerFamilyHolds == Spec => []OneLivePerFamily
BY IInvAlways, PTL DEF IInv

\* A family in which a reuse was answered has no usable token left.
THEOREM ReusedFamilyIsDeadHolds == Spec => []ReusedFamilyIsDead
BY IInvAlways, PTL DEF IInv

\* All tokens of a family keep the client, subject and session of the code
\* exchange that began it.
THEOREM FamilyKeepsItsOwnerHolds == Spec => []FamilyKeepsItsOwner
BY IInvAlways, PTL DEF IInv
-----------------------------------------------------------------------------
(* TokenService implements RefreshRotation.                                 *)

LEMMA RotationInit == Init => Rotation!Init
BY DEF Init, Rotation!Init, StatusOf, Issued

LEMMA RotationStep ==
  ASSUME TypeOK, FamiliesBegun, [Next]_vars
  PROVE  [Rotation!Next]_Rotation!vars
<1> DEFINE st == [t \in Token |-> StatusOf(t)]
           fam == [t \in Token |-> IF t \in Issued THEN refresh[t].family ELSE NoRecord]
<1>1. CASE CodeStep
  <2>1. refresh' = refresh
    BY <1>1 DEF CodeStep
  <2>2. QED
    BY <2>1 DEF Rotation!vars, StatusOf, Issued
<1>2. ASSUME NEW c \in Code, NEW s \in Session, NEW cl \in Client, NEW t \in Token,
             Redeemed(c, s, cl, t)
      PROVE  Rotation!Next
  <2>1. /\ refresh'[t].family = t /\ ~refresh'[t].used /\ ~refresh'[t].revoked
        /\ t \notin Issued /\ Issued' = Issued \cup {t}
        /\ \A x \in Issued : refresh'[x] = refresh[x]
    BY <1>2 DEF Redeemed, NewRecord
  <2>2. st[t] = "fresh"
    BY <2>1 DEF StatusOf
  <2>3. st' = [st EXCEPT ![t] = "live"]
    BY <2>1 DEF StatusOf
  <2>4. fam' = [fam EXCEPT ![t] = t]
    BY <2>1
  <2>5. Rotation!Begin(t)
    BY <2>2, <2>3, <2>4 DEF Rotation!Begin
  <2>6. QED
    BY <2>5 DEF Rotation!Next
<1>3. ASSUME NEW t \in Token, NEW u \in Token, NEW s \in Session, NEW cl \in Client,
             Rotated(t, s, cl, u)
      PROVE  Rotation!Next
  <2>1. /\ Live(t) /\ u \notin Issued /\ Issued' = Issued \cup {u} /\ t \in Issued
        /\ ~refresh'[u].used /\ ~refresh'[u].revoked
    BY <1>3 DEF Rotated, NewRecord, Live
  <2>2. /\ refresh'[u].family = refresh[t].family
        /\ refresh'[t].used /\ refresh'[t].revoked = refresh[t].revoked
        /\ refresh'[t].family = refresh[t].family
        /\ \A x \in Issued \ {t} : refresh'[x] = refresh[x]
    BY <1>3, <2>1, RotatedFields DEF TypeOK, Rotated
  <2>3. st[t] = "live" /\ st[u] = "fresh"
    BY <2>1 DEF StatusOf, Live
  <2>4. st' = [st EXCEPT ![t] = "used", ![u] = "live"]
    BY <2>1, <2>2 DEF StatusOf, Live
  <2>5. fam' = [fam EXCEPT ![u] = fam[t]]
    BY <2>1, <2>2
  <2>6. Rotation!Rotate(t, u)
    BY <2>3, <2>4, <2>5 DEF Rotation!Rotate
  <2>7. QED
    BY <2>6 DEF Rotation!Next
<1>4. ASSUME NEW t \in held, RefreshExpired(t)
      PROVE  Rotation!Next
  <2>1. Revoked({t}) /\ t \in Token /\ t \in Issued
    BY <1>4, ExpireEffect DEF TypeOK, Issued
  <2>2. /\ ~refresh[t].revoked /\ refresh'[t].revoked
        /\ refresh'[t].family = refresh[t].family
        /\ \A x \in Issued \ {t} : refresh'[x] = refresh[x]
        /\ Issued' = Issued
    BY <1>4, <2>1, RevokedFields DEF Revoked, RefreshExpired
  <2>3. st[t] \in {"live", "used"}
    BY <2>1, <2>2 DEF StatusOf
  <2>4. st' = [st EXCEPT ![t] = "revoked"]
    BY <2>1, <2>2 DEF StatusOf
  <2>5. fam' = fam
    BY <2>2
  <2>6. Rotation!Expire(t)
    BY <2>3, <2>4, <2>5 DEF Rotation!Expire
  <2>7. QED
    BY <2>1, <2>6 DEF Rotation!Next
<1>5. ASSUME NEW t \in held, RefreshReused(t)
      PROVE  Rotation!Next
  <2> DEFINE R == {x \in Issued : refresh[x].family = refresh[t].family}
  <2>1. Revoked(R) /\ R \in SUBSET Token /\ t \in Token /\ t \in Issued
    BY <1>5, ReuseEffect DEF TypeOK, Issued
  <2>2. \A x \in R : refresh'[x].revoked
    <3> HIDE DEF R
    <3>1. QED
      BY <2>1, RevokedFields
  <2>3. \A x \in Issued : refresh'[x].family = refresh[x].family
    <3> HIDE DEF R
    <3>1. QED
      BY <2>1, RevokedFields
  <2>4. /\ Issued' = Issued
        /\ \A x \in Issued \ R : refresh'[x] = refresh[x]
    BY <2>1 DEF Revoked
  <2>5. st[t] = "used"
    BY <1>5, <2>1 DEF RefreshReused, StatusOf
  <2>6. fam[t] = refresh[t].family /\ refresh[t].family # NoRecord
    BY <2>1, ServiceAssumption DEF FamiliesBegun, Issued
  <2>7. \A x \in Token : fam[x] = fam[t] <=> x \in R
    BY <2>1, <2>6
  <2>8. st' = [x \in Token |-> IF fam[x] = fam[t] THEN "revoked" ELSE st[x]]
    <3> HIDE DEF R
    <3>1. ASSUME NEW x \in Token
          PROVE  StatusOf(x)' = IF x \in R THEN "revoked" ELSE StatusOf(x)
      BY <2>1, <2>2, <2>4 DEF StatusOf, Revoked
    <3>2. QED
      BY <2>7, <3>1
  <2>9. fam' = fam
    BY <2>3, <2>4
  <2>10. Rotation!DetectReuse(t)
    BY <2>5, <2>8, <2>9 DEF Rotation!DetectReuse, Rotation!Members
  <2>11. QED
    BY <2>1, <2>10 DEF Rotation!Next
<1>6. QED
  BY <1>1, <1>2, <1>3, <1>4, <1>5, RequestKinds

\* Every behaviour of the endpoints is, seen through the tokens' status and
\* family, a behaviour of RefreshRotation.
THEOREM RotationImplemented == Spec => ImplementsRotation
<1>1. Init => Rotation!Init
  BY RotationInit
<1>2. IInv /\ [Next]_vars => [Rotation!Next]_Rotation!vars
  BY RotationStep DEF IInv
<1>3. QED
  BY <1>1, <1>2, IInvAlways, PTL DEF Spec, ImplementsRotation, Rotation!Spec
=============================================================================
