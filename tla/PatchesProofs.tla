------------------------------ MODULE PatchesProofs ------------------------------
(***************************************************************************)
(* Proofs about Patches, for any number of sessions and of refused writes,  *)
(* and any configuration at each installation; at the end, that its calls   *)
(* are steps of GateCalls (PatchGates).                                     *)
(*                                                                         *)
(* A site that is not in todo has been dealt with by the call in progress:  *)
(* the inductive invariant says in what state each kind of call leaves it.  *)
(***************************************************************************)
EXTENDS PatchGates, SequenceTheorems, TLAPS

In(s, list) == \E i \in DOMAIN list : list[i] = s

TrustLoops == {"trust patch", "trust undo", "trust restore"}
TlsLoops == {"tls patch", "tls undo", "tls restore"}

(* What each list that is worked through holds.                            *)
ListFits ==
    /\ pc \in TrustLoops => \A s \in Sites : In(s, todo) => s \in TrustSites
    /\ pc \in TlsLoops => \A s \in Sites : In(s, todo) => s \in TlsSites
    /\ pc = "trust patch" =>
          todo \in {<<"header", "extended", "cached">>, <<"extended", "cached">>,
                    <<"cached">>, <<>>}

(* Which addresses are set while an install runs.                          *)
KnownFits ==
    /\ pc \in {"trust patch", "trust undo"} => TrustSites \subseteq known
    /\ pc = "tls getter" =>
          /\ known \cap TlsSites = {}
          /\ "getter" \in requested => site["getter"] = "stock"
    /\ pc = "tls verify" => known \cap {"host", "peer"} = {}
    /\ pc = "tls patch" => {"host", "peer"} \subseteq known

SavedFits ==
    /\ SavedIsStock
    /\ pc = "tls undo" =>
          /\ \A s \in Sites : In(s, todo) => saved[s] = "stock"
          /\ \A s \in known \cap TrustSites : saved[s] = "stock"

(* What a call has dealt with is clean, or Windows has refused it.         *)
DoneFits ==
    /\ pc = "trust patch" => \A s \in TrustSites : In(s, todo) => site[s] = "stock"
    /\ pc = "trust undo" \/ (pc = "trust restore" /\ ok) =>
          \A s \in TrustSites \ owing : ~In(s, todo) => site[s] = "stock"
    /\ pc = "tls undo" \/ (pc = "tls restore" /\ ok) =>
          \A s \in TlsSites \ owing : ~In(s, todo) => site[s] = "stock"

IInv ==
    /\ TypeOK
    /\ ListFits
    /\ KnownFits
    /\ SavedFits
    /\ DoneFits
    /\ ForgottenIsClean

--------------------------------------------------------------------------------
(* Lists of sites.                                                         *)

LEMMA HeadLeaves ==
    ASSUME NEW list \in Seq(Sites), list # <<>>
    PROVE  /\ Head(list) \in Sites
           /\ Tail(list) \in Seq(Sites)
           /\ \A s : In(s, list) <=> s = Head(list) \/ In(s, Tail(list))
  <1>1. Len(list) \in Nat \ {0} /\ DOMAIN list = 1 .. Len(list)
      BY EmptySeq
  <1>2. /\ Tail(list) \in Seq(Sites) /\ Head(list) = list[1]
        /\ DOMAIN Tail(list) = 1 .. (Len(list) - 1)
        /\ \A i \in 1 .. (Len(list) - 1) : Tail(list)[i] = list[i + 1]
      BY <1>1
  <1>3. ASSUME NEW s, In(s, list), s # Head(list) PROVE In(s, Tail(list))
    <2>1. PICK i \in 1 .. Len(list) : list[i] = s
        BY <1>1, <1>3 DEF In
    <2>2. i - 1 \in 1 .. (Len(list) - 1) /\ list[(i - 1) + 1] = s
        BY <1>1, <1>2, <1>3, <2>1
    <2> QED BY <1>2, <2>2 DEF In
  <1>4. ASSUME NEW s, s = Head(list) \/ In(s, Tail(list)) PROVE In(s, list)
    <2>1. CASE s = Head(list)
        BY <1>1, <1>2, <2>1 DEF In
    <2>2. CASE In(s, Tail(list))
      <3>1. PICK i \in 1 .. (Len(list) - 1) : Tail(list)[i] = s
          BY <1>2, <2>2 DEF In
      <3>2. i + 1 \in 1 .. Len(list) /\ list[i + 1] = s
          BY <1>1, <1>2, <3>1
      <3> QED BY <1>1, <3>2 DEF In
    <2> QED BY <1>4, <2>1, <2>2
  <1>5. Head(list) \in Sites
      BY <1>1, <1>2
  <1> QED BY <1>2, <1>3, <1>4, <1>5

LEMMA JoinHolds ==
    ASSUME NEW a \in Seq(Sites), NEW b \in Seq(Sites)
    PROVE  /\ a \o b \in Seq(Sites)
           /\ \A s : In(s, a \o b) <=> In(s, a) \/ In(s, b)
  <1>1. /\ a \o b \in Seq(Sites)
        /\ Len(a) \in Nat /\ Len(b) \in Nat
        /\ DOMAIN a = 1 .. Len(a) /\ DOMAIN b = 1 .. Len(b)
        /\ DOMAIN (a \o b) = 1 .. (Len(a) + Len(b))
        /\ \A i \in 1 .. (Len(a) + Len(b)) :
              (a \o b)[i] = IF i <= Len(a) THEN a[i] ELSE b[i - Len(a)]
      OBVIOUS
  <1>2. ASSUME NEW s, In(s, a \o b) PROVE In(s, a) \/ In(s, b)
    <2>1. PICK i \in 1 .. (Len(a) + Len(b)) : (a \o b)[i] = s
        BY <1>1, <1>2 DEF In
    <2>2. CASE i <= Len(a)
        BY <1>1, <2>1, <2>2 DEF In
    <2>3. CASE i > Len(a)
      <3>1. i - Len(a) \in 1 .. Len(b) /\ b[i - Len(a)] = s
          BY <1>1, <2>1, <2>3
      <3> QED BY <1>1, <3>1 DEF In
    <2> QED BY <1>1, <2>1, <2>2, <2>3
  <1>3. ASSUME NEW s, In(s, a) PROVE In(s, a \o b)
    <2>1. PICK i \in 1 .. Len(a) : a[i] = s
        BY <1>1, <1>3 DEF In
    <2>2. i \in 1 .. (Len(a) + Len(b)) /\ (a \o b)[i] = s
        BY <1>1, <2>1
    <2> QED BY <1>1, <2>2 DEF In
  <1>4. ASSUME NEW s, In(s, b) PROVE In(s, a \o b)
    <2>1. PICK i \in 1 .. Len(b) : b[i] = s
        BY <1>1, <1>4 DEF In
    <2>2. Len(a) + i \in 1 .. (Len(a) + Len(b)) /\ (a \o b)[Len(a) + i] = s
        BY <1>1, <2>1
    <2> QED BY <1>1, <2>2 DEF In
  <1> QED BY <1>1, <1>2, <1>3, <1>4

LEMMA WhenHolds ==
    ASSUME NEW s \in Sites
    PROVE  /\ When(s) \in Seq(Sites)
           /\ \A q : In(q, When(s)) <=> q = s /\ s \in known
  BY DEF When, In

(* An uninstall visits every site of its own whose address is set.         *)
LEMMA UninstallVisits ==
    ASSUME NEW a \in Sites, NEW b \in Sites, NEW c \in Sites
    PROVE  LET list == When(a) \o When(b) \o When(c)
           IN  /\ list \in Seq(Sites)
               /\ \A s : In(s, list) <=> s \in {a, b, c} /\ s \in known
  <1>1. /\ When(a) \o When(b) \in Seq(Sites)
        /\ \A s : In(s, When(a) \o When(b)) <=> In(s, When(a)) \/ In(s, When(b))
      BY WhenHolds, JoinHolds
  <1>2. LET list == When(a) \o When(b) \o When(c)
        IN  /\ list \in Seq(Sites)
            /\ \A s : In(s, list) <=> In(s, When(a) \o When(b)) \/ In(s, When(c))
      BY <1>1, WhenHolds, JoinHolds
  <1> QED BY <1>1, <1>2, WhenHolds

(* The roll-back of the TLS install visits every site whose address is set.*)
LEMMA TlsPatchedVisits ==
    ASSUME {"host", "peer"} \subseteq known
    PROVE  /\ TlsPatched \in Seq(Sites)
           /\ \A s : In(s, TlsPatched) <=> s \in TlsSites /\ s \in known
  <1>1. <<"host", "peer">> \in Seq(Sites) /\ "getter" \in Sites
      BY DEF Sites, TlsSites, TrustSites
  <1>2. \A s : In(s, <<"host", "peer">>) <=> s \in {"host", "peer"}
      BY DEF In
  <1>3. TlsPatched \in Seq(Sites)
        /\ \A s : In(s, TlsPatched) <=> In(s, <<"host", "peer">>) \/ In(s, When("getter"))
      BY <1>1, WhenHolds, JoinHolds DEF TlsPatched
  <1> QED BY <1>1, <1>2, <1>3, WhenHolds DEF TlsSites
--------------------------------------------------------------------------------
(* Types and places.                                                       *)

(* Where the runtime is, seen from the call in progress.                   *)
LEMMA Places ==
    ASSUME TypeOK
    PROVE  /\ pc \in TrustLabels => at = "trust"
           /\ pc \in TlsLabels => at = "tls"
           /\ pc \in {"tls::uninstall", "tls restore"} => at = "close tls"
           /\ pc \in {"trust::uninstall", "trust restore"} => at = "close trust"
           /\ pc = "returned" => at \in {"trust", "tls", "close tls", "close trust"}
           /\ pc = "none" <=> at \in {"down", "sku", "up"}
  BY DEF TypeOK, Labels, TrustLabels, TlsLabels

(* todo holds known sites.                                                 *)
LEMMA TodoIsKnown ==
    ASSUME TypeOK
    PROVE  \A s : In(s, todo) => s \in known /\ s \in Sites
  BY DEF TypeOK, In

LEMMA InitIInv == Init => IInv
  <1> SUFFICES ASSUME Init PROVE IInv
      OBVIOUS
  <1>1. TypeOK
      BY CodePatchAssumption, PatchesAssumption
         DEF Init, TypeOK, Bytes, SavedBytes, Requests, Labels
  <1> QED BY <1>1 DEF Init, IInv, ListFits, KnownFits, SavedFits, SavedIsStock, DoneFits,
                      ForgottenIsClean, TrustLoops, TlsLoops

(* What one write changes.                                                 *)
LEMMA WriteFits ==
    ASSUME TypeOK, NEW s \in Sites, NEW new \in Bytes, NEW done \in BOOLEAN,
           Write(s, new, done)
    PROVE  /\ site' \in [Sites -> Bytes]
           /\ owing' \subseteq Sites
           /\ refusals' \in Nat
           /\ \A q \in Sites : q # s => site'[q] = site[q] /\ (q \in owing' <=> q \in owing)
           /\ done => site'[s] = new /\ s \notin owing' /\ refusals' = refusals
           /\ ~done => refusals = refusals' + 1
           /\ ~done /\ pc \notin Restoring => s \in owing'
  <1>1. PICK bytes \in (IF done THEN {new} ELSE {site[s], new}) :
            site' = [site EXCEPT ![s] = bytes]
      BY DEF Write
  <1>2. bytes \in Bytes
      BY <1>1 DEF TypeOK
  <1>3. site' \in [Sites -> Bytes] /\ site'[s] = bytes
        /\ \A q \in Sites : q # s => site'[q] = site[q]
      BY <1>1, <1>2 DEF TypeOK
  <1>4. CASE done
      BY <1>1, <1>3, <1>4 DEF Write, TypeOK
  <1>5. CASE ~done
    <2>0. refusals > 0 /\ refusals' = refusals - 1
        BY <1>5 DEF Write
    <2>a. refusals \in Nat
        BY DEF TypeOK
    <2>1. refusals' \in Nat /\ refusals = refusals' + 1
        BY <2>0, <2>a
    <2>2. owing' = IF pc \in Restoring THEN owing ELSE owing \cup {s}
        BY <1>5 DEF Write
    <2> QED BY <1>3, <1>5, <2>1, <2>2 DEF TypeOK
  <1> QED BY <1>4, <1>5

--------------------------------------------------------------------------------
(* The first invariant is preserved by each step.                          *)

LEMMA RuntimeIInv == IInv /\ Runtime => IInv'
  <1> SUFFICES ASSUME IInv, Runtime PROVE IInv'
      OBVIOUS
  <1>1. /\ pc \in {"none", "returned"}
        /\ pc' \in {"none", "trust::install", "tls::install", "tls::uninstall",
                     "trust::uninstall"}
        /\ UNCHANGED <<site, known, saved, todo, ok, owing, refusals, requested>>
      BY Places DEF Runtime, Initialize, TrustReturned, TlsReturned, PrepareSku, Shutdown,
                    TlsClosed, TrustClosed, Proceed, IInv
  <1>2. at' \in {"down", "trust", "tls", "sku", "up", "close tls", "close trust"}
        /\ pc' \in Labels(at')
      BY DEF Runtime, Initialize, TrustReturned, TlsReturned, PrepareSku, Shutdown,
             TlsClosed, TrustClosed, Proceed, Labels, TrustLabels, TlsLabels
  <1>3. sessions' \in Nat /\ before' \subseteq Sites
    <2>1. CASE Initialize
      <3>1. sessions \in Nat /\ known \subseteq Sites
          BY DEF IInv, TypeOK
      <3> QED BY <2>1, <3>1 DEF Initialize
    <2>2. CASE ~Initialize
      <3>1. sessions' = sessions /\ before' = before
          BY <2>2 DEF Runtime, TrustReturned, TlsReturned, PrepareSku, Shutdown, TlsClosed,
                      TrustClosed
      <3> QED BY <3>1 DEF IInv, TypeOK
    <2> QED BY <2>1, <2>2
  <1>4. TypeOK'
      BY <1>1, <1>2, <1>3 DEF IInv, TypeOK
  <1> QED BY <1>1, <1>4 DEF IInv, ListFits, KnownFits, SavedFits, SavedIsStock, DoneFits,
                            ForgottenIsClean, TrustLoops, TlsLoops

LEMMA TrustInstallIInv == IInv /\ TrustInstall /\ UNCHANGED <<requested, runtimeVars>> => IInv'
  <1> SUFFICES ASSUME IInv, TrustInstall, UNCHANGED <<requested, runtimeVars>> PROVE IInv'
      OBVIOUS
  <1>1. pc = "trust::install" /\ at = "trust" /\ UNCHANGED <<site, owing, refusals, requested,
                                                            at, before, sessions>>
      BY Places DEF TrustInstall, IInv, TrustLabels, runtimeVars
  <1>2. CASE pc' = "returned" /\ ok' \in BOOLEAN /\ UNCHANGED <<known, saved, todo>>
    <2>1. TypeOK'
        BY <1>1, <1>2 DEF IInv, TypeOK, Labels
    <2> QED BY <1>1, <1>2, <2>1 DEF IInv, ListFits, KnownFits, SavedFits, SavedIsStock,
                                    DoneFits, ForgottenIsClean, TrustLoops, TlsLoops
  <1>3. CASE /\ \A s \in TrustSites : site[s] = "stock"
             /\ known' = known \cup TrustSites
             /\ saved' = [s \in DOMAIN saved |-> IF s \in TrustSites THEN site[s] ELSE saved[s]]
             /\ pc' = "trust patch" /\ todo' = <<"header", "extended", "cached">>
             /\ UNCHANGED ok
    <2>1. saved' \in [Sites -> SavedBytes] /\ \A s \in known' : saved'[s] = "stock"
        BY <1>1, <1>3 DEF IInv, TypeOK, SavedFits, SavedIsStock, SavedBytes, Bytes, Sites
    <2>2. todo' \in Seq(Sites) /\ \A i \in DOMAIN todo' : todo'[i] \in TrustSites
      <3>1. <<"header", "extended", "cached">> \in Seq(TrustSites)
          BY DEF TrustSites
      <3>2. todo' \in Seq(TrustSites)
          BY <1>3, <3>1
      <3> QED BY <3>2 DEF Sites
    <2>3. TypeOK'
        BY <1>1, <1>3, <2>1, <2>2 DEF IInv, TypeOK, Labels, TrustLabels, Sites
    <2>4. ListFits'
        BY <1>3, <2>2 DEF ListFits, In, TrustLoops, TlsLoops
    <2> QED BY <1>1, <1>3, <2>1, <2>3, <2>4
        DEF IInv, KnownFits, SavedFits, SavedIsStock, DoneFits, ForgottenIsClean
  <1> QED BY <1>2, <1>3 DEF TrustInstall, Return, Go

LEMMA TlsInstallIInv == IInv /\ TlsInstall /\ UNCHANGED runtimeVars => IInv'
  <1> SUFFICES ASSUME IInv, TlsInstall, UNCHANGED runtimeVars PROVE IInv'
      OBVIOUS
  <1>1. pc = "tls::install" /\ at = "tls"
        /\ UNCHANGED <<site, known, saved, todo, owing, refusals, at, before, sessions>>
      BY Places DEF TlsInstall, IInv, TlsLabels, runtimeVars
  <1>2. /\ requested' \in Requests /\ ok' \in BOOLEAN
        /\ \/ pc' = "returned"
           \/ /\ pc' = "tls getter"
              /\ known \cap TlsSites = {}
              /\ "getter" \in requested' => site["getter"] = "stock"
      BY DEF TlsInstall, Return, IInv, TypeOK
  <1>3. TypeOK'
      BY <1>1, <1>2 DEF IInv, TypeOK, Labels, TlsLabels
  <1> QED BY <1>1, <1>2, <1>3 DEF IInv, ListFits, KnownFits, SavedFits, SavedIsStock,
                                  DoneFits, ForgottenIsClean, TrustLoops, TlsLoops

LEMMA PatchGetterIInv == IInv /\ PatchGetter /\ UNCHANGED runtimeVars => IInv'
  <1> SUFFICES ASSUME IInv, PatchGetter, UNCHANGED runtimeVars PROVE IInv'
      OBVIOUS
  <1>1. pc = "tls getter" /\ at = "tls" /\ known \cap TlsSites = {}
        /\ UNCHANGED <<todo, requested, at, before, sessions>>
      BY Places DEF PatchGetter, IInv, TlsLabels, runtimeVars, KnownFits
  <1>2. CASE "getter" \notin requested
    <2>1. pc' = "tls verify" /\ UNCHANGED <<site, known, saved, ok, owing, refusals>>
        BY <1>2 DEF PatchGetter
    <2>2. TypeOK'
        BY <1>1, <2>1 DEF IInv, TypeOK, Labels, TlsLabels
    <2> QED BY <1>1, <2>1, <2>2 DEF IInv, ListFits, KnownFits, SavedFits, SavedIsStock,
                   DoneFits, ForgottenIsClean, TrustLoops, TlsLoops, TlsSites
  <1>3. CASE "getter" \in requested
    <2>1. PICK done \in BOOLEAN :
            /\ Write("getter", "patched", done)
            /\ saved' = [saved EXCEPT !["getter"] = site["getter"]]
            /\ IF done THEN /\ known' = known \cup {"getter"}
                            /\ pc' = "tls verify" /\ UNCHANGED ok
                       ELSE Return(FALSE) /\ UNCHANGED known
        BY <1>3 DEF PatchGetter
    <2>2. /\ site' \in [Sites -> Bytes] /\ owing' \subseteq Sites /\ refusals' \in Nat
          /\ \A q \in Sites : q # "getter" => site'[q] = site[q] /\ (q \in owing' <=> q \in owing)
          /\ ~done => "getter" \in owing'
        BY <1>1, <2>1, WriteFits DEF IInv, Sites, TlsSites, Bytes, Restoring
    <2>3. saved' \in [Sites -> SavedBytes] /\ saved'["getter"] = "stock"
          /\ \A q \in Sites : q # "getter" => saved'[q] = saved[q]
        BY <1>1, <1>3, <2>1
           DEF IInv, TypeOK, KnownFits, Sites, TlsSites, SavedBytes, Bytes
    <2>4. CASE done
      <3>1. known' = known \cup {"getter"} /\ pc' = "tls verify" /\ UNCHANGED ok
          BY <2>1, <2>4
      <3>2. TypeOK'
          BY <1>1, <2>2, <2>3, <3>1 DEF IInv, TypeOK, Sites, TlsSites, Labels, TlsLabels
      <3>3. known' \cap {"host", "peer"} = {}
          BY <1>1, <3>1 DEF TlsSites
      <3>4. SavedIsStock' /\ ForgottenIsClean'
          BY <1>1, <2>2, <2>3, <3>1
             DEF IInv, TypeOK, SavedFits, SavedIsStock, ForgottenIsClean
      <3> QED BY <1>1, <3>1, <3>2, <3>3, <3>4
          DEF IInv, ListFits, KnownFits, SavedFits, DoneFits, TrustLoops, TlsLoops
    <2>5. CASE ~done
      <3>1. known' = known /\ pc' = "returned" /\ ok' = FALSE
          BY <2>1, <2>5 DEF Return
      <3>2. TypeOK'
          BY <1>1, <2>2, <2>3, <3>1 DEF IInv, TypeOK, Labels
      <3>4. SavedIsStock' /\ ForgottenIsClean'
          BY <1>1, <2>2, <2>3, <2>5, <3>1
             DEF IInv, TypeOK, SavedFits, SavedIsStock, ForgottenIsClean
      <3> QED BY <1>1, <3>1, <3>2, <3>4
          DEF IInv, ListFits, KnownFits, SavedFits, DoneFits, TrustLoops, TlsLoops
    <2> QED BY <2>4, <2>5
  <1> QED BY <1>2, <1>3

LEMMA VerifyIInv == IInv /\ Verify /\ UNCHANGED runtimeVars => IInv'
  <1> SUFFICES ASSUME IInv, Verify, UNCHANGED runtimeVars PROVE IInv'
      OBVIOUS
  <1>1. pc = "tls verify" /\ at = "tls" /\ known \cap {"host", "peer"} = {}
        /\ UNCHANGED <<site, owing, refusals, requested, at, before, sessions>>
      BY Places DEF Verify, IInv, TlsLabels, runtimeVars, KnownFits
  <1>2. CASE "host" \notin requested
    <2>1. pc' = "returned" /\ ok' = TRUE /\ UNCHANGED <<known, saved, todo>>
        BY <1>2 DEF Verify, Return
    <2>2. TypeOK'
        BY <1>1, <2>1 DEF IInv, TypeOK, Labels
    <2> QED BY <1>1, <2>1, <2>2 DEF IInv, ListFits, KnownFits, SavedFits, SavedIsStock,
                   DoneFits, ForgottenIsClean, TrustLoops, TlsLoops
  <1>3. CASE "host" \in requested
    <2>1. known' = known \cup {"host", "peer"} /\ UNCHANGED ok
        BY <1>3 DEF Verify
    <2>2. known' \subseteq Sites
        BY <2>1 DEF IInv, TypeOK, Sites, TlsSites
    <2>3. ForgottenIsClean'
        BY <1>1, <2>1 DEF IInv, ForgottenIsClean
    <2>4. CASE site["host"] = "stock" /\ site["peer"] = "stock"
      <3>1. saved' = [saved EXCEPT !["host"] = site["host"], !["peer"] = site["peer"]]
            /\ pc' = "tls patch" /\ todo' = <<"host", "peer">>
          BY <1>3, <2>4 DEF Verify, Go
      <3>2. saved' \in [Sites -> SavedBytes]
          BY <2>4, <3>1 DEF IInv, TypeOK, SavedBytes, Bytes
      <3>3. \A s \in known' : saved'[s] = "stock"
          BY <1>1, <2>1, <2>4, <3>1 DEF IInv, TypeOK, SavedFits, SavedIsStock, Sites, TlsSites
      <3>4. <<"host", "peer">> \in Seq(TlsSites)
          BY DEF TlsSites
      <3>a. todo' = <<"host", "peer">>
          BY <3>1
      <3>b. todo' \in Seq(TlsSites)
          BY <3>4, <3>a
      <3>5. todo' \in Seq(Sites)
          BY <3>b DEF Sites
      <3>6. \A s : In(s, todo') <=> s \in {"host", "peer"}
          BY <3>a DEF In
      <3>7. \A i \in DOMAIN todo' : todo'[i] \in known'
          BY <2>1, <3>6 DEF In
      <3>8. TypeOK'
          BY <1>1, <2>1, <2>2, <3>1, <3>2, <3>5, <3>7 DEF IInv, TypeOK, Labels, TlsLabels
      <3>9. ListFits'
          BY <3>1, <3>6 DEF ListFits, TrustLoops, TlsLoops, TlsSites
      <3> QED BY <1>1, <2>1, <2>3, <3>1, <3>3, <3>8, <3>9
          DEF IInv, KnownFits, SavedFits, SavedIsStock, DoneFits
    <2>5. CASE ~(site["host"] = "stock" /\ site["peer"] = "stock")
      <3>1. pc' = "tls undo" /\ todo' = When("getter") /\ UNCHANGED saved
          BY <1>3, <2>5 DEF Verify, Go
      <3>2. todo' \in Seq(Sites) /\ \A s : In(s, todo') <=> s = "getter" /\ s \in known
        <4>1. "getter" \in Sites
            BY DEF Sites, TlsSites
        <4> QED BY <3>1, <4>1, WhenHolds
      <3>3. \A i \in DOMAIN todo' : todo'[i] \in known'
          BY <2>1, <3>2 DEF In
      <3>4. TypeOK'
          BY <1>1, <2>1, <2>2, <3>1, <3>2, <3>3 DEF IInv, TypeOK, Labels, TlsLabels
      <3>5. ListFits'
          BY <3>1, <3>2 DEF ListFits, TrustLoops, TlsLoops, TlsSites
      <3>6. SavedFits'
          BY <1>1, <2>1, <3>1, <3>2
             DEF IInv, SavedFits, SavedIsStock, TrustSites, TlsSites, Sites
      <3>7. \A s \in TlsSites \ owing' : ~In(s, todo') => site'[s] = "stock"
        <4> SUFFICES ASSUME NEW s \in TlsSites \ owing, ~In(s, todo') PROVE site[s] = "stock"
            BY <1>1
        <4>1. s \notin known /\ s \in Sites
            BY <1>1, <3>2 DEF TlsSites, Sites
        <4> QED BY <4>1 DEF IInv, ForgottenIsClean
      <3> QED BY <2>3, <3>1, <3>4, <3>5, <3>6, <3>7 DEF IInv, KnownFits, DoneFits
    <2> QED BY <2>4, <2>5
  <1> QED BY <1>2, <1>3

LEMMA TrustPatchIInv == IInv /\ TrustPatch /\ UNCHANGED <<requested, runtimeVars>> => IInv'
  <1> SUFFICES ASSUME IInv, TrustPatch, UNCHANGED <<requested, runtimeVars>> PROVE IInv'
      OBVIOUS
  <1> DEFINE s0 == Head(todo)
             back == TrustPatched(s0)
  <1>1. pc = "trust patch" /\ todo # <<>> /\ todo \in Seq(Sites) /\ at = "trust"
        /\ UNCHANGED <<known, saved, ok, requested, at, before, sessions>>
      BY Places DEF TrustPatch, PutIn, IInv, TypeOK, TrustLabels, runtimeVars
  <1>2. PICK done \in BOOLEAN : /\ Write(s0, "patched", done)
                                /\ IF done THEN Go("trust patch", Tail(todo))
                                           ELSE Go("trust undo", back)
      BY DEF TrustPatch, PutIn
  <1>3. s0 \in Sites /\ Tail(todo) \in Seq(Sites)
        /\ \A s : In(s, todo) <=> s = s0 \/ In(s, Tail(todo))
      BY <1>1, HeadLeaves
  <1>4. /\ todo \in {<<"header", "extended", "cached">>, <<"extended", "cached">>, <<"cached">>}
        /\ TrustSites \subseteq known
      BY <1>1 DEF IInv, ListFits, KnownFits
  <1>5. /\ Tail(todo) \in {<<"extended", "cached">>, <<"cached">>, <<>>}
        /\ ~In(s0, Tail(todo))
        /\ back \in Seq(TrustSites)
        /\ \A s \in TrustSites : s = s0 \/ In(s, back) \/ In(s, Tail(todo))
    <2>1. CASE todo = <<"header", "extended", "cached">>
      <3>1. s0 = "header" /\ Tail(todo) = <<"extended", "cached">> /\ back = <<>>
          BY <2>1 DEF TrustPatched
      <3>2. <<>> \in Seq(TrustSites)
          BY DEF TrustSites
      <3>3. back \in Seq(TrustSites)
          BY <3>1, <3>2
      <3> HIDE DEF s0, back
      <3>4. \A s : In(s, <<"extended", "cached">>) <=> s \in {"extended", "cached"}
          BY DEF In
      <3>5. \A s : In(s, <<>>) <=> s \in {}
          BY DEF In
      <3>6. \A s : (In(s, Tail(todo)) <=> s \in {"extended", "cached"}) /\ (In(s, back) <=> s \in {})
          BY <3>1, <3>4, <3>5
      <3>7. ~In(s0, Tail(todo))
          BY <3>1, <3>6
      <3>8. \A s \in TrustSites : s = s0 \/ In(s, back) \/ In(s, Tail(todo))
          BY <3>1, <3>6 DEF TrustSites
      <3> QED BY <3>1, <3>3, <3>7, <3>8
    <2>2. CASE todo = <<"extended", "cached">>
      <3>1. s0 = "extended" /\ Tail(todo) = <<"cached">> /\ back = <<"header">>
          BY <2>2 DEF TrustPatched
      <3>2. <<"header">> \in Seq(TrustSites)
          BY DEF TrustSites
      <3>3. back \in Seq(TrustSites)
          BY <3>1, <3>2
      <3> HIDE DEF s0, back
      <3>4. \A s : In(s, <<"cached">>) <=> s \in {"cached"}
          BY DEF In
      <3>5. \A s : In(s, <<"header">>) <=> s \in {"header"}
          BY DEF In
      <3>6. \A s : (In(s, Tail(todo)) <=> s \in {"cached"}) /\ (In(s, back) <=> s \in {"header"})
          BY <3>1, <3>4, <3>5
      <3>7. ~In(s0, Tail(todo))
          BY <3>1, <3>6
      <3>8. \A s \in TrustSites : s = s0 \/ In(s, back) \/ In(s, Tail(todo))
          BY <3>1, <3>6 DEF TrustSites
      <3> QED BY <3>1, <3>3, <3>7, <3>8
    <2>3. CASE todo = <<"cached">>
      <3>1. s0 = "cached" /\ Tail(todo) = <<>> /\ back = <<"extended", "header">>
          BY <2>3 DEF TrustPatched
      <3>2. <<"extended", "header">> \in Seq(TrustSites)
          BY DEF TrustSites
      <3>3. back \in Seq(TrustSites)
          BY <3>1, <3>2
      <3> HIDE DEF s0, back
      <3>4. \A s : In(s, <<>>) <=> s \in {}
          BY DEF In
      <3>5. \A s : In(s, <<"extended", "header">>) <=> s \in {"extended", "header"}
          BY DEF In
      <3>6. \A s : (In(s, Tail(todo)) <=> s \in {}) /\ (In(s, back) <=> s \in {"extended", "header"})
          BY <3>1, <3>4, <3>5
      <3>7. ~In(s0, Tail(todo))
          BY <3>1, <3>6
      <3>8. \A s \in TrustSites : s = s0 \/ In(s, back) \/ In(s, Tail(todo))
          BY <3>1, <3>6 DEF TrustSites
      <3> QED BY <3>1, <3>3, <3>7, <3>8
    <2> QED BY <1>4, <2>1, <2>2, <2>3
  <1> HIDE DEF s0, back
  <1>6. /\ site' \in [Sites -> Bytes] /\ owing' \subseteq Sites /\ refusals' \in Nat
        /\ \A q \in Sites : q # s0 => site'[q] = site[q] /\ (q \in owing' <=> q \in owing)
        /\ ~done => s0 \in owing'
      BY <1>1, <1>2, <1>3, WriteFits DEF IInv, Bytes, Restoring
  <1>7. s0 \in TrustSites /\ \A s : In(s, Tail(todo)) => s \in TrustSites /\ site'[s] = "stock"
    <2>1. \A s : In(s, todo) => s \in Sites /\ s \in TrustSites /\ site[s] = "stock"
        BY <1>1, TodoIsKnown DEF IInv, ListFits, DoneFits, TrustLoops
    <2> QED BY <1>3, <1>5, <1>6, <2>1
  <1>8. SavedIsStock' /\ ForgottenIsClean'
      BY <1>1, <1>4, <1>6, <1>7 DEF IInv, SavedFits, SavedIsStock, ForgottenIsClean
  <1>9. CASE done
    <2>1. pc' = "trust patch" /\ todo' = Tail(todo)
        BY <1>2, <1>9 DEF Go
    <2>2. \A i \in DOMAIN todo' : todo'[i] \in known'
        BY <1>1, <1>4, <1>7, <2>1 DEF In
    <2>3. TypeOK'
        BY <1>1, <1>3, <1>6, <2>1, <2>2 DEF IInv, TypeOK
    <2>4. ListFits'
        BY <1>5, <1>7, <2>1 DEF ListFits, TrustLoops, TlsLoops
    <2> QED BY <1>1, <1>4, <1>7, <1>8, <2>1, <2>3, <2>4
        DEF IInv, KnownFits, SavedFits, DoneFits
  <1>10. CASE ~done
    <2>1. pc' = "trust undo" /\ todo' = back
        BY <1>2, <1>10 DEF Go
    <2>2. todo' \in Seq(Sites) /\ \A i \in DOMAIN todo' : todo'[i] \in TrustSites
      <3>1. todo' \in Seq(TrustSites)
          BY <1>5, <2>1
      <3> QED BY <3>1 DEF Sites
    <2>3. TypeOK'
        BY <1>1, <1>4, <1>6, <2>1, <2>2 DEF IInv, TypeOK, Labels, TrustLabels
    <2>4. ListFits'
        BY <2>1, <2>2 DEF ListFits, TrustLoops, TlsLoops, In
    <2>5. \A s \in TrustSites \ owing' : ~In(s, todo') => site'[s] = "stock"
        BY <1>5, <1>6, <1>7, <1>10, <2>1
    <2> QED BY <1>1, <1>4, <1>8, <2>1, <2>3, <2>4, <2>5
        DEF IInv, KnownFits, SavedFits, DoneFits
  <1> QED BY <1>9, <1>10

LEMMA TlsPatchIInv == IInv /\ TlsPatch /\ UNCHANGED runtimeVars => IInv'
  <1> SUFFICES ASSUME IInv, TlsPatch, UNCHANGED runtimeVars PROVE IInv'
      OBVIOUS
  <1> DEFINE s0 == Head(todo)
  <1>1. pc = "tls patch" /\ todo # <<>> /\ todo \in Seq(Sites) /\ at = "tls"
        /\ UNCHANGED <<known, saved, ok, requested, at, before, sessions>>
      BY Places DEF TlsPatch, PutIn, IInv, TypeOK, TlsLabels, runtimeVars
  <1>2. PICK done \in BOOLEAN : /\ Write(s0, "patched", done)
                                /\ IF done THEN Go("tls patch", Tail(todo))
                                           ELSE Go("tls undo", TlsPatched)
      BY DEF TlsPatch, PutIn
  <1>3. s0 \in Sites /\ Tail(todo) \in Seq(Sites)
        /\ \A s : In(s, todo) <=> s = s0 \/ In(s, Tail(todo))
      BY <1>1, HeadLeaves
  <1>4. \A s : In(s, todo) => s \in Sites /\ s \in known /\ s \in TlsSites
      BY <1>1, TodoIsKnown DEF IInv, ListFits, TlsLoops
  <1>5. {"host", "peer"} \subseteq known
      BY <1>1 DEF IInv, KnownFits
  <1> HIDE DEF s0
  <1>6. /\ site' \in [Sites -> Bytes] /\ owing' \subseteq Sites /\ refusals' \in Nat
        /\ \A q \in Sites : q # s0 => site'[q] = site[q] /\ (q \in owing' <=> q \in owing)
      BY <1>1, <1>2, <1>3, WriteFits DEF IInv, Bytes
  <1>7. SavedIsStock /\ ForgottenIsClean'
      BY <1>1, <1>3, <1>4, <1>6 DEF IInv, SavedFits, ForgottenIsClean
  <1>8. \A s \in known : saved[s] = "stock"
      BY <1>1, <1>7 DEF SavedIsStock
  <1>9. CASE done
    <2>1. pc' = "tls patch" /\ todo' = Tail(todo)
        BY <1>2, <1>9 DEF Go
    <2>2. \A i \in DOMAIN todo' : todo'[i] \in known'
        BY <1>1, <1>3, <1>4, <2>1 DEF In
    <2>3. TypeOK'
        BY <1>1, <1>3, <1>6, <2>1, <2>2 DEF IInv, TypeOK
    <2>4. ListFits'
        BY <1>3, <1>4, <2>1 DEF ListFits, TrustLoops, TlsLoops
    <2> QED BY <1>1, <1>5, <1>7, <1>8, <2>1, <2>3, <2>4
        DEF IInv, KnownFits, SavedFits, SavedIsStock, DoneFits
  <1>10. CASE ~done
    <2>1. pc' = "tls undo" /\ todo' = TlsPatched
        BY <1>2, <1>10 DEF Go
    <2>2. todo' \in Seq(Sites) /\ \A s : In(s, todo') <=> s \in TlsSites /\ s \in known
        BY <1>5, <2>1, TlsPatchedVisits
    <2>3. \A i \in DOMAIN todo' : todo'[i] \in known'
        BY <1>1, <2>2 DEF In
    <2>4. TypeOK'
        BY <1>1, <1>6, <2>1, <2>2, <2>3 DEF IInv, TypeOK, Labels, TlsLabels
    <2>5. ListFits'
        BY <2>1, <2>2 DEF ListFits, TrustLoops, TlsLoops
    <2>6. \A s \in TlsSites \ owing' : ~In(s, todo') => site'[s] = "stock"
        BY <1>1, <1>7, <2>2 DEF ForgottenIsClean, Sites
    <2> QED BY <1>1, <1>5, <1>7, <1>8, <2>1, <2>2, <2>4, <2>5, <2>6
        DEF IInv, KnownFits, SavedFits, SavedIsStock, DoneFits
  <1> QED BY <1>9, <1>10

LEMMA AllInIInv ==
    ASSUME IInv, NEW here \in {"trust patch", "tls patch"}, AllIn(here),
           UNCHANGED <<requested, runtimeVars>>
    PROVE  IInv'
  <1>1. pc = here /\ pc' = "returned" /\ ok' = TRUE
        /\ UNCHANGED <<site, known, saved, todo, owing, refusals, requested, at, before, sessions>>
      BY DEF AllIn, Return, runtimeVars
  <1>2. TypeOK'
      BY <1>1, Places DEF IInv, TypeOK, Labels, TrustLabels, TlsLabels
  <1> QED BY <1>1, <1>2 DEF IInv, ListFits, KnownFits, SavedFits, SavedIsStock, DoneFits,
                            ForgottenIsClean, TrustLoops, TlsLoops

LEMMA RollBackIInv ==
    ASSUME IInv, NEW here \in {"trust undo", "tls undo"}, RollBack(here),
           UNCHANGED <<requested, runtimeVars>>
    PROVE  IInv'
  <1> DEFINE s0 == Head(todo)
  <1>1. pc = here /\ pc' = here /\ todo # <<>> /\ todo \in Seq(Sites) /\ todo' = Tail(todo)
        /\ UNCHANGED <<known, saved, ok, requested, at, before, sessions>>
      BY DEF RollBack, Go, IInv, TypeOK, runtimeVars
  <1>2. PICK done \in BOOLEAN : Write(s0, saved[s0], done)
      BY DEF RollBack
  <1>3. s0 \in Sites /\ Tail(todo) \in Seq(Sites)
        /\ \A s : In(s, todo) <=> s = s0 \/ In(s, Tail(todo))
      BY <1>1, HeadLeaves
  <1>4. \A s : In(s, todo) => s \in Sites /\ s \in known
      BY TodoIsKnown DEF IInv
  <1>5. saved[s0] = "stock"
      BY <1>1, <1>3, <1>4 DEF IInv, SavedFits, SavedIsStock
  <1> HIDE DEF s0
  <1>6. /\ site' \in [Sites -> Bytes] /\ owing' \subseteq Sites /\ refusals' \in Nat
        /\ \A q \in Sites : q # s0 => site'[q] = site[q] /\ (q \in owing' <=> q \in owing)
        /\ s0 \in owing' \/ site'[s0] = "stock"
      BY <1>1, <1>2, <1>3, <1>5, WriteFits DEF IInv, Bytes, Restoring
  <1>7. \A i \in DOMAIN todo' : todo'[i] \in known'
      BY <1>1, <1>3, <1>4 DEF In
  <1>8. TypeOK'
      BY <1>1, <1>3, <1>6, <1>7 DEF IInv, TypeOK
  <1>9. ListFits' /\ KnownFits' /\ SavedFits'
      BY <1>1, <1>3 DEF IInv, ListFits, KnownFits, SavedFits, SavedIsStock, TrustLoops, TlsLoops
  <1>10. ForgottenIsClean'
      BY <1>1, <1>6 DEF IInv, ForgottenIsClean
  <1>11. DoneFits'
      BY <1>1, <1>3, <1>6 DEF IInv, DoneFits, Sites
  <1> QED BY <1>8, <1>9, <1>10, <1>11 DEF IInv

LEMMA NoneLeft ==
    ASSUME todo = <<>>
    PROVE  \A s : ~In(s, todo)
  BY DEF In

(* The sites of the component that is at here.                             *)
Mine(here) == IF here \in TrustLoops THEN TrustSites ELSE TlsSites

LEMMA RolledBackIInv ==
    ASSUME IInv, NEW here \in {"trust undo", "tls undo"}, NEW mine, mine = Mine(here),
           RolledBack(here, mine), UNCHANGED <<requested, runtimeVars>>
    PROVE  IInv'
  <1>1. pc = here /\ todo = <<>> /\ known' = known \ mine /\ pc' = "returned" /\ ok' = FALSE
        /\ UNCHANGED <<site, saved, todo, owing, refusals, requested, at, before, sessions>>
      BY DEF RolledBack, Return, runtimeVars
  <1>2. \/ here = "trust undo" /\ mine = TrustSites
        \/ here = "tls undo" /\ mine = TlsSites
      BY DEF Mine, TrustLoops
  <1>3. \A s \in mine \ owing : site[s] = "stock"
      BY <1>1, <1>2, NoneLeft DEF IInv, DoneFits
  <1>4. ForgottenIsClean'
      BY <1>1, <1>3 DEF IInv, ForgottenIsClean
  <1>5. \A s \in known' : saved[s] = "stock"
      BY <1>1, <1>2 DEF IInv, TypeOK, SavedFits, SavedIsStock, Sites
  <1>6. known' \subseteq Sites /\ \A i \in DOMAIN todo' : todo'[i] \in known'
    <2>1. known' \subseteq known /\ known \subseteq Sites /\ todo' = todo
        BY <1>1 DEF IInv, TypeOK
    <2>2. \A s : ~In(s, todo)
        BY <1>1, NoneLeft
    <2> QED BY <2>1, <2>2 DEF In
  <1>7. TypeOK'
      BY <1>1, <1>2, <1>6, Places DEF IInv, TypeOK, Labels, TrustLabels, TlsLabels
  <1> QED BY <1>1, <1>4, <1>5, <1>7
      DEF IInv, ListFits, KnownFits, SavedFits, SavedIsStock, DoneFits, TrustLoops, TlsLoops

LEMMA TrustUninstallIInv ==
    IInv /\ TrustUninstall /\ UNCHANGED <<requested, runtimeVars>> => IInv'
  <1> SUFFICES ASSUME IInv, TrustUninstall, UNCHANGED <<requested, runtimeVars>> PROVE IInv'
      OBVIOUS
  <1>1. /\ pc = "trust::uninstall" /\ pc' = "trust restore" /\ ok' = TRUE
        /\ todo' = When("cached") \o When("extended") \o When("header")
        /\ UNCHANGED <<site, known, saved, owing, refusals, requested, at, before, sessions>>
      BY DEF TrustUninstall, Go, runtimeVars
  <1>2. todo' \in Seq(Sites) /\ \A s : In(s, todo') <=> s \in TrustSites /\ s \in known
    <2>1. "cached" \in Sites /\ "extended" \in Sites /\ "header" \in Sites
        BY DEF Sites, TrustSites
    <2> DEFINE list == When("cached") \o When("extended") \o When("header")
    <2>2. /\ list \in Seq(Sites)
          /\ \A s : In(s, list) <=> s \in {"cached", "extended", "header"} /\ s \in known
        BY <2>1, UninstallVisits
    <2>3. todo' = list
        BY <1>1
    <2> HIDE DEF list
    <2> QED BY <2>2, <2>3 DEF TrustSites
  <1>3. \A i \in DOMAIN todo' : todo'[i] \in known'
      BY <1>1, <1>2 DEF In
  <1>4. TypeOK'
      BY <1>1, <1>2, <1>3, Places DEF IInv, TypeOK, Labels
  <1>5. \A s \in TrustSites \ owing' : ~In(s, todo') => site'[s] = "stock"
      BY <1>1, <1>2 DEF IInv, ForgottenIsClean, Sites
  <1> QED BY <1>1, <1>2, <1>4, <1>5
      DEF IInv, ListFits, KnownFits, SavedFits, SavedIsStock, DoneFits, ForgottenIsClean,
          TrustLoops, TlsLoops

LEMMA TlsUninstallIInv == IInv /\ TlsUninstall /\ UNCHANGED runtimeVars => IInv'
  <1> SUFFICES ASSUME IInv, TlsUninstall, UNCHANGED runtimeVars PROVE IInv'
      OBVIOUS
  <1>1. /\ pc = "tls::uninstall" /\ pc' = "tls restore" /\ ok' = TRUE
        /\ todo' = When("peer") \o When("host") \o When("getter")
        /\ UNCHANGED <<site, known, saved, owing, refusals, requested, at, before, sessions>>
      BY DEF TlsUninstall, Go, runtimeVars
  <1>2. todo' \in Seq(Sites) /\ \A s : In(s, todo') <=> s \in TlsSites /\ s \in known
    <2>1. "peer" \in Sites /\ "host" \in Sites /\ "getter" \in Sites
        BY DEF Sites, TlsSites
    <2> DEFINE list == When("peer") \o When("host") \o When("getter")
    <2>2. /\ list \in Seq(Sites)
          /\ \A s : In(s, list) <=> s \in {"peer", "host", "getter"} /\ s \in known
        BY <2>1, UninstallVisits
    <2>3. todo' = list
        BY <1>1
    <2> HIDE DEF list
    <2> QED BY <2>2, <2>3 DEF TlsSites
  <1>3. \A i \in DOMAIN todo' : todo'[i] \in known'
      BY <1>1, <1>2 DEF In
  <1>4. TypeOK'
      BY <1>1, <1>2, <1>3, Places DEF IInv, TypeOK, Labels
  <1>5. \A s \in TlsSites \ owing' : ~In(s, todo') => site'[s] = "stock"
      BY <1>1, <1>2 DEF IInv, ForgottenIsClean, Sites
  <1> QED BY <1>1, <1>2, <1>4, <1>5
      DEF IInv, ListFits, KnownFits, SavedFits, SavedIsStock, DoneFits, ForgottenIsClean,
          TrustLoops, TlsLoops

LEMMA TakeOutIInv ==
    ASSUME IInv, NEW here \in {"trust restore", "tls restore"}, TakeOut(here),
           UNCHANGED <<requested, runtimeVars>>
    PROVE  IInv'
  <1> DEFINE s0 == Head(todo)
  <1>1. pc = here /\ pc' = here /\ todo # <<>> /\ todo \in Seq(Sites) /\ todo' = Tail(todo)
        /\ UNCHANGED <<known, saved, requested, at, before, sessions>>
      BY DEF TakeOut, Go, IInv, TypeOK, runtimeVars
  <1>2. PICK done \in BOOLEAN : Write(s0, saved[s0], done) /\ ok' = (done /\ ok)
      BY DEF TakeOut
  <1>3. s0 \in Sites /\ Tail(todo) \in Seq(Sites)
        /\ \A s : In(s, todo) <=> s = s0 \/ In(s, Tail(todo))
      BY <1>1, HeadLeaves
  <1>4. \A s : In(s, todo) => s \in Sites /\ s \in known
      BY TodoIsKnown DEF IInv
  <1>5. saved[s0] = "stock"
      BY <1>1, <1>3, <1>4 DEF IInv, SavedFits, SavedIsStock
  <1> HIDE DEF s0
  <1>6. /\ site' \in [Sites -> Bytes] /\ owing' \subseteq Sites /\ refusals' \in Nat
        /\ \A q \in Sites : q # s0 => site'[q] = site[q] /\ (q \in owing' <=> q \in owing)
        /\ done => site'[s0] = "stock"
      BY <1>1, <1>2, <1>3, <1>5, WriteFits DEF IInv, Bytes
  <1>7. \A i \in DOMAIN todo' : todo'[i] \in known'
      BY <1>1, <1>3, <1>4 DEF In
  <1>a. ok' \in BOOLEAN /\ (ok' => done /\ ok)
      BY <1>2
  <1>8. TypeOK'
      BY <1>1, <1>3, <1>6, <1>7, <1>a DEF IInv, TypeOK
  <1>9. ListFits' /\ KnownFits' /\ SavedFits'
      BY <1>1, <1>3 DEF IInv, ListFits, KnownFits, SavedFits, SavedIsStock, TrustLoops, TlsLoops
  <1>10. s0 \in known
      BY <1>3, <1>4
  <1>11. ForgottenIsClean'
      BY <1>1, <1>6, <1>10 DEF IInv, ForgottenIsClean
  <1>12. DoneFits'
      BY <1>1, <1>3, <1>6, <1>a DEF IInv, DoneFits, Sites
  <1> QED BY <1>8, <1>9, <1>11, <1>12 DEF IInv

LEMMA AllOutIInv ==
    ASSUME IInv, NEW here \in {"trust restore", "tls restore"}, NEW mine, mine = Mine(here),
           AllOut(here, mine), UNCHANGED <<requested, runtimeVars>>
    PROVE  IInv'
  <1>1. pc = here /\ todo = <<>> /\ known' = (IF ok THEN known \ mine ELSE known)
        /\ pc' = "returned" /\ ok' = ok
        /\ UNCHANGED <<site, saved, todo, owing, refusals, requested, at, before, sessions>>
      BY DEF AllOut, Return, runtimeVars
  <1>2. \/ here = "trust restore" /\ mine = TrustSites
        \/ here = "tls restore" /\ mine = TlsSites
      BY DEF Mine, TrustLoops
  <1>3. ok => \A s \in mine \ owing : site[s] = "stock"
      BY <1>1, <1>2, NoneLeft DEF IInv, DoneFits
  <1>4. ForgottenIsClean'
      BY <1>1, <1>3 DEF IInv, ForgottenIsClean
  <1>5. \A s \in known' : saved[s] = "stock"
      BY <1>1, <1>2 DEF IInv, TypeOK, SavedFits, SavedIsStock, Sites
  <1>6. known' \subseteq Sites /\ \A i \in DOMAIN todo' : todo'[i] \in known'
    <2>1. known' \subseteq known /\ known \subseteq Sites /\ todo' = todo
        BY <1>1 DEF IInv, TypeOK
    <2>2. \A s : ~In(s, todo)
        BY <1>1, NoneLeft
    <2> QED BY <2>1, <2>2 DEF In
  <1>7. TypeOK'
      BY <1>1, <1>2, <1>6, Places DEF IInv, TypeOK, Labels
  <1> QED BY <1>1, <1>4, <1>5, <1>7
      DEF IInv, ListFits, KnownFits, SavedFits, SavedIsStock, DoneFits, TrustLoops, TlsLoops

LEMMA NextIInv == IInv /\ [Next]_vars => IInv'
  <1> SUFFICES ASSUME IInv, [Next]_vars PROVE IInv'
      OBVIOUS
  <1>1. CASE Runtime
      BY <1>1, RuntimeIInv
  <1>2. CASE TrustInstall /\ UNCHANGED <<requested, runtimeVars>>
      BY <1>2, TrustInstallIInv
  <1>3. CASE TrustPatch /\ UNCHANGED <<requested, runtimeVars>>
      BY <1>3, TrustPatchIInv
  <1>4. CASE TrustUninstall /\ UNCHANGED <<requested, runtimeVars>>
      BY <1>4, TrustUninstallIInv
  <1>5. CASE TlsInstall /\ UNCHANGED runtimeVars
      BY <1>5, TlsInstallIInv
  <1>6. CASE PatchGetter /\ UNCHANGED runtimeVars
      BY <1>6, PatchGetterIInv
  <1>7. CASE Verify /\ UNCHANGED runtimeVars
      BY <1>7, VerifyIInv
  <1>8. CASE TlsPatch /\ UNCHANGED runtimeVars
      BY <1>8, TlsPatchIInv
  <1>9. CASE TlsUninstall /\ UNCHANGED runtimeVars
      BY <1>9, TlsUninstallIInv
  <1>10. ASSUME NEW here \in {"trust patch", "tls patch"}, AllIn(here),
                UNCHANGED <<requested, runtimeVars>>
         PROVE  IInv'
      BY <1>10, AllInIInv
  <1>11. ASSUME NEW here \in {"trust undo", "tls undo"}, RollBack(here),
                UNCHANGED <<requested, runtimeVars>>
         PROVE  IInv'
      BY <1>11, RollBackIInv
  <1>12. ASSUME NEW here \in {"trust undo", "tls undo"}, NEW mine, mine = Mine(here),
                RolledBack(here, mine), UNCHANGED <<requested, runtimeVars>>
         PROVE  IInv'
      BY <1>12, RolledBackIInv
  <1>13. ASSUME NEW here \in {"trust restore", "tls restore"}, TakeOut(here),
                UNCHANGED <<requested, runtimeVars>>
         PROVE  IInv'
      BY <1>13, TakeOutIInv
  <1>14. ASSUME NEW here \in {"trust restore", "tls restore"}, NEW mine, mine = Mine(here),
                AllOut(here, mine), UNCHANGED <<requested, runtimeVars>>
         PROVE  IInv'
      BY <1>14, AllOutIInv
  <1>15. CASE UNCHANGED vars
    <2>1. UNCHANGED <<site, known, saved, pc, todo, ok, owing, refusals, requested, at, before,
                      sessions>>
        BY <1>15 DEF vars, patchVars, runtimeVars
    <2>2. TypeOK'
        BY <2>1 DEF IInv, TypeOK
    <2> QED BY <2>1, <2>2 DEF IInv, ListFits, KnownFits, SavedFits, SavedIsStock, DoneFits,
                              ForgottenIsClean
  <1>16. CASE Trust /\ UNCHANGED <<requested, runtimeVars>>
      BY <1>2, <1>3, <1>4, <1>10, <1>11, <1>12, <1>13, <1>14, <1>16
         DEF Trust, Mine, TrustLoops
  <1>17. CASE Tls /\ UNCHANGED runtimeVars
      BY <1>5, <1>6, <1>7, <1>8, <1>9, <1>10, <1>11, <1>12, <1>13, <1>14, <1>17
         DEF Tls, Mine, TrustLoops
  <1> QED BY <1>1, <1>15, <1>16, <1>17 DEF Next

LEMMA Invariance == Spec => []IInv
  <1>1. Init => IInv
      BY InitIInv
  <1>2. IInv /\ [Next]_vars => IInv'
      BY NextIInv
  <1> QED BY <1>1, <1>2, PTL DEF Spec

(* Every variable keeps its type, the call in progress is where the        *)
(* runtime's place allows, and no call has a site before it whose address  *)
(* is not set.                                                             *)
THEOREM TypeCorrect == Spec => []TypeOK
  BY Invariance, PTL DEF IInv

(* What uninstall writes at a site it knows is the game's own code,        *)
(* whatever was refused before and whatever the configuration asked for.   *)
THEOREM RestoresTheStockCode == Spec => []SavedIsStock
  BY Invariance, PTL DEF IInv, SavedFits

(* uninstall forgets no patch that is still in the game, and install none  *)
(* but those whose write or roll-back Windows refused.                     *)
THEOREM ForgetsNoPatch == Spec => []ForgottenIsClean
  BY Invariance, PTL DEF IInv

--------------------------------------------------------------------------------
(* Sessions in which Windows refuses nothing.                              *)

NothingKnown ==
    \/ at = "down"
    \/ pc = "trust::install"
    \/ at = "trust" /\ pc = "returned" /\ ~ok
    \/ at = "close trust" /\ pc = "returned"

TrustKnown ==
    \/ at \in {"trust", "close trust"}
    \/ pc \in {"tls::install", "tls getter"}
    \/ at = "tls" /\ pc = "returned" /\ ~ok
    \/ at = "close tls" /\ pc = "returned"

Quiet ==
    /\ refusals <= MaxRefusals
    /\ refusals = MaxRefusals =>
          /\ owing = {}
          /\ pc \notin {"trust undo", "tls undo"}
          /\ pc \in Restoring => ok
          /\ NothingKnown => known = {}
          /\ TrustKnown => known \subseteq TrustSites

(* A refusal is spent for good.                                            *)
LEMMA Spent ==
    \A n, m \in Nat :
        n <= m =>
            /\ n > 0 => n - 1 <= m /\ n - 1 # m
            /\ \A k \in Nat : n = k + 1 => k <= m /\ k # m
  OBVIOUS

LEMMA QuietStep == IInv /\ Quiet /\ [Next]_vars => Quiet'
  <1> SUFFICES ASSUME IInv, Quiet, [Next]_vars PROVE Quiet'
      OBVIOUS
  <1> USE DEF NothingKnown, TrustKnown, Restoring
  <1>0. TypeOK /\ refusals \in Nat /\ MaxRefusals \in Nat
      BY CodePatchAssumption DEF IInv, TypeOK
  <1>a. refusals \in Nat /\ MaxRefusals \in Nat
      BY <1>0
  <1>1. CASE Runtime
      BY <1>0, <1>1, Places DEF Quiet, Runtime, Initialize, TrustReturned, TlsReturned,
         PrepareSku, Shutdown, TlsClosed, TrustClosed, Proceed
  <1>2. CASE TrustInstall /\ UNCHANGED <<requested, runtimeVars>>
      BY <1>0, <1>2, Places DEF Quiet, TrustInstall, Return, Go, TrustLabels, runtimeVars
  <1>3. CASE TlsInstall /\ UNCHANGED runtimeVars
      BY <1>0, <1>3, Places DEF Quiet, TlsInstall, Return, TlsLabels, runtimeVars
  <1>4. CASE PatchGetter /\ UNCHANGED runtimeVars
    <2>1. CASE "getter" \notin requested
        BY <1>0, <1>4, <2>1, Places DEF Quiet, PatchGetter, TlsLabels, runtimeVars
    <2>2. CASE "getter" \in requested
      <3>1. PICK done \in BOOLEAN :
              /\ Write("getter", "patched", done)
              /\ IF done THEN /\ known' = known \cup {"getter"}
                              /\ pc' = "tls verify" /\ UNCHANGED ok
                         ELSE Return(FALSE) /\ UNCHANGED known
          BY <1>4, <2>2 DEF PatchGetter
      <3>2. "getter" \in Sites /\ "patched" \in Bytes
          BY DEF Sites, TlsSites, Bytes
      <3>3. pc = "tls getter" /\ at' = "tls"
          BY <1>0, <1>4, Places DEF PatchGetter, TlsLabels, runtimeVars
      <3>4. CASE done
        <4>1. refusals' = refusals
            BY <3>1, <3>4 DEF Write
        <4>2. owing' = owing \ {"getter"} /\ pc' = "tls verify"
            BY <3>1, <3>4 DEF Write
        <4> QED BY <1>0, <3>3, <4>1, <4>2 DEF Quiet
      <3>5. CASE ~done
        <4>1. refusals = refusals' + 1 /\ refusals' \in Nat
            BY <1>0, <3>1, <3>2, <3>5, WriteFits
        <4>2. refusals <= MaxRefusals
            BY DEF Quiet
        <4>3. refusals' <= MaxRefusals /\ refusals' # MaxRefusals
            BY <1>a, <4>1, <4>2, Spent
        <4> QED BY <4>3 DEF Quiet
      <3> QED BY <3>4, <3>5
    <2> QED BY <2>1, <2>2
  <1>5. CASE Verify /\ UNCHANGED runtimeVars
      BY <1>0, <1>5, Places DEF Quiet, Verify, Return, Go, TlsLabels, runtimeVars, IInv,
         KnownFits, ForgottenIsClean, Sites, TlsSites
  <1>6. ASSUME NEW here \in {"trust patch", "tls patch", "trust undo", "tls undo",
                              "trust restore", "tls restore"},
               pc = here, todo # <<>>, UNCHANGED <<known, at>>,
               NEW new, NEW done \in BOOLEAN, Write(Head(todo), new, done),
               done => pc' = here,
               here \in Restoring => ok' = (done /\ ok)
        PROVE  Quiet'
    <2>1. CASE done
      <3>1. refusals' = refusals
          BY <1>6, <2>1 DEF Write
      <3>2. owing' \subseteq owing /\ pc' = pc
          BY <1>6, <2>1 DEF Write
      <3>3. pc \in Restoring => ok' = ok
          BY <1>0, <1>6, <2>1 DEF TypeOK
      <3> QED BY <1>0, <1>6, <3>1, <3>2, <3>3, Places DEF Quiet
    <2>2. CASE ~done
      <3>1. refusals > 0 /\ refusals' = refusals - 1
          BY <1>6, <2>2 DEF Write
      <3>2. refusals' <= MaxRefusals /\ refusals' # MaxRefusals
        <4>1. refusals <= MaxRefusals
            BY DEF Quiet
        <4> QED BY <1>a, <3>1, <4>1, Spent
      <3> QED BY <3>2 DEF Quiet
    <2> QED BY <2>1, <2>2
  <1>7. CASE TrustPatch /\ UNCHANGED <<requested, runtimeVars>>
      BY <1>6, <1>7 DEF TrustPatch, PutIn, Go, runtimeVars
  <1>8. CASE TlsPatch /\ UNCHANGED runtimeVars
      BY <1>6, <1>8 DEF TlsPatch, PutIn, Go, runtimeVars
  <1>9. ASSUME NEW here \in {"trust undo", "tls undo"}, RollBack(here), UNCHANGED runtimeVars
        PROVE  Quiet'
      BY <1>6, <1>9 DEF RollBack, Go, runtimeVars
  <1>10. ASSUME NEW here \in {"trust restore", "tls restore"}, TakeOut(here),
                UNCHANGED runtimeVars
         PROVE  Quiet'
      BY <1>6, <1>10 DEF TakeOut, Go, runtimeVars
  <1>11. ASSUME NEW here \in {"trust patch", "tls patch"}, AllIn(here), UNCHANGED runtimeVars
         PROVE  Quiet'
      BY <1>0, <1>11, Places DEF Quiet, AllIn, Return, runtimeVars, TrustLabels, TlsLabels
  <1>12. ASSUME NEW here \in {"trust undo", "tls undo"}, NEW mine, RolledBack(here, mine)
         PROVE  Quiet'
    <2>1. refusals # MaxRefusals /\ refusals' = refusals
        BY <1>12 DEF Quiet, RolledBack
    <2> QED BY <2>1 DEF Quiet
  <1>13. CASE TrustUninstall /\ UNCHANGED <<requested, runtimeVars>>
      BY <1>0, <1>13, Places DEF Quiet, TrustUninstall, Go, runtimeVars
  <1>14. CASE TlsUninstall /\ UNCHANGED runtimeVars
      BY <1>0, <1>14, Places DEF Quiet, TlsUninstall, Go, runtimeVars
  <1>15. CASE AllOut("trust restore", TrustSites) /\ UNCHANGED runtimeVars
      BY <1>0, <1>15, Places DEF Quiet, AllOut, Return, runtimeVars
  <1>16. CASE AllOut("tls restore", TlsSites) /\ UNCHANGED runtimeVars
    <2>1. known \subseteq TrustSites \cup TlsSites
        BY <1>0 DEF TypeOK, Sites
    <2> QED BY <1>0, <1>16, <2>1, Places DEF Quiet, AllOut, Return, runtimeVars
  <1>17. CASE UNCHANGED vars
      BY <1>17 DEF vars, patchVars, runtimeVars, Quiet
  <1> QED BY <1>1, <1>2, <1>3, <1>4, <1>5, <1>7, <1>8, <1>9, <1>10, <1>11, <1>12, <1>13, <1>14,
             <1>15, <1>16, <1>17 DEF Next, Trust, Tls

(* When Windows refuses nothing, the game's code is as it was whenever the *)
(* loader is down, whichever steps of its initializations failed.          *)
THEOREM QuietSessionsLeaveNothing == Spec => []DownIsStock
  <1>1. Init => Quiet
      BY CodePatchAssumption DEF Init, Quiet, NothingKnown, TrustKnown, Restoring
  <1>2. IInv /\ Quiet /\ [Next]_vars => Quiet'
      BY QuietStep
  <1>3. IInv /\ Quiet => DownIsStock
      BY DEF IInv, Quiet, NothingKnown, ForgottenIsClean, DownIsStock
  <1> QED BY <1>1, <1>2, <1>3, Invariance, PTL DEF Spec

--------------------------------------------------------------------------------
(* Sessions that begin without leftovers.                                  *)

TrustFresh ==
    before \cap TrustSites = {} =>
        /\ pc = "trust::install" => known \cap TrustSites = {}
        /\ pc = "trust patch" => \A s \in TrustSites : ~In(s, todo) => site[s] = "patched"
        /\ at \in {"tls", "sku", "up"} \/ (at = "trust" /\ pc = "returned" /\ ok) =>
              \A s \in TrustSites : site[s] = "patched"

TlsFresh ==
    before \cap TlsSites = {} =>
        /\ at = "trust" \/ pc = "tls::install" => known \cap TlsSites = {}
        /\ at \in {"tls", "sku", "up"} => known \cap TlsSites \subseteq requested
        /\ pc = "tls verify" /\ "getter" \in requested => site["getter"] = "patched"
        /\ pc = "tls patch" =>
              \A s \in requested : ~In(s, todo) => site[s] = "patched"
        /\ at \in {"sku", "up"} \/ (at = "tls" /\ pc = "returned" /\ ok) =>
              \A s \in requested : site[s] = "patched"

(* A step that writes one site leaves the other component's sites alone.   *)
LEMMA LoopWrites ==
    ASSUME IInv, NEW here \in TrustLoops \cup TlsLoops, pc = here, todo # <<>>,
           NEW new, NEW done \in BOOLEAN, Write(Head(todo), new, done)
    PROVE  /\ \A s \in Sites : s # Head(todo) => site'[s] = site[s]
           /\ done => site'[Head(todo)] = new
           /\ here \in TrustLoops => Head(todo) \in TrustSites
           /\ here \in TlsLoops => Head(todo) \in TlsSites
           /\ \A s : In(s, todo) <=> s = Head(todo) \/ In(s, Tail(todo))
  <1>1. Head(todo) \in Sites /\ \A s : In(s, todo) <=> s = Head(todo) \/ In(s, Tail(todo))
      BY HeadLeaves DEF IInv, TypeOK
  <1>2. /\ here \in TrustLoops => Head(todo) \in TrustSites
        /\ here \in TlsLoops => Head(todo) \in TlsSites
      BY <1>1 DEF IInv, ListFits
  <1>3. PICK bytes \in (IF done THEN {new} ELSE {site[Head(todo)], new}) :
            site' = [site EXCEPT ![Head(todo)] = bytes]
      BY DEF Write
  <1>4. \A s \in Sites : s # Head(todo) => site'[s] = site[s]
      BY <1>1, <1>3 DEF IInv, TypeOK
  <1>5. done => site'[Head(todo)] = new
      BY <1>1, <1>3 DEF IInv, TypeOK
  <1> QED BY <1>1, <1>2, <1>4, <1>5

LEMMA Disjoint == \A s : s \in TrustSites => s \notin TlsSites /\ s \in Sites
  BY DEF TrustSites, TlsSites, Sites

LEMMA RequestedSites == \A r \in Requests :
    r \subseteq TlsSites /\ ("host" \in r <=> "peer" \in r)
  BY DEF Requests, TlsSites

LEMMA TrustFreshStep == IInv /\ TrustFresh /\ [Next]_vars => TrustFresh'
  <1> SUFFICES ASSUME IInv, TrustFresh, [Next]_vars, before' \cap TrustSites = {}
               PROVE  TrustFresh'
      BY DEF TrustFresh
  <1>0. TypeOK
      BY DEF IInv
  <1>1. CASE Runtime
    <2>1. CASE Initialize
        BY <2>1 DEF TrustFresh, Initialize, Proceed
    <2>2. CASE ~Initialize
        BY <1>0, <1>1, <2>2, Places DEF TrustFresh, Runtime, TrustReturned, TlsReturned,
           PrepareSku, Shutdown, TlsClosed, TrustClosed, Proceed
    <2> QED BY <2>1, <2>2
  <1>2. CASE TrustInstall /\ UNCHANGED <<requested, runtimeVars>>
    <2>1. pc = "trust::install" /\ at' = "trust" /\ before' = before /\ site' = site
        BY <1>0, <1>2, Places DEF TrustInstall, runtimeVars, TrustLabels
    <2>2. ~(TrustSites \subseteq known)
        BY <2>1 DEF TrustFresh, TrustSites
    <2>3. CASE pc' = "returned" /\ ok' = FALSE
        BY <2>1, <2>3 DEF TrustFresh
    <2>4. CASE pc' = "trust patch" /\ todo' = <<"header", "extended", "cached">>
      <3>1. \A s : In(s, <<"header", "extended", "cached">>)
                      <=> s \in {"header", "extended", "cached"}
          BY DEF In
      <3>2. \A s \in TrustSites : In(s, todo')
          BY <2>4, <3>1 DEF TrustSites
      <3> QED BY <2>1, <2>4, <3>2 DEF TrustFresh
    <2> QED BY <1>2, <2>2, <2>3, <2>4 DEF TrustInstall, Return, Go
  <1>3. CASE TrustPatch /\ UNCHANGED <<requested, runtimeVars>>
    <2>1. pc = "trust patch" /\ todo # <<>> /\ at' = "trust" /\ before' = before
        BY <1>0, <1>3, Places DEF TrustPatch, PutIn, runtimeVars, TrustLabels
    <2>2. PICK done \in BOOLEAN :
             /\ Write(Head(todo), "patched", done)
             /\ IF done THEN Go("trust patch", Tail(todo))
                        ELSE Go("trust undo", TrustPatched(Head(todo)))
        BY <1>3 DEF TrustPatch, PutIn
    <2>3. CASE done
      <3>1. pc' = "trust patch" /\ todo' = Tail(todo)
          BY <2>2, <2>3 DEF Go
      <3>2. /\ \A s \in Sites : s # Head(todo) => site'[s] = site[s]
            /\ site'[Head(todo)] = "patched"
            /\ \A s : In(s, todo) <=> s = Head(todo) \/ In(s, Tail(todo))
          BY <2>1, <2>2, <2>3, LoopWrites DEF TrustLoops
      <3> QED BY <2>1, <3>1, <3>2, Disjoint DEF TrustFresh
    <2>4. CASE ~done
        BY <2>1, <2>2, <2>4 DEF TrustFresh, Go
    <2> QED BY <2>3, <2>4
  <1>4. CASE AllIn("trust patch") /\ UNCHANGED <<requested, runtimeVars>>
      BY <1>0, <1>4, Places, NoneLeft DEF AllIn, Return, runtimeVars, TrustLabels, TrustFresh
  <1>5. CASE RolledBack("trust undo", TrustSites) /\ UNCHANGED <<requested, runtimeVars>>
      BY <1>0, <1>5, Places DEF RolledBack, Return, runtimeVars, TrustLabels, TrustFresh
  <1>6. ASSUME NEW here \in {"trust undo", "trust restore"}, pc = here, pc' = here,
               UNCHANGED runtimeVars
        PROVE  TrustFresh'
      BY <1>0, <1>6, Places DEF runtimeVars, TrustLabels, TrustFresh
  <1>7. CASE (TrustUninstall \/ AllOut("trust restore", TrustSites))
             /\ UNCHANGED <<requested, runtimeVars>>
      BY <1>0, <1>7, Places
         DEF TrustUninstall, AllOut, Go, Return, runtimeVars, TrustLabels, TrustFresh
  <1>8. ASSUME UNCHANGED runtimeVars, at \in {"tls", "close tls"},
               \A s \in TrustSites : site'[s] = site[s],
               pc' \notin {"trust::install", "trust patch"}
        PROVE  TrustFresh'
      BY <1>8 DEF runtimeVars, TrustFresh
  <1>9. CASE (TlsInstall \/ Verify \/ TlsUninstall \/ AllIn("tls patch")
                \/ RolledBack("tls undo", TlsSites) \/ AllOut("tls restore", TlsSites))
             /\ UNCHANGED runtimeVars
      BY <1>0, <1>8, <1>9, Places
         DEF TlsInstall, Verify, TlsUninstall, AllIn, RolledBack, AllOut, Go, Return, TlsLabels
  <1>10. CASE PatchGetter /\ UNCHANGED runtimeVars
    <2>1. \A s \in TrustSites : site'[s] = site[s]
        BY <1>0, <1>10, Disjoint DEF PatchGetter, Write, TypeOK, TlsSites
    <2> QED BY <1>0, <1>8, <1>10, <2>1, Places DEF PatchGetter, Return, TlsLabels
  <1>11. ASSUME NEW here \in TlsLoops, pc = here, todo # <<>>, UNCHANGED runtimeVars,
                pc' \in TlsLoops, NEW new, NEW done \in BOOLEAN, Write(Head(todo), new, done)
         PROVE  TrustFresh'
    <2>1. \A s \in TrustSites : site'[s] = site[s]
        BY <1>11, LoopWrites, Disjoint
    <2>2. at \in {"tls", "close tls"}
        BY <1>0, <1>11, Places DEF TlsLoops, TlsLabels
    <2> QED BY <1>8, <1>11, <2>1, <2>2 DEF TlsLoops
  <1>12. CASE (TlsPatch \/ RollBack("tls undo") \/ TakeOut("tls restore"))
              /\ UNCHANGED runtimeVars
      BY <1>11, <1>12 DEF TlsPatch, PutIn, RollBack, TakeOut, Go, TlsLoops
  <1>13. CASE (RollBack("trust undo") \/ TakeOut("trust restore"))
              /\ UNCHANGED <<requested, runtimeVars>>
      BY <1>6, <1>13 DEF RollBack, TakeOut, Go, runtimeVars
  <1>14. CASE UNCHANGED vars
      BY <1>14 DEF vars, patchVars, runtimeVars, TrustFresh
  <1> QED BY <1>1, <1>2, <1>3, <1>4, <1>5, <1>7, <1>9, <1>10, <1>12, <1>13, <1>14
      DEF Next, Trust, Tls

LEMMA TlsFreshStep == IInv /\ TlsFresh /\ [Next]_vars => TlsFresh'
  <1> SUFFICES ASSUME IInv, TlsFresh, [Next]_vars, before' \cap TlsSites = {}
               PROVE  TlsFresh'
      BY DEF TlsFresh
  <1>0. TypeOK /\ requested \in Requests
      BY DEF IInv, TypeOK
  <1>1. CASE Runtime
    <2>1. CASE Initialize
        BY <2>1 DEF TlsFresh, Initialize, Proceed
    <2>2. CASE ~Initialize
        BY <1>0, <1>1, <2>2, Places DEF TlsFresh, Runtime, TrustReturned, TlsReturned,
           PrepareSku, Shutdown, TlsClosed, TrustClosed, Proceed
    <2> QED BY <2>1, <2>2
  <1>2. ASSUME UNCHANGED <<requested, runtimeVars>>, at \in {"trust", "close trust"},
               known' \cap TlsSites = known \cap TlsSites,
               pc' \notin {"tls::install", "tls verify", "tls patch"}
        PROVE  TlsFresh'
      BY <1>2 DEF TlsFresh, runtimeVars
  <1>3. CASE Trust /\ UNCHANGED <<requested, runtimeVars>>
    <2>1. at \in {"trust", "close trust"}
        BY <1>0, <1>3, Places DEF Trust, TrustInstall, TrustPatch, PutIn, AllIn, RollBack,
           RolledBack, TrustUninstall, TakeOut, AllOut, TrustLabels
    <2>2. known' \cap TlsSites = known \cap TlsSites
        BY <1>3, Disjoint DEF Trust, TrustInstall, TrustPatch, PutIn, AllIn, RollBack,
           RolledBack, TrustUninstall, TakeOut, AllOut
    <2>3. pc' \notin {"tls::install", "tls verify", "tls patch"}
        BY <1>3 DEF Trust, TrustInstall, TrustPatch, PutIn, AllIn, RollBack,
           RolledBack, TrustUninstall, TakeOut, AllOut, Go, Return
    <2> QED BY <1>2, <1>3, <2>1, <2>2, <2>3
  <1>4. CASE TlsInstall /\ UNCHANGED runtimeVars
    <2>1. pc = "tls::install" /\ at = "tls" /\ UNCHANGED <<known, site, at, before>>
        BY <1>0, <1>4, Places DEF TlsInstall, runtimeVars, TlsLabels
    <2>2. known \cap TlsSites = {}
        BY <2>1 DEF TlsFresh
    <2>3. \/ pc' = "returned" /\ ok' = TRUE /\ requested' = {}
          \/ pc' = "returned" /\ ok' = FALSE
          \/ pc' = "tls getter"
        BY <1>4, <2>2 DEF TlsInstall, Return
    <2> QED BY <2>1, <2>2, <2>3 DEF TlsFresh
  <1>5. CASE PatchGetter /\ UNCHANGED runtimeVars
    <2>1. pc = "tls getter" /\ at = "tls" /\ UNCHANGED <<todo, requested, at, before>>
        BY <1>0, <1>5, Places DEF PatchGetter, runtimeVars, TlsLabels
    <2>2. CASE "getter" \notin requested
        BY <1>5, <2>1, <2>2 DEF PatchGetter, TlsFresh
    <2>3. CASE "getter" \in requested
      <3>1. PICK done \in BOOLEAN :
              /\ Write("getter", "patched", done)
              /\ IF done THEN /\ known' = known \cup {"getter"}
                              /\ pc' = "tls verify" /\ UNCHANGED ok
                         ELSE Return(FALSE) /\ UNCHANGED known
          BY <1>5, <2>3 DEF PatchGetter
      <3>2. CASE done
        <4>1. pc' = "tls verify" /\ known' = known \cup {"getter"}
            BY <3>1, <3>2
        <4>2. site'["getter"] = "patched"
            BY <1>0, <3>1, <3>2 DEF Write, TypeOK, Sites, TlsSites
        <4> QED BY <2>1, <2>3, <4>1, <4>2 DEF TlsFresh
      <3>3. CASE ~done
          BY <2>1, <3>1, <3>3 DEF TlsFresh, Return
      <3> QED BY <3>2, <3>3
    <2> QED BY <2>2, <2>3
  <1>6. CASE Verify /\ UNCHANGED runtimeVars
    <2>1. pc = "tls verify" /\ at = "tls" /\ UNCHANGED <<site, requested, at, before>>
        BY <1>0, <1>6, Places DEF Verify, runtimeVars, TlsLabels
    <2>2. requested \subseteq TlsSites /\ ("host" \in requested <=> "peer" \in requested)
        BY <1>0, RequestedSites
    <2>3. CASE "host" \notin requested
      <3>1. pc' = "returned" /\ known' = known
          BY <1>6, <2>3 DEF Verify, Return
      <3>2. \A s \in requested : s = "getter"
          BY <2>2, <2>3 DEF TlsSites
      <3> QED BY <2>1, <3>1, <3>2 DEF TlsFresh
    <2>4. CASE "host" \in requested
      <3>1. known' = known \cup {"host", "peer"}
          BY <1>6, <2>4 DEF Verify
      <3>2. known' \cap TlsSites \subseteq requested
          BY <2>1, <2>2, <2>4, <3>1 DEF TlsFresh
      <3>3. CASE pc' = "tls undo"
          BY <2>1, <3>2, <3>3 DEF TlsFresh
      <3>4. CASE pc' = "tls patch" /\ todo' = <<"host", "peer">>
        <4>1. \A s : In(s, <<"host", "peer">>) <=> s \in {"host", "peer"}
            BY DEF In
        <4>2. \A s \in requested : ~In(s, todo') => s = "getter"
            BY <2>2, <3>4, <4>1 DEF TlsSites
        <4> QED BY <2>1, <3>2, <3>4, <4>2 DEF TlsFresh
      <3> QED BY <1>6, <2>4, <3>3, <3>4 DEF Verify, Go
    <2> QED BY <2>3, <2>4
  <1>7. CASE TlsPatch /\ UNCHANGED runtimeVars
    <2>1. pc = "tls patch" /\ todo # <<>> /\ at = "tls"
          /\ UNCHANGED <<known, requested, at, before>>
        BY <1>0, <1>7, Places DEF TlsPatch, PutIn, runtimeVars, TlsLabels
    <2>2. PICK done \in BOOLEAN :
             /\ Write(Head(todo), "patched", done)
             /\ IF done THEN Go("tls patch", Tail(todo)) ELSE Go("tls undo", TlsPatched)
        BY <1>7 DEF TlsPatch, PutIn
    <2>3. CASE done
      <3>1. pc' = "tls patch" /\ todo' = Tail(todo)
          BY <2>2, <2>3 DEF Go
      <3>2. /\ \A s \in Sites : s # Head(todo) => site'[s] = site[s]
            /\ site'[Head(todo)] = "patched"
            /\ \A s : In(s, todo) <=> s = Head(todo) \/ In(s, Tail(todo))
          BY <2>1, <2>2, <2>3, LoopWrites DEF TlsLoops
      <3>3. requested \subseteq Sites
          BY <1>0, RequestedSites DEF Sites
      <3> QED BY <2>1, <3>1, <3>2, <3>3 DEF TlsFresh
    <2>4. CASE ~done
        BY <2>1, <2>2, <2>4 DEF TlsFresh, Go
    <2> QED BY <2>3, <2>4
  <1>8. CASE AllIn("tls patch") /\ UNCHANGED <<requested, runtimeVars>>
    <2>1. pc = "tls patch" /\ at = "tls" /\ pc' = "returned"
          /\ UNCHANGED <<known, site, requested, at, before>>
        BY <1>0, <1>8, Places DEF AllIn, Return, runtimeVars, TlsLabels
    <2>2. \A s : ~In(s, todo)
        BY <1>8, NoneLeft DEF AllIn
    <2> QED BY <2>1, <2>2 DEF TlsFresh
  <1>9. CASE RollBack("tls undo") /\ UNCHANGED <<requested, runtimeVars>>
      BY <1>0, <1>9, Places DEF RollBack, Go, TlsFresh, runtimeVars, TlsLabels
  <1>10. CASE RolledBack("tls undo", TlsSites) /\ UNCHANGED <<requested, runtimeVars>>
      BY <1>0, <1>10, Places DEF RolledBack, Return, TlsFresh, runtimeVars, TlsLabels
  <1>11. CASE (TlsUninstall \/ TakeOut("tls restore") \/ AllOut("tls restore", TlsSites))
              /\ UNCHANGED <<requested, runtimeVars>>
      BY <1>0, <1>11, Places
         DEF TlsUninstall, TakeOut, AllOut, Go, Return, TlsFresh, runtimeVars, TlsLabels
  <1>12. CASE UNCHANGED vars
      BY <1>12 DEF vars, patchVars, runtimeVars, TlsFresh
  <1> QED BY <1>1, <1>3, <1>4, <1>5, <1>6, <1>7, <1>8, <1>9, <1>10, <1>11, <1>12
      DEF Next, Tls, TlsUninstall

(* A session that begins without leftovers runs as configured, whatever    *)
(* Windows refused in the sessions before it.                              *)
THEOREM RunsAsRequested == Spec => []UpAsRequested
  <1>1. Init => TrustFresh /\ TlsFresh
      BY DEF Init, TrustFresh, TlsFresh
  <1>2. IInv /\ TrustFresh /\ [Next]_vars => TrustFresh'
      BY TrustFreshStep
  <1>3. IInv /\ TlsFresh /\ [Next]_vars => TlsFresh'
      BY TlsFreshStep
  <1>4. IInv /\ TrustFresh /\ TlsFresh => UpAsRequested
    <2> SUFFICES ASSUME IInv, TrustFresh, TlsFresh, at = "up" PROVE UpAsRequested
        BY DEF UpAsRequested
    <2>1. ASSUME before \cap TlsSites = {}, NEW s \in TlsSites \ (requested \cup owing)
          PROVE  site[s] = "stock"
      <3>1. s \notin known /\ s \in Sites
          BY <2>1 DEF TlsFresh, Sites
      <3> QED BY <2>1, <3>1 DEF IInv, ForgottenIsClean
    <2> QED BY <2>1 DEF UpAsRequested, TrustFresh, TlsFresh
  <1> QED BY <1>1, <1>2, <1>3, <1>4, Invariance, PTL DEF Spec

--------------------------------------------------------------------------------
(* The two components as gates.                                            *)

(* What is left of a component, as GatesNext sees it.                      *)
Left(gate) == \E s \in SitesOf(gate) : site[s] = "patched" \/ s \in known

TlsSteps == {"tls getter", "tls verify", "tls patch", "tls undo"}

(* A gate counts what is left of its component except while the call in     *)
(* progress writes.                                                        *)
TrustFits ==
    /\ TrustSites \subseteq known \/ TrustSites \cap known = {}
    /\ pc \in {"trust patch", "trust undo"} => "pkg" \notin gates
    /\ pc = "trust restore" /\ Left("pkg") => "pkg" \in gates
    /\ pc \notin TrustLoops => ("pkg" \in gates <=> Left("pkg"))

(* A site that an earlier session left patched, and that the install in     *)
(* progress will not write any more.                                       *)
Leftover ==
    \E s \in TlsSites :
        /\ site[s] = "patched"
        /\ pc = "tls getter" /\ s = "getter" => s \notin requested
        /\ pc = "tls verify" => s \notin known
        /\ pc = "tls patch" => s = "getter" /\ s \notin known
        /\ pc = "tls undo" => ~In(s, todo)

TlsFits ==
    /\ pc \in TlsSteps => requested # {}
    /\ pc = "tls verify" /\ "getter" \in requested => "getter" \in known
    /\ pc \in TlsSteps /\ "tls" \in gates => Leftover
    /\ pc = "tls restore" /\ Left("tls") => "tls" \in gates
    /\ pc \notin TlsSteps \cup {"tls restore"} => ("tls" \in gates <=> Left("tls"))

(* A step that does not return leaves the gates alone, one that returns     *)
(* sets its own and no other.                                              *)
LEMMA GatesMove ==
    ASSUME GatesNext, NEW gate
    PROVE  /\ ~(Returns /\ gate = GateAt(at)) => (gate \in gates' <=> gate \in gates)
           /\ Returns /\ gate = GateAt(at) => (gate \in gates' <=> Left(gate)')
  <1>1. CASE ~Returns
      BY <1>1 DEF GatesNext
  <1>2. CASE Returns
    <2>1. gates' = IF \E s \in SitesOf(GateAt(at)) : site'[s] = "patched" \/ s \in known'
                     THEN gates \cup {GateAt(at)} ELSE gates \ {GateAt(at)}
        BY <1>2 DEF GatesNext
    <2>2. CASE gate # GateAt(at)
        BY <2>1, <2>2
    <2>3. CASE gate = GateAt(at)
      <3>1. Left(gate)' <=>
              \E s \in SitesOf(GateAt(at)) : site'[s] = "patched" \/ s \in known'
          BY <2>3 DEF Left, SitesOf
      <3> QED BY <1>2, <2>1, <2>3, <3>1
    <2> QED BY <2>2, <2>3
  <1> QED BY <1>1, <1>2

(* What a call has to answer for when it returns.                          *)
LEMMA ReturnsAsGate ==
    ASSUME GatesNext, Returns, NEW gate, gate = GateAt(at), ok' \in BOOLEAN,
           Installing =>
             /\ gate \in gates => Left(gate)'
             /\ ok' /\ gate \notin gates => (Left(gate)' <=> Asked)
             /\ ~ok' => Asked
             /\ ~ok' /\ gate \notin gates /\ Left(gate)' => refusals' # MaxRefusals,
           ~Installing /\ Left(gate)' => gate \in gates /\ refusals' < MaxRefusals
    PROVE  IF Installing
             THEN /\ InstallGate(GateAt(at), Asked, TRUE, ok')
                  /\ refusals' = MaxRefusals => UNCHANGED faulty
             ELSE UninstallGate(GateAt(at), refusals' < MaxRefusals)
  <1>1. Left(gate)' <=> \E s \in SitesOf(gate) : site'[s] = "patched" \/ s \in known'
      BY DEF Left, SitesOf
  <1>2. /\ gates' = IF Left(gate)' THEN gates \cup {gate} ELSE gates \ {gate}
        /\ faulty' = IF Left(gate)' /\ (~Installing \/ (~ok' /\ gate \notin gates))
                       THEN faulty \cup {gate} ELSE faulty
      BY <1>1 DEF GatesNext
  <1>3. CASE ~Installing
    <2>1. CASE Left(gate)'
      <3>1. gates' = gates /\ faulty' = faulty \cup {gate}
          BY <1>2, <1>3, <2>1
      <3> QED BY <1>3, <2>1, <3>1 DEF UninstallGate
    <2>2. CASE ~Left(gate)'
        BY <1>2, <1>3, <2>2 DEF UninstallGate
    <2> QED BY <2>1, <2>2
  <1>4. CASE Installing
    <2>1. CASE gate \in gates
      <3>1. gates' = gates /\ faulty' = faulty
          BY <1>2, <1>4, <2>1
      <3> QED BY <1>4, <2>1, <3>1 DEF InstallGate
    <2>2. CASE gate \notin gates /\ ok'
      <3>1. faulty' = faulty /\ gates' = IF Asked THEN gates \cup {gate} ELSE gates
          BY <1>2, <1>4, <2>2
      <3> QED BY <1>4, <2>2, <3>1 DEF InstallGate
    <2>3. CASE gate \notin gates /\ ~ok'
      <3>1. CASE Left(gate)'
          BY <1>2, <1>4, <2>3, <3>1 DEF InstallGate
      <3>2. CASE ~Left(gate)'
        <4>1. gates' = gates /\ faulty' = faulty
            BY <1>2, <1>4, <2>3, <3>2
        <4> QED BY <1>4, <2>3, <4>1 DEF InstallGate
      <3> QED BY <3>1, <3>2
    <2> QED BY <2>1, <2>2, <2>3
  <1> QED BY <1>3, <1>4

(* A step of the runtime or of the other component leaves a gate as it is. *)
LEMMA SameGate ==
    ASSUME GatesNext, NEW gate, ~(Returns /\ gate = GateAt(at)),
           \A s \in SitesOf(gate) : site'[s] = site[s] /\ (s \in known' <=> s \in known)
    PROVE  (gate \in gates' <=> gate \in gates) /\ (Left(gate)' <=> Left(gate))
  <1>1. gate \in gates' <=> gate \in gates
      BY GatesMove
  <1>2. Left(gate)' <=> Left(gate)
      BY DEF Left, SitesOf
  <1> QED BY <1>1, <1>2

(* Where the steps of the two components are taken and what they can reach.*)
LEMMA TrustStep ==
    ASSUME IInv, Trust, UNCHANGED <<requested, runtimeVars>>
    PROVE  /\ at' = at /\ pc \notin TlsSteps \cup {"tls restore", "tls::install", "tls::uninstall"}
           /\ pc' \notin TlsSteps \cup {"tls restore"}
           /\ at \in {"trust", "close trust"} /\ pc # "returned"
           /\ \A s \in TlsSites : site'[s] = site[s] /\ (s \in known' <=> s \in known)
  <1>0. TypeOK
      BY DEF IInv
  <1>1. /\ at \in {"trust", "close trust"} /\ at' = at /\ pc # "returned"
        /\ pc \notin TlsSteps \cup {"tls restore", "tls::install", "tls::uninstall"}
        /\ pc' \notin TlsSteps \cup {"tls restore"}
      BY <1>0, Places DEF Trust, TrustInstall, TrustPatch, PutIn, AllIn, RollBack, RolledBack,
         TrustUninstall, TakeOut, AllOut, Go, Return, TrustLabels, TlsSteps, runtimeVars
  <1>2. \A s \in TlsSites : s \in known' <=> s \in known
      BY Disjoint DEF Trust, TrustInstall, TrustPatch, PutIn, AllIn, RollBack, RolledBack,
         TrustUninstall, TakeOut, AllOut
  <1>3. CASE TrustPatch \/ RollBack("trust undo") \/ TakeOut("trust restore")
    <2>1. PICK here \in TrustLoops, new \in {"patched", saved[Head(todo)]}, done \in BOOLEAN :
              pc = here /\ todo # <<>> /\ Write(Head(todo), new, done)
        BY <1>3 DEF TrustPatch, PutIn, RollBack, TakeOut, TrustLoops
    <2>2. \A s \in TlsSites : site'[s] = site[s]
        BY <2>1, LoopWrites, Disjoint DEF Sites
    <2> QED BY <1>1, <1>2, <2>2
  <1>4. CASE ~(TrustPatch \/ RollBack("trust undo") \/ TakeOut("trust restore"))
    <2>1. site' = site
        BY <1>4 DEF Trust, TrustInstall, AllIn, RolledBack, TrustUninstall, AllOut
    <2> QED BY <1>1, <1>2, <2>1
  <1> QED BY <1>3, <1>4

LEMMA TlsStep ==
    ASSUME IInv, Tls, UNCHANGED runtimeVars
    PROVE  /\ at' = at /\ at \in {"tls", "close tls"} /\ pc # "returned"
           /\ pc \notin TrustLoops /\ pc' \notin TrustLoops
           /\ \A s \in TrustSites : site'[s] = site[s] /\ (s \in known' <=> s \in known)
  <1>0. TypeOK
      BY DEF IInv
  <1>1. /\ at \in {"tls", "close tls"} /\ at' = at /\ pc # "returned"
        /\ pc \notin TrustLoops /\ pc' \notin TrustLoops
      BY <1>0, Places DEF Tls, TlsInstall, PatchGetter, Verify, TlsPatch, PutIn, AllIn, RollBack,
         RolledBack, TlsUninstall, TakeOut, AllOut, Go, Return, TlsLabels, TrustLoops, runtimeVars
  <1>2. \A s \in TrustSites : s \in known' <=> s \in known
    <2>1. \A s \in TrustSites : s \notin {"getter", "host", "peer"}
        BY DEF TrustSites
    <2> QED BY <2>1, Disjoint DEF Tls, TlsInstall, PatchGetter, Verify, TlsPatch, PutIn, AllIn,
         RollBack, RolledBack, TlsUninstall, TakeOut, AllOut
  <1>3. CASE TlsPatch \/ RollBack("tls undo") \/ TakeOut("tls restore")
    <2>1. PICK here \in TlsLoops, new \in {"patched", saved[Head(todo)]}, done \in BOOLEAN :
              pc = here /\ todo # <<>> /\ Write(Head(todo), new, done)
        BY <1>3 DEF TlsPatch, PutIn, RollBack, TakeOut, TlsLoops
    <2>2. \A s \in TrustSites : site'[s] = site[s]
        BY <2>1, LoopWrites, Disjoint DEF Sites
    <2> QED BY <1>1, <1>2, <2>2
  <1>4. CASE PatchGetter
    <2>1. \A s \in TrustSites : site'[s] = site[s]
        BY <1>0, <1>4, Disjoint DEF PatchGetter, Write, TypeOK, TlsSites
    <2> QED BY <1>1, <1>2, <2>1
  <1>5. CASE ~(TlsPatch \/ RollBack("tls undo") \/ TakeOut("tls restore") \/ PatchGetter)
    <2>1. site' = site
        BY <1>5 DEF Tls, TlsInstall, Verify, AllIn, RolledBack, TlsUninstall, AllOut
    <2> QED BY <1>1, <1>2, <2>1
  <1> QED BY <1>3, <1>4, <1>5

LEMMA RuntimeStep ==
    ASSUME TypeOK, Runtime
    PROVE  /\ UNCHANGED <<site, known, todo, requested>> /\ ~Returns
           /\ pc \in {"none", "returned"}
           /\ pc' \in {"none", "trust::install", "tls::install", "tls::uninstall",
                        "trust::uninstall"}
  BY Places DEF Runtime, Initialize, TrustReturned, TlsReturned, PrepareSku, Shutdown,
                TlsClosed, TrustClosed, Proceed, Returns

LEMMA StutterFits ==
    ASSUME UNCHANGED gateVars
    PROVE  (TrustFits => TrustFits') /\ (TlsFits => TlsFits')
  <1>1. UNCHANGED <<site, known, pc, todo, requested, gates>>
      BY DEF gateVars, vars, patchVars
  <1>2. /\ Left("pkg")' <=> Left("pkg")
        /\ Left("tls")' <=> Left("tls")
        /\ Leftover' <=> Leftover
      BY <1>1 DEF Left, SitesOf, Leftover, In
  <1> QED BY <1>1, <1>2 DEF TrustFits, TlsFits

LEMMA TrustFitsStep == IInv /\ TrustFits /\ [GatesNext]_gateVars => TrustFits'
  <1> SUFFICES ASSUME IInv, TrustFits, GatesNext PROVE TrustFits'
      BY StutterFits
  <1>0. TypeOK
      BY DEF IInv
  <1>a. SitesOf("pkg") = TrustSites
      BY DEF SitesOf
  <1>b. (TrustSites \subseteq known' \/ TrustSites \cap known' = {}) /\ pc' \notin TrustLoops
        /\ ("pkg" \in gates' <=> Left("pkg")') => TrustFits'
      BY DEF TrustFits, TrustLoops
  <1>1. CASE Runtime \/ (Tls /\ UNCHANGED runtimeVars)
    <2>1. /\ pc \notin TrustLoops /\ pc' \notin TrustLoops
          /\ ~(Returns /\ "pkg" = GateAt(at))
          /\ \A s \in TrustSites : site'[s] = site[s] /\ (s \in known' <=> s \in known)
        BY <1>0, <1>1, RuntimeStep, TlsStep DEF GateAt, TrustLoops
    <2>2. ("pkg" \in gates' <=> "pkg" \in gates) /\ (Left("pkg")' <=> Left("pkg"))
        BY <1>a, <2>1, SameGate
    <2>3. TrustSites \subseteq known' \/ TrustSites \cap known' = {}
        BY <2>1 DEF TrustFits
    <2> QED BY <1>b, <2>1, <2>2, <2>3 DEF TrustFits
  <1>2. CASE Trust /\ UNCHANGED <<requested, runtimeVars>>
    <2>1. at \in {"trust", "close trust"} /\ pc # "returned" /\ GateAt(at) = "pkg"
        BY <1>2, TrustStep DEF GateAt
    <2>2. TrustSites \subseteq known' \/ TrustSites \cap known' = {}
      <3>1. \/ known' = known
            \/ known' = known \cup TrustSites
            \/ known' = known \ TrustSites
          BY <1>2 DEF Trust, TrustInstall, TrustPatch, PutIn, AllIn, RollBack, RolledBack,
             TrustUninstall, TakeOut, AllOut
      <3> QED BY <3>1 DEF TrustFits
    <2>3. CASE pc' = "returned"
      <3>1. "pkg" \in gates' <=> Left("pkg")'
          BY <2>1, <2>3, GatesMove DEF Returns
      <3> QED BY <1>b, <2>2, <2>3, <3>1 DEF TrustLoops
    <2>4. CASE pc' # "returned"
      <3>1. "pkg" \in gates' <=> "pkg" \in gates
          BY <2>4, GatesMove DEF Returns
      <3>2. CASE TrustInstall
        <4>1. pc' = "trust patch" /\ ~(TrustSites \subseteq known)
              /\ \A s \in TrustSites : site[s] = "stock"
            BY <2>4, <3>2 DEF TrustInstall, Return, Go
        <4>2. ~Left("pkg")
            BY <1>a, <4>1 DEF Left, TrustFits
        <4>3. "pkg" \notin gates
            BY <3>2, <4>2 DEF TrustFits, TrustInstall, TrustLoops
        <4> QED BY <2>2, <3>1, <4>1, <4>3 DEF TrustFits, TrustLoops
      <3>3. CASE TrustPatch \/ RollBack("trust undo")
        <4>1. pc \in {"trust patch", "trust undo"} /\ pc' \in {"trust patch", "trust undo"}
            BY <3>3 DEF TrustPatch, PutIn, RollBack, Go
        <4> QED BY <2>2, <3>1, <4>1 DEF TrustFits, TrustLoops
      <3>4. CASE TrustUninstall
        <4>1. pc = "trust::uninstall" /\ pc' = "trust restore" /\ UNCHANGED <<site, known>>
            BY <3>4 DEF TrustUninstall, Go
        <4>2. Left("pkg")' <=> Left("pkg")
            BY <4>1 DEF Left
        <4> QED BY <2>2, <3>1, <4>1, <4>2 DEF TrustFits, TrustLoops
      <3>5. CASE TakeOut("trust restore")
        <4>1. pc = "trust restore" /\ pc' = "trust restore" /\ todo # <<>>
            BY <3>5 DEF TakeOut, Go
        <4>2. Head(todo) \in TrustSites /\ Head(todo) \in known
          <5>1. PICK done \in BOOLEAN : Write(Head(todo), saved[Head(todo)], done)
              BY <3>5 DEF TakeOut
          <5>2. Head(todo) \in TrustSites /\ In(Head(todo), todo)
              BY <4>1, <5>1, LoopWrites DEF TrustLoops
          <5> QED BY <1>0, <5>2, TodoIsKnown
        <4>3. "pkg" \in gates
            BY <1>a, <4>1, <4>2 DEF Left, TrustFits
        <4> QED BY <2>2, <3>1, <4>1, <4>3 DEF TrustFits, TrustLoops
      <3> QED BY <1>2, <2>4, <3>2, <3>3, <3>4, <3>5
          DEF Trust, AllIn, RolledBack, AllOut, Return
    <2> QED BY <2>3, <2>4
  <1> QED BY <1>1, <1>2 DEF GatesNext, Next

(* An install, rolled back or not, does not write what is left over.       *)
LEMMA LeftoverStays ==
    ASSUME IInv, TlsFits, "tls" \in gates, UNCHANGED runtimeVars,
           PatchGetter \/ Verify \/ TlsPatch \/ RollBack("tls undo"), pc' \in TlsSteps
    PROVE  Leftover'
  <1>0. TypeOK /\ pc \in TlsSteps
      BY DEF IInv, PatchGetter, Verify, TlsPatch, PutIn, RollBack, TlsSteps
  <1>1. PICK s \in TlsSites :
            /\ site[s] = "patched"
            /\ pc = "tls getter" /\ s = "getter" => s \notin requested
            /\ pc = "tls verify" => s \notin known
            /\ pc = "tls patch" => s = "getter" /\ s \notin known
            /\ pc = "tls undo" => ~In(s, todo)
      BY <1>0 DEF TlsFits, Leftover
  <1>2. s \in Sites
      BY DEF Sites
  <1>3. CASE PatchGetter
    <2>1. pc = "tls getter" /\ pc' = "tls verify" /\ s \notin known
        BY <1>0, <1>3 DEF PatchGetter, Return, IInv, KnownFits, TlsSteps
    <2>2. CASE "getter" \in requested
      <3>1. s # "getter"
          BY <1>1, <2>1, <2>2
      <3>2. site'[s] = site[s] /\ s \notin known'
        <4>1. PICK done \in BOOLEAN :
                /\ Write("getter", "patched", done)
                /\ known' = known \cup {"getter"}
            BY <1>3, <2>1, <2>2 DEF PatchGetter, Return
        <4>2. site'[s] = site[s]
            BY <1>0, <1>2, <3>1, <4>1 DEF Write, TypeOK
        <4> QED BY <2>1, <3>1, <4>1, <4>2
      <3> QED BY <1>1, <2>1, <3>2 DEF Leftover
    <2>3. CASE "getter" \notin requested
      <3>1. site' = site /\ known' = known
          BY <1>3, <2>3 DEF PatchGetter
      <3> QED BY <1>1, <2>1, <3>1 DEF Leftover
    <2> QED BY <2>2, <2>3
  <1>4. CASE Verify
    <2>1. pc = "tls verify" /\ site' = site /\ s \notin known /\ "host" \in requested
        BY <1>1, <1>4 DEF Verify, Return, TlsSteps
    <2>2. CASE pc' = "tls patch"
      <3>1. site["host"] = "stock" /\ site["peer"] = "stock"
          BY <1>4, <2>1, <2>2 DEF Verify, Go
      <3>2. s = "getter"
          BY <1>1, <3>1 DEF TlsSites
      <3>3. s \notin known'
        <4>1. known' = known \cup {"host", "peer"}
            BY <1>4, <2>1 DEF Verify
        <4> QED BY <2>1, <3>2, <4>1
      <3> QED BY <1>1, <2>1, <2>2, <3>2, <3>3 DEF Leftover
    <2>3. CASE pc' = "tls undo" /\ todo' = When("getter")
      <3>1. "getter" \in Sites
          BY DEF Sites, TlsSites
      <3>2. ~In(s, When("getter"))
          BY <2>1, <3>1, WhenHolds
      <3> QED BY <1>1, <2>1, <2>3, <3>2 DEF Leftover
    <2> QED BY <1>4, <2>1, <2>2, <2>3 DEF Verify, Go
  <1>5. CASE TlsPatch
    <2>1. pc = "tls patch" /\ todo # <<>> /\ known' = known /\ s = "getter" /\ s \notin known
        BY <1>1, <1>5 DEF TlsPatch, PutIn
    <2>2. PICK done \in BOOLEAN :
             /\ Write(Head(todo), "patched", done)
             /\ IF done THEN Go("tls patch", Tail(todo)) ELSE Go("tls undo", TlsPatched)
        BY <1>5 DEF TlsPatch, PutIn
    <2>3. s # Head(todo)
      <3>1. In(Head(todo), todo)
          BY <1>0, <2>1, HeadLeaves DEF TypeOK
      <3> QED BY <1>0, <2>1, <3>1, TodoIsKnown
    <2>4. site'[s] = "patched"
        BY <1>1, <1>2, <2>1, <2>2, <2>3, LoopWrites DEF TlsLoops
    <2>5. CASE done
        BY <2>1, <2>2, <2>4, <2>5 DEF Leftover, Go
    <2>6. CASE ~done
      <3>1. {"host", "peer"} \subseteq known
          BY <2>1 DEF IInv, KnownFits
      <3>2. ~In(s, TlsPatched)
          BY <2>1, <3>1, TlsPatchedVisits
      <3> QED BY <2>1, <2>2, <2>4, <2>6, <3>2 DEF Leftover, Go
    <2> QED BY <2>5, <2>6
  <1>6. CASE RollBack("tls undo")
    <2>1. pc = "tls undo" /\ pc' = "tls undo" /\ todo # <<>> /\ todo' = Tail(todo) /\ ~In(s, todo)
        BY <1>1, <1>6 DEF RollBack, Go
    <2>2. PICK done \in BOOLEAN : Write(Head(todo), saved[Head(todo)], done)
        BY <1>6 DEF RollBack
    <2>3. /\ \A q \in Sites : q # Head(todo) => site'[q] = site[q]
          /\ \A q : In(q, todo) <=> q = Head(todo) \/ In(q, Tail(todo))
        BY <2>1, <2>2, LoopWrites DEF TlsLoops
    <2> QED BY <1>1, <1>2, <2>1, <2>3 DEF Leftover
  <1> QED BY <1>3, <1>4, <1>5, <1>6

LEMMA TlsFitsStep == IInv /\ TlsFits /\ [GatesNext]_gateVars => TlsFits'
  <1> SUFFICES ASSUME IInv, TlsFits, GatesNext PROVE TlsFits'
      BY StutterFits
  <1>0. TypeOK
      BY DEF IInv
  <1>a. SitesOf("tls") = TlsSites
      BY DEF SitesOf
  <1>b. pc' \notin TlsSteps \cup {"tls restore"} /\ ("tls" \in gates' <=> Left("tls")')
          => TlsFits'
      BY DEF TlsFits, TlsSteps
  <1>1. CASE Runtime \/ (Trust /\ UNCHANGED <<requested, runtimeVars>>)
    <2>1. /\ pc \notin TlsSteps \cup {"tls restore"} /\ pc' \notin TlsSteps \cup {"tls restore"}
          /\ ~(Returns /\ "tls" = GateAt(at))
          /\ \A s \in TlsSites : site'[s] = site[s] /\ (s \in known' <=> s \in known)
        BY <1>0, <1>1, RuntimeStep, TrustStep DEF GateAt, TlsSteps
    <2>2. ("tls" \in gates' <=> "tls" \in gates) /\ (Left("tls")' <=> Left("tls"))
        BY <1>a, <2>1, SameGate
    <2> QED BY <1>b, <2>1, <2>2 DEF TlsFits
  <1>2. CASE Tls /\ UNCHANGED runtimeVars
    <2>1. at \in {"tls", "close tls"} /\ pc # "returned" /\ GateAt(at) = "tls"
        BY <1>2, TlsStep DEF GateAt
    <2>2. CASE pc' = "returned"
      <3>1. "tls" \in gates' <=> Left("tls")'
          BY <2>1, <2>2, GatesMove DEF Returns
      <3> QED BY <1>b, <2>2, <3>1 DEF TlsSteps
    <2>3. CASE pc' # "returned"
      <3>1. "tls" \in gates' <=> "tls" \in gates
          BY <2>3, GatesMove DEF Returns
      <3>2. CASE TlsInstall
        <4>1. /\ pc = "tls::install" /\ pc' = "tls getter" /\ requested' # {}
              /\ known \cap TlsSites = {} /\ UNCHANGED <<site, known>>
              /\ "getter" \in requested' => site["getter"] = "stock"
            BY <2>3, <3>2 DEF TlsInstall, Return
        <4>2. ASSUME "tls" \in gates PROVE Leftover'
          <5>1. PICK s \in TlsSites : site[s] = "patched"
              BY <1>a, <4>1, <4>2 DEF TlsFits, TlsSteps, Left
          <5> QED BY <4>1, <5>1 DEF Leftover
        <4> QED BY <3>1, <4>1, <4>2 DEF TlsFits, TlsSteps
      <3>3. CASE PatchGetter \/ Verify \/ TlsPatch \/ RollBack("tls undo")
        <4>1. pc \in TlsSteps /\ pc' \in TlsSteps /\ requested' = requested
            BY <1>2, <2>3, <3>3
               DEF Tls, PatchGetter, Verify, TlsPatch, PutIn, RollBack, Go, Return, TlsSteps,
                   TlsInstall, TlsUninstall
        <4>2. pc' = "tls verify" /\ "getter" \in requested => "getter" \in known'
            BY <3>3 DEF PatchGetter, Verify, TlsPatch, PutIn, RollBack, Go, Return
        <4>3. "tls" \in gates => Leftover'
            BY <1>2, <3>3, <4>1, LeftoverStays
        <4> QED BY <3>1, <4>1, <4>2, <4>3 DEF TlsFits, TlsSteps
      <3>4. CASE TlsUninstall
        <4>1. pc = "tls::uninstall" /\ pc' = "tls restore" /\ UNCHANGED <<site, known>>
            BY <3>4 DEF TlsUninstall, Go
        <4>2. Left("tls")' <=> Left("tls")
            BY <4>1 DEF Left
        <4> QED BY <3>1, <4>1, <4>2 DEF TlsFits, TlsSteps
      <3>5. CASE TakeOut("tls restore")
        <4>1. pc = "tls restore" /\ pc' = "tls restore" /\ todo # <<>>
            BY <3>5 DEF TakeOut, Go
        <4>2. Head(todo) \in TlsSites /\ Head(todo) \in known
          <5>1. PICK done \in BOOLEAN : Write(Head(todo), saved[Head(todo)], done)
              BY <3>5 DEF TakeOut
          <5>2. Head(todo) \in TlsSites /\ In(Head(todo), todo)
              BY <4>1, <5>1, LoopWrites DEF TlsLoops
          <5> QED BY <1>0, <5>2, TodoIsKnown
        <4>3. "tls" \in gates
            BY <1>a, <4>1, <4>2 DEF Left, TlsFits
        <4> QED BY <3>1, <4>1, <4>3 DEF TlsFits, TlsSteps
      <3> QED BY <1>2, <2>3, <3>2, <3>3, <3>4, <3>5
          DEF Tls, AllIn, RolledBack, AllOut, Return
    <2> QED BY <2>2, <2>3
  <1> QED BY <1>1, <1>2 DEF GatesNext, Next

(* The calls' answers.                                                     *)
GatesAnswer ==
    Returns =>
        IF Installing
          THEN /\ InstallGate(GateAt(at), Asked, TRUE, ok')
               /\ refusals' = MaxRefusals => UNCHANGED faulty
          ELSE UninstallGate(GateAt(at), refusals' < MaxRefusals)

LEMMA Below == \A n, m \in Nat : n <= m /\ n # m => n < m
  OBVIOUS

(* An uninstall that leaves something behind has found it and was refused. *)
LEMMA UninstallAnswers ==
    ASSUME IInv, Quiet, NEW here \in Restoring, NEW gate,
           gate = IF here = "trust restore" THEN "pkg" ELSE "tls",
           AllOut(here, SitesOf(gate)), Left(gate)'
    PROVE  Left(gate) /\ refusals' < MaxRefusals
  <1>0. TypeOK /\ pc = here /\ todo = <<>> /\ UNCHANGED <<site, refusals>> /\ pc \in Restoring
      BY DEF IInv, AllOut
  <1>1. SitesOf(gate) = IF here = "trust restore" THEN TrustSites ELSE TlsSites
      BY DEF SitesOf
  <1>2. known' = IF ok THEN known \ SitesOf(gate) ELSE known
      BY DEF AllOut
  <1>3. PICK s \in SitesOf(gate) : site'[s] = "patched" \/ s \in known'
      BY DEF Left, SitesOf
  <1>4. Left(gate)
      BY <1>0, <1>2, <1>3 DEF Left
  <1>5. refusals # MaxRefusals
    <2>1. CASE ~ok
        BY <1>0, <2>1 DEF Quiet
    <2>2. CASE ok
      <3>1. site[s] = "patched" /\ ~In(s, todo)
          BY <1>0, <1>2, <1>3, <2>2, NoneLeft
      <3>2. s \in owing
          BY <1>0, <1>1, <1>3, <2>2, <3>1 DEF IInv, DoneFits, Restoring
      <3> QED BY <3>2 DEF Quiet
    <2> QED BY <2>1, <2>2
  <1>6. refusals \in Nat /\ MaxRefusals \in Nat /\ refusals <= MaxRefusals
      BY <1>0, CodePatchAssumption DEF TypeOK, Quiet
  <1>7. refusals < MaxRefusals
      BY <1>5, <1>6, Below
  <1> QED BY <1>0, <1>4, <1>7

(* Each way a call returns, against what Runtime reckons with.             *)
LEMMA TrustAnswers ==
    ASSUME IInv, IInv', Quiet, TrustFits, GatesNext, Returns,
           Trust, UNCHANGED <<requested, runtimeVars>>
    PROVE  GatesAnswer
  <1>0. TypeOK /\ ok' \in BOOLEAN /\ GateAt(at) = "pkg" /\ SitesOf("pkg") = TrustSites
      BY TrustStep DEF IInv, TypeOK, GateAt, SitesOf
  <1>1. CASE at = "trust"
    <2>1. Installing /\ Asked
        BY <1>1 DEF Installing, Asked
    <2>2. CASE TrustInstall
      <3>1. /\ UNCHANGED <<site, known>> /\ pc = "trust::install"
            /\ ok' => TrustSites \subseteq known
          BY <2>2 DEF TrustInstall, Return, Go, Returns
      <3>2. (Left("pkg")' <=> Left("pkg")) /\ ("pkg" \in gates <=> Left("pkg"))
          BY <3>1 DEF Left, TrustFits, TrustLoops
      <3>3. ok' => Left("pkg")
          BY <1>0, <3>1 DEF Left, TrustSites
      <3> QED BY <1>0, <2>1, <3>2, <3>3, ReturnsAsGate DEF GatesAnswer
    <2>3. CASE AllIn("trust patch")
      <3>1. ok' /\ "pkg" \notin gates /\ TrustSites \subseteq known'
          BY <2>3 DEF AllIn, Return, TrustFits, IInv, KnownFits
      <3>2. Left("pkg")'
          BY <1>0, <3>1 DEF Left, TrustSites, SitesOf
      <3> QED BY <1>0, <2>1, <3>1, <3>2, ReturnsAsGate DEF GatesAnswer
    <2>4. CASE RolledBack("trust undo", TrustSites)
      <3>1. ~ok' /\ "pkg" \notin gates /\ refusals' # MaxRefusals
          BY <2>4 DEF RolledBack, Return, TrustFits, Quiet
      <3> QED BY <1>0, <2>1, <3>1, ReturnsAsGate DEF GatesAnswer
    <2> QED BY <1>0, <1>1, <2>2, <2>3, <2>4, Places
        DEF Trust, TrustPatch, PutIn, RollBack, TrustUninstall, TakeOut, AllOut, Go, Returns
  <1>2. CASE at # "trust"
    <2>1. at = "close trust" /\ ~Installing
        BY <1>2, TrustStep DEF Installing
    <2>2. AllOut("trust restore", TrustSites)
        BY <1>0, <2>1, Places
           DEF Trust, TrustInstall, TrustPatch, PutIn, AllIn, RollBack, RolledBack,
               TrustUninstall, TakeOut, Go, Returns, TrustLabels
    <2>3. Left("pkg")' => Left("pkg") /\ refusals' < MaxRefusals
        BY <1>0, <2>2, UninstallAnswers DEF Restoring
    <2>4. Left("pkg")' => "pkg" \in gates
        BY <2>2, <2>3 DEF AllOut, TrustFits
    <2> QED BY <1>0, <2>1, <2>3, <2>4, ReturnsAsGate DEF GatesAnswer
  <1> QED BY <1>1, <1>2

LEMMA TlsAnswers ==
    ASSUME IInv, IInv', Quiet, Quiet', TlsFits, GatesNext, Returns,
           Tls, UNCHANGED runtimeVars
    PROVE  GatesAnswer
  <1>0. TypeOK /\ ok' \in BOOLEAN /\ GateAt(at) = "tls" /\ SitesOf("tls") = TlsSites
      BY TlsStep DEF IInv, TypeOK, GateAt, SitesOf
  <1>1. CASE at = "tls"
    <2>1. Installing /\ (Asked <=> requested' # {})
        BY <1>1 DEF Installing, Asked
    <2>2. CASE TlsInstall
      <3>1. /\ UNCHANGED <<site, known>> /\ pc = "tls::install"
            /\ \/ known \cap TlsSites # {} /\ ok'
               \/ known \cap TlsSites = {} /\ (ok' <=> requested' = {})
          BY <2>2 DEF TlsInstall, Return, Returns
      <3>2. (Left("tls")' <=> Left("tls")) /\ ("tls" \in gates <=> Left("tls"))
          BY <3>1 DEF Left, TlsFits, TlsSteps
      <3>3. known \cap TlsSites # {} => Left("tls")
          BY <1>0 DEF Left
      <3> QED BY <1>0, <2>1, <3>1, <3>2, <3>3, ReturnsAsGate DEF GatesAnswer
    <2>3. CASE PatchGetter
      <3>1. /\ pc = "tls getter" /\ "getter" \in requested /\ ~ok' /\ requested' = requested
            /\ known' = known
          BY <2>3 DEF PatchGetter, Return, Returns
      <3>2. Write("getter", "patched", FALSE) /\ "getter" \in Sites /\ "patched" \in Bytes
        <4>1. PICK done \in BOOLEAN :
                /\ Write("getter", "patched", done)
                /\ IF done THEN pc' = "tls verify" ELSE UNCHANGED known
            BY <2>3, <3>1 DEF PatchGetter
        <4>2. ~done
            BY <4>1 DEF Returns
        <4> QED BY <4>1, <4>2 DEF Sites, TlsSites, Bytes
      <3>3. refusals' # MaxRefusals
        <4>1. refusals' \in Nat /\ refusals = refusals' + 1
            BY <1>0, <3>2, WriteFits
        <4>2. MaxRefusals \in Nat /\ refusals \in Nat /\ refusals <= MaxRefusals
            BY <1>0, CodePatchAssumption DEF TypeOK, Quiet
        <4> QED BY <4>1, <4>2, Spent
      <3>4. ASSUME "tls" \in gates PROVE Left("tls")'
        <4>1. PICK s \in TlsSites : site[s] = "patched" /\ s # "getter"
            BY <3>1, <3>4 DEF TlsFits, TlsSteps, Leftover
        <4>2. s \in Sites
            BY DEF Sites
        <4>3. site'[s] = "patched"
            BY <1>0, <3>2, <4>1, <4>2, WriteFits
        <4> QED BY <1>0, <4>3 DEF Left, SitesOf
      <3> QED BY <1>0, <2>1, <3>1, <3>3, <3>4, ReturnsAsGate DEF GatesAnswer, TlsFits, TlsSteps
    <2>4. CASE Verify
      <3>1. /\ pc = "tls verify" /\ "host" \notin requested /\ ok'
            /\ UNCHANGED <<site, known, requested>>
          BY <2>4 DEF Verify, Return, Go, Returns
      <3>2. requested # {} /\ "getter" \in known
        <4>1. requested # {} /\ requested \in Requests
            BY <1>0, <3>1 DEF TypeOK, TlsFits, TlsSteps
        <4>2. "getter" \in requested
            BY <3>1, <4>1, RequestedSites DEF TlsSites
        <4> QED BY <3>1, <4>1, <4>2 DEF TlsFits
      <3>3. Left("tls")'
          BY <1>0, <3>1, <3>2 DEF Left, TlsSites, SitesOf
      <3> QED BY <1>0, <2>1, <3>1, <3>2, <3>3, ReturnsAsGate DEF GatesAnswer
    <2>5. CASE AllIn("tls patch") /\ UNCHANGED requested
      <3>1. /\ ok' /\ {"host", "peer"} \subseteq known' /\ requested' # {}
          BY <2>5 DEF AllIn, Return, TlsFits, TlsSteps, IInv, KnownFits
      <3>2. Left("tls")'
          BY <1>0, <3>1 DEF Left, TlsSites, SitesOf
      <3> QED BY <1>0, <2>1, <3>1, <3>2, ReturnsAsGate DEF GatesAnswer
    <2>6. CASE RolledBack("tls undo", TlsSites) /\ UNCHANGED requested
      <3>1. /\ pc = "tls undo" /\ ~ok' /\ requested' # {} /\ refusals' # MaxRefusals
            /\ site' = site
          BY <2>6 DEF RolledBack, Return, TlsFits, TlsSteps, Quiet
      <3>2. ASSUME "tls" \in gates PROVE Left("tls")'
        <4>1. PICK s \in TlsSites : site[s] = "patched"
            BY <3>1, <3>2 DEF TlsFits, TlsSteps, Leftover
        <4> QED BY <1>0, <3>1, <4>1 DEF Left, SitesOf
      <3> QED BY <1>0, <2>1, <3>1, <3>2, ReturnsAsGate DEF GatesAnswer
    <2> QED BY <1>0, <1>1, <2>2, <2>3, <2>4, <2>5, <2>6, Places
        DEF Tls, TlsPatch, PutIn, RollBack, TlsUninstall, TakeOut, AllOut, Go, Returns
  <1>2. CASE at # "tls"
    <2>1. at = "close tls" /\ ~Installing
        BY <1>2, TlsStep DEF Installing
    <2>2. AllOut("tls restore", TlsSites)
        BY <1>0, <2>1, Places
           DEF Tls, TlsInstall, PatchGetter, Verify, TlsPatch, PutIn, AllIn, RollBack,
               RolledBack, TlsUninstall, TakeOut, Go, Returns, TlsLabels
    <2>3. Left("tls")' => Left("tls") /\ refusals' < MaxRefusals
        BY <1>0, <2>2, UninstallAnswers DEF Restoring
    <2>4. Left("tls")' => "tls" \in gates
        BY <2>2, <2>3 DEF AllOut, TlsFits
    <2> QED BY <1>0, <2>1, <2>3, <2>4, ReturnsAsGate DEF GatesAnswer
  <1> QED BY <1>1, <1>2

(* GatesSpec watches Spec: what holds of the one holds of the other.        *)
LEMMA GatesSteps == (GatesInit => Init) /\ ([GatesNext]_gateVars => [Next]_vars)
  BY DEF GatesInit, GatesNext, gateVars

LEMMA GatesInvariant == GatesSpec => [](IInv /\ Quiet /\ TrustFits /\ TlsFits)
  <1>1. GatesInit => IInv /\ Quiet /\ TrustFits /\ TlsFits
    <2> SUFFICES ASSUME GatesInit PROVE IInv /\ Quiet /\ TrustFits /\ TlsFits
        OBVIOUS
    <2>1. IInv
        BY GatesSteps, InitIInv
    <2>2. Quiet
        BY CodePatchAssumption DEF GatesInit, Init, Quiet, NothingKnown, TrustKnown, Restoring
    <2>3. ~Left("pkg") /\ ~Left("tls") /\ gates = {} /\ known = {} /\ pc = "none"
      <3>1. \A s \in TrustSites \cup TlsSites : site[s] = "stock" /\ s \notin known
          BY DEF GatesInit, Init, Sites
      <3> QED BY <3>1 DEF GatesInit, Init, Left, SitesOf
    <2> QED BY <2>1, <2>2, <2>3 DEF TrustFits, TlsFits, TrustLoops, TlsSteps
  <1>2. IInv /\ Quiet /\ TrustFits /\ TlsFits /\ [GatesNext]_gateVars
           => IInv' /\ Quiet' /\ TrustFits' /\ TlsFits'
      BY GatesSteps, NextIInv, QuietStep, TrustFitsStep, TlsFitsStep
  <1> QED BY <1>1, <1>2, PTL DEF GatesSpec

(* Each call of install and uninstall of both components is one of the      *)
(* steps that Runtime is built from, however often Windows refused a write  *)
(* and whatever an earlier session left behind; and without a refused write *)
(* no call leaves a patch behind that it should have cleaned up.            *)
THEOREM CallsKeepTheContract == GatesSpec => CallsAreGateSteps
  <1>1. IInv /\ Quiet /\ TrustFits /\ TlsFits /\ [GatesNext]_gateVars => [GatesAnswer]_gateVars
    <2> SUFFICES ASSUME IInv, Quiet, TrustFits, TlsFits, GatesNext, Returns PROVE GatesAnswer
        BY DEF GatesAnswer
    <2>1. IInv' /\ Quiet'
        BY GatesSteps, NextIInv, QuietStep DEF GatesNext
    <2>2. ~Runtime
        BY RuntimeStep DEF IInv
    <2> QED BY <2>1, <2>2, TrustAnswers, TlsAnswers DEF GatesNext, Next
  <1> QED BY <1>1, GatesInvariant, PTL DEF GatesSpec, CallsAreGateSteps, GatesAnswer
================================================================================
