--------------------------- MODULE QueriesProofs ---------------------------
(***************************************************************************)
(* What the answers of the read side are worth, for every cache, query,    *)
(* set of roles and interleaving with the updates.                         *)
(***************************************************************************)
EXTENDS Queries, ScrapingProofs, FiniteSetTheorems

(***************************************************************************)
(* Sets.  FS_Image takes an operator; a function does.                     *)
(***************************************************************************)
LEMMA FiniteImage ==
  ASSUME NEW S, IsFiniteSet(S), NEW f
  PROVE  IsFiniteSet({f[x] : x \in S})
<1> DEFINE T == {f[x] : x \in S}
           g == [x \in S |-> f[x]]
<1>1. g \in Surjection(S, T)
  BY DEF Surjection
<1> QED BY <1>1, FS_Surjection

(* A union of three sets without common elements.                          *)
LEMMA ThreeParts ==
  ASSUME NEW S, NEW T, NEW U, IsFiniteSet(S), IsFiniteSet(T), IsFiniteSet(U),
         S \cap T = {}, S \cap U = {}, T \cap U = {}
  PROVE  /\ Cardinality(S) \in Nat /\ Cardinality(T) \in Nat /\ Cardinality(U) \in Nat
         /\ Cardinality(S) + Cardinality(T) + Cardinality(U) = Cardinality(S \cup T \cup U)
<1>1. IsFiniteSet(S \cup T) /\ Cardinality(S \cup T) = Cardinality(S) + Cardinality(T) - 0
  BY FS_Union, FS_EmptySet
<1>2. Cardinality((S \cup T) \cup U) = Cardinality(S \cup T) + Cardinality(U) - 0
  <2>1. (S \cup T) \cap U = {}
    OBVIOUS
  <2> QED BY <1>1, <2>1, FS_Union, FS_EmptySet
<1>3. Cardinality(S) \in Nat /\ Cardinality(T) \in Nat /\ Cardinality(U) \in Nat
  BY FS_CardinalityType
<1> QED BY <1>1, <1>2, <1>3

-----------------------------------------------------------------------------
(***************************************************************************)
(* The cache and its index, seen from a handler.                           *)
(***************************************************************************)
LEMMA EntriesOf ==
  ASSUME NEW cache
  PROVE  \A e : e \in Entries(cache) <=>
           \E o \in Origins, s \in Sources : \E a \in cache[o][s] : e = [origin |-> o, source |-> s, app |-> a]
BY DEF Entries

Wellformed(apps) == \A e \in apps : e.origin \in Origins /\ e.source \in Sources /\ e.app \in App

LEMMA EntriesWellformed ==
  ASSUME TypeOK
  PROVE  Wellformed(Entries(appStatusCache))
BY EntriesOf DEF TypeOK, Wellformed

(* The posting of an entry under a field.                                  *)
Posting(e, f) == [value |-> FieldValue(e.source, e.app, f), id |-> idOf(e), origin |-> e.origin]

LEMMA Postings ==
  ASSUME IndexBuilt, NEW f \in Fields
  PROVE  \A p : p \in appsByField[f] <=>
           \E e \in Entries(appStatusCache) : HasField(e.app, f) /\ p = Posting(e, f)
<1>1. appsByField[f] = indexField(appStatusCache, f)
  BY DEF IndexBuilt, updateLabelManager
<1>2. \A p : p \in indexField(appStatusCache, f) <=>
        \E o \in Origins, s \in Sources : \E a \in appStatusCache[o][s] :
          HasField(a, f) /\ p = [value |-> FieldValue(s, a, f), id |-> getUniqueID(s, a.name), origin |-> o]
  BY DEF indexField
<1>3. ASSUME NEW p, NEW o \in Origins, NEW s \in Sources, NEW a \in appStatusCache[o][s], HasField(a, f),
             p = [value |-> FieldValue(s, a, f), id |-> getUniqueID(s, a.name), origin |-> o]
      PROVE  \E e \in Entries(appStatusCache) : HasField(e.app, f) /\ p = Posting(e, f)
  <2> DEFINE e == [origin |-> o, source |-> s, app |-> a]
  <2>1. e \in Entries(appStatusCache)
    BY EntriesOf
  <2>2. e.app = a /\ e.source = s /\ e.origin = o
    OBVIOUS
  <2> HIDE DEF e
  <2> QED BY <1>3, <2>1, <2>2 DEF Posting, idOf
<1>4. ASSUME NEW p, NEW e \in Entries(appStatusCache), HasField(e.app, f), p = Posting(e, f)
      PROVE  \E o \in Origins, s \in Sources : \E a \in appStatusCache[o][s] :
               HasField(a, f) /\ p = [value |-> FieldValue(s, a, f), id |-> getUniqueID(s, a.name), origin |-> o]
  <2>1. PICK o \in Origins, s \in Sources :
          \E a \in appStatusCache[o][s] : e = [origin |-> o, source |-> s, app |-> a]
    BY EntriesOf
  <2>2. PICK a \in appStatusCache[o][s] : e = [origin |-> o, source |-> s, app |-> a]
    BY <2>1
  <2>3. e.app = a /\ e.source = s /\ e.origin = o
    BY <2>2
  <2>4. HasField(a, f) /\ p = [value |-> FieldValue(s, a, f), id |-> getUniqueID(s, a.name), origin |-> o]
    BY <1>4, <2>3 DEF Posting, idOf
  <2> QED BY <2>4
<1> QED BY <1>1, <1>2, <1>3, <1>4

(* Every update adds the apps of one batch at most, so the cache is finite *)
(* whatever sources and origins there may be.                              *)
LEMMA UpdatedEntries ==
  ASSUME TypeOK, IsFiniteSet(Entries(appStatusCache)), NEW s \in Sources, NEW batch \in Batches,
         UpdateAppStatus(s, batch)
  PROVE  IsFiniteSet(Entries(appStatusCache'))
<1> DEFINE new == [i \in DOMAIN batch |->
                     [origin |-> normalizeOriginURL(batch[i].originURL), source |-> s,
                      app |-> CachedForm(s, batch[i])]]
           added == {new[i] : i \in DOMAIN batch}
<1>1. IsFiniteSet(DOMAIN batch)
  <2>1. PICK n \in 0..MaxBatch : batch \in [1..n -> Reports]
    BY DEF Batches
  <2> QED BY <2>1, FS_Interval
<1>2. IsFiniteSet(added)
  <2> HIDE DEF new
  <2> QED BY <1>1, FiniteImage
<1>3. Entries(appStatusCache') \subseteq Entries(appStatusCache) \cup added
  <2> SUFFICES ASSUME NEW e \in Entries(appStatusCache')
               PROVE  e \in Entries(appStatusCache) \cup added
    OBVIOUS
  <2>a. PICK o \in Origins, t \in Sources :
          \E a \in appStatusCache'[o][t] : e = [origin |-> o, source |-> t, app |-> a]
    BY EntriesOf
  <2>b. PICK a \in appStatusCache'[o][t] : e = [origin |-> o, source |-> t, app |-> a]
    BY <2>a
  <2>1. CASE a \in appStatusCache[o][t]
    BY <2>b, <2>1, EntriesOf
  <2>2. CASE a \notin appStatusCache[o][t]
    <3>1. t = s /\ a \in appsByOrigin(s, batch, o)
      BY <2>2, UpdateEffect
    <3>2. PICK i \in LastIndicesFor(batch, o) : a = CachedForm(s, batch[i])
      BY <3>1 DEF appsByOrigin
    <3>3. i \in DOMAIN batch /\ normalizeOriginURL(batch[i].originURL) = o
      BY DEF LastIndicesFor, IndicesFor
    <3>4. new[i] = [origin |-> o, source |-> t, app |-> a]
      BY <3>1, <3>2, <3>3
    <3> QED BY <2>b, <3>3, <3>4
  <2> QED BY <2>1, <2>2
<1> HIDE DEF added
<1> QED BY <1>2, <1>3, FS_Union, FS_Subset

-----------------------------------------------------------------------------
(***************************************************************************)
(* What a user may see: the permissions the code collects from his roles   *)
(* are the documented rule, label by label.                                *)
(***************************************************************************)
LEMMA RolesAreGranted ==
  ASSUME NEW user
  PROVE  \A r : r \in getUserRoles(user) <=> Grants(user, r)
BY DEF getUserRoles, Grants

LEMMA LabelsAreNamed ==
  ASSUME NEW user, NEW k, NEW v
  PROVE  CanAccessLabel(GetUserPermissions(user), k, v) <=> Grants(user, "admin") \/ Named(user, k, v)
<1> DEFINE perms == GetUserPermissions(user)
           keys == {l \in LabelKeys : ~isAdmin(user) /\ RolesWith(user, l) # {}}
<1>1. /\ perms.HasFullAccess = isAdmin(user)
      /\ DOMAIN perms.AllowedLabels = keys
      /\ \A l \in keys : perms.AllowedLabels[l] = {roles[r][l] : r \in RolesWith(user, l)}
  BY DEF GetUserPermissions
<1>2. isAdmin(user) <=> Grants(user, "admin")
  BY RolesAreGranted DEF isAdmin
<1>3. CanAccessLabel(perms, k, v) <=>
        isAdmin(user) \/ (k \in keys /\ v \in {roles[r][k] : r \in RolesWith(user, k)})
  <2> HIDE DEF perms, keys
  <2> QED BY <1>1 DEF CanAccessLabel
<1>4. Named(user, k, v) <=> \E r \in RolesWith(user, k) : roles[r][k] = v
  BY RolesAreGranted DEF Named, RolesWith
<1>5. Named(user, k, v) => k \in LabelKeys
  BY QueryAssumption DEF Named, LabelMaps
<1> HIDE DEF perms
<1> QED BY <1>2, <1>3, <1>4, <1>5 DEF perms

LEMMA AppsAreEntitled ==
  ASSUME NEW user, NEW a
  PROVE  CanAccessApp(GetUserPermissions(user), a) <=> EntitledByRole(user, a)
<1>1. Grants(user, "admin") <=> GetUserPermissions(user).HasFullAccess
  BY RolesAreGranted DEF GetUserPermissions, isAdmin
<1>2. \A k : CanAccessLabel(GetUserPermissions(user), k, a.labels[k]) <=>
               Grants(user, "admin") \/ Named(user, k, a.labels[k])
  BY LabelsAreNamed
<1> QED BY <1>1, <1>2 DEF CanAccessApp, EntitledByRole

-----------------------------------------------------------------------------
(***************************************************************************)
(* Filtering: what a search of the index finds, and the answers it makes.  *)
(***************************************************************************)
Indexed(id, f, v) ==
  \E e \in Entries(appStatusCache) : HasField(e.app, f) /\ FieldValue(e.source, e.app, f) = v /\ idOf(e) = id

(* The postings of a value.                                                *)
List(all, f) == {p \in appsByField[f] : p.value = all[f]}

LEMMA ListMeaning ==
  ASSUME IndexBuilt, NEW all, NEW f \in Fields
  PROVE  /\ \A p \in List(all, f) : Indexed(p.id, f, all[f])
         /\ \A e \in Entries(appStatusCache) : FieldIs(e, f, all[f]) => Posting(e, f) \in List(all, f)
         /\ \A p \in List(all, f) : \E e \in Entries(appStatusCache) : p = Posting(e, f)
BY Postings DEF List, Indexed, Posting, FieldIs

LEMMA SearchOneField ==
  ASSUME NEW all, NEW f, DOMAIN all = {f}
  PROVE  FindAppsByLabels(appsByField, all) = {[id |-> p.id, copy |-> p.origin] : p \in List(all, f)}
<1>1. Cardinality(DOMAIN all) = 1
  BY FS_Singleton
<1> QED BY <1>1 DEF FindAppsByLabels, List

LEMMA SearchMoreFields ==
  ASSUME NEW all, Cardinality(DOMAIN all) # 1
  PROVE  \A h : h \in FindAppsByLabels(appsByField, all) <=>
           /\ h = [id |-> h.id, copy |-> Once]
           /\ DOMAIN all # {}
           /\ \A f \in DOMAIN all : \E p \in List(all, f) : p.id = h.id
<1> DEFINE ids == UNION {{p.id : p \in List(all, f)} : f \in DOMAIN all}
           hits == {i \in ids : \A f \in DOMAIN all : i \in {p.id : p \in List(all, f)}}
<1>1. FindAppsByLabels(appsByField, all) = {[id |-> i, copy |-> Once] : i \in hits}
  BY DEF FindAppsByLabels, List
<1>2. \A i : i \in hits <=> DOMAIN all # {} /\ \A f \in DOMAIN all : \E p \in List(all, f) : p.id = i
  OBVIOUS
<1> HIDE DEF hits
<1> QED BY <1>1, <1>2

(* What is found is indexed under every wanted value, and what matches is  *)
(* found.                                                                  *)
LEMMA SearchMeaning ==
  ASSUME IndexBuilt, NEW q \in QuerySet, DOMAIN q.all # {}
  PROVE  /\ \A h \in FindAppsByLabels(appsByField, q.all) :
              \A f \in DOMAIN q.all : Indexed(h.id, f, q.all[f])
         /\ \A e \in Entries(appStatusCache) : (\A f \in DOMAIN q.all : FieldIs(e, f, q.all[f])) =>
              \E h \in FindAppsByLabels(appsByField, q.all) : h.id = idOf(e)
<1>1. DOMAIN q.all \subseteq Fields /\ IsFiniteSet(DOMAIN q.all)
  BY QueryAssumption
<1>2. \A f \in DOMAIN q.all :
        /\ \A p \in List(q.all, f) : Indexed(p.id, f, q.all[f])
        /\ \A e \in Entries(appStatusCache) : FieldIs(e, f, q.all[f]) =>
             Posting(e, f) \in List(q.all, f) /\ Posting(e, f).id = idOf(e)
  BY <1>1, ListMeaning DEF Posting
<1>3. CASE Cardinality(DOMAIN q.all) = 1
  <2>1. PICK f : DOMAIN q.all = {f}
    BY <1>1, <1>3, FS_Singleton
  <2>2. FindAppsByLabels(appsByField, q.all) = {[id |-> p.id, copy |-> p.origin] : p \in List(q.all, f)}
    BY <2>1, SearchOneField
  <2>3. ASSUME NEW h \in FindAppsByLabels(appsByField, q.all), NEW g \in DOMAIN q.all
        PROVE  Indexed(h.id, g, q.all[g])
    BY <1>2, <2>1, <2>2
  <2>4. ASSUME NEW e \in Entries(appStatusCache), \A g \in DOMAIN q.all : FieldIs(e, g, q.all[g])
        PROVE  \E h \in FindAppsByLabels(appsByField, q.all) : h.id = idOf(e)
    <3> DEFINE h == [id |-> Posting(e, f).id, copy |-> Posting(e, f).origin]
    <3>1. Posting(e, f) \in List(q.all, f) /\ Posting(e, f).id = idOf(e)
      BY <1>2, <2>1, <2>4
    <3>2. h \in FindAppsByLabels(appsByField, q.all) /\ h.id = idOf(e)
      BY <2>2, <3>1
    <3> QED BY <3>2
  <2> QED BY <2>3, <2>4
<1>4. CASE Cardinality(DOMAIN q.all) # 1
  <2> DEFINE found == FindAppsByLabels(appsByField, q.all)
  <2>1. \A h : h \in found <=>
          /\ h = [id |-> h.id, copy |-> Once]
          /\ DOMAIN q.all # {}
          /\ \A f \in DOMAIN q.all : \E p \in List(q.all, f) : p.id = h.id
    BY <1>4, SearchMoreFields
  <2> HIDE DEF found
  <2>2. ASSUME NEW e \in Entries(appStatusCache), \A f \in DOMAIN q.all : FieldIs(e, f, q.all[f])
        PROVE  \E h \in found : h.id = idOf(e)
    <3> DEFINE h == [id |-> idOf(e), copy |-> Once]
    <3>1. \A f \in DOMAIN q.all : \E p \in List(q.all, f) : p.id = h.id
      BY <1>2, <2>2
    <3>2. h = [id |-> h.id, copy |-> Once] /\ h.id = idOf(e)
      OBVIOUS
    <3> HIDE DEF h
    <3> QED BY <2>1, <3>1, <3>2
  <2>3. ASSUME NEW h \in found, NEW f \in DOMAIN q.all PROVE Indexed(h.id, f, q.all[f])
    BY <1>2, <2>1, <2>3
  <2> QED BY <2>2, <2>3 DEF found
<1> QED BY <1>3, <1>4

(* The apps that the OR filter on status leaves, and their ids.            *)
OfStatus(apps, q) == IF q.anyStatus = {} THEN apps ELSE {e \in apps : e.app.status \in q.anyStatus}
IdsOf(apps) == {idOf(e) : e \in apps}
Hits(all, ids) == {h \in FindAppsByLabels(appsByField, all) : h.id \in ids}

LEMMA UnsearchedAnswer ==
  ASSUME NEW apps, NEW q \in QuerySet, DOMAIN q.all = {}, NEW answer \in FilterAnswers(apps, q, appsByField)
  PROVE  answer = {[entry |-> e, copy |-> Once] : e \in OfStatus(apps, q)}
BY DEF FilterAnswers, OfStatus

LEMMA SearchedAnswer ==
  ASSUME NEW apps, NEW q \in QuerySet, DOMAIN q.all # {}, NEW answer \in FilterAnswers(apps, q, appsByField)
  PROVE  \E m : /\ \A i \in IdsOf(OfStatus(apps, q)) : m[i] \in OfStatus(apps, q) /\ idOf(m[i]) = i
                /\ answer = {[entry |-> m[h.id], copy |-> h.copy] : h \in Hits(q.all, IdsOf(OfStatus(apps, q)))}
<1> DEFINE base == OfStatus(apps, q)
           ids == IdsOf(base)
           hits == Hits(q.all, ids)
<1>1. FilterAnswers(apps, q, appsByField) =
        {{[entry |-> m[h.id], copy |-> h.copy] : h \in hits} :
           m \in {n \in [ids -> base] : \A i \in ids : idOf(n[i]) = i}}
  BY DEF FilterAnswers, OfStatus, IdsOf, Hits
<1> HIDE DEF hits, ids
<1>2. PICK m \in [ids -> base] : /\ \A i \in ids : idOf(m[i]) = i
                                 /\ answer = {[entry |-> m[h.id], copy |-> h.copy] : h \in hits}
  BY <1>1
<1> QED BY <1>2 DEF ids, hits

(* Every app of an answer is one of those it was asked about, has one of   *)
(* the statuses, and has the id of an indexed app with each wanted value.  *)
LEMMA AnswerSound ==
  ASSUME IndexBuilt, NEW apps, NEW q \in QuerySet, NEW answer \in FilterAnswers(apps, q, appsByField),
         NEW x \in answer
  PROVE  /\ x.entry \in apps
         /\ q.anyStatus # {} => x.entry.app.status \in q.anyStatus
         /\ \A f \in DOMAIN q.all : Indexed(idOf(x.entry), f, q.all[f])
<1>1. \A e \in OfStatus(apps, q) : e \in apps /\ (q.anyStatus # {} => e.app.status \in q.anyStatus)
  BY DEF OfStatus
<1>2. CASE DOMAIN q.all = {}
  BY <1>1, <1>2, UnsearchedAnswer
<1>3. CASE DOMAIN q.all # {}
  <2> DEFINE ids == IdsOf(OfStatus(apps, q))
  <2>1. PICK m : /\ \A i \in ids : m[i] \in OfStatus(apps, q) /\ idOf(m[i]) = i
                 /\ answer = {[entry |-> m[h.id], copy |-> h.copy] : h \in Hits(q.all, ids)}
    BY <1>3, SearchedAnswer
  <2> HIDE DEF ids
  <2>2. PICK h \in Hits(q.all, ids) : x = [entry |-> m[h.id], copy |-> h.copy]
    BY <2>1
  <2>3. h.id \in ids /\ h \in FindAppsByLabels(appsByField, q.all)
    BY DEF Hits
  <2>4. x.entry \in OfStatus(apps, q) /\ idOf(x.entry) = h.id
    BY <2>1, <2>2, <2>3
  <2>5. \A f \in DOMAIN q.all : Indexed(h.id, f, q.all[f])
    BY <1>3, <2>3, SearchMeaning
  <2> QED BY <1>1, <2>4, <2>5
<1> QED BY <1>2, <1>3

(* Without a filter the answer is everything it was asked about.           *)
LEMMA AnswerUnfiltered ==
  ASSUME NEW apps, NEW q \in QuerySet, NEW answer \in FilterAnswers(apps, q, appsByField), ~Filtering(q)
  PROVE  answer = {[entry |-> e, copy |-> Once] : e \in apps}
BY UnsearchedAnswer DEF Filtering, OfStatus

LEMMA AnswerFinite ==
  ASSUME IndexBuilt, IsFiniteSet(Entries(appStatusCache)), NEW apps, IsFiniteSet(apps),
         NEW q \in QuerySet, NEW answer \in FilterAnswers(apps, q, appsByField)
  PROVE  IsFiniteSet(answer)
<1>1. IsFiniteSet(OfStatus(apps, q))
  BY FS_Subset DEF OfStatus
<1>2. CASE DOMAIN q.all = {}
  <2> DEFINE f == [e \in OfStatus(apps, q) |-> [entry |-> e, copy |-> Once]]
  <2>1. answer = {f[e] : e \in OfStatus(apps, q)}
    BY <1>2, UnsearchedAnswer
  <2> HIDE DEF f
  <2> QED BY <1>1, <2>1, FiniteImage
<1>3. CASE DOMAIN q.all # {}
  <2> DEFINE ids == IdsOf(OfStatus(apps, q))
             hits == Hits(q.all, ids)
  <2>1. IsFiniteSet(hits)
    <3>1. CASE Cardinality(DOMAIN q.all) = 1
      <4>1. PICK f \in Fields : DOMAIN q.all = {f}
        BY <3>1, QueryAssumption, FS_Singleton
      <4> DEFINE post == [e \in Entries(appStatusCache) |-> Posting(e, f)]
                 posts == {post[e] : e \in Entries(appStatusCache)}
                 found == [p \in posts |-> [id |-> p.id, copy |-> p.origin]]
      <4>2. IsFiniteSet(posts)
        <5> HIDE DEF post
        <5> QED BY FiniteImage
      <4>3. List(q.all, f) \subseteq posts
        BY ListMeaning
      <4>4. hits \subseteq {found[p] : p \in posts}
        <5> HIDE DEF posts, ids
        <5>1. hits \subseteq {[id |-> p.id, copy |-> p.origin] : p \in List(q.all, f)}
          BY <4>1, SearchOneField DEF Hits
        <5> QED BY <4>3, <5>1
      <4>5. IsFiniteSet({found[p] : p \in posts})
        <5> HIDE DEF found, posts
        <5> QED BY <4>2, FiniteImage
      <4> HIDE DEF hits, found, posts
      <4> QED BY <4>4, <4>5, FS_Subset
    <3>2. CASE Cardinality(DOMAIN q.all) # 1
      <4> DEFINE name == [e \in OfStatus(apps, q) |-> [id |-> idOf(e), copy |-> Once]]
      <4>1. hits \subseteq {name[e] : e \in OfStatus(apps, q)}
        <5>1. \A h \in hits : h = [id |-> h.id, copy |-> Once] /\ h.id \in ids
          BY <3>2, SearchMoreFields DEF Hits
        <5>2. \A h \in hits : \E e \in OfStatus(apps, q) : h.id = idOf(e)
          BY <5>1 DEF IdsOf
        <5> HIDE DEF hits
        <5> QED BY <5>1, <5>2
      <4>2. IsFiniteSet({name[e] : e \in OfStatus(apps, q)})
        <5> HIDE DEF name
        <5> QED BY <1>1, FiniteImage
      <4> HIDE DEF hits, name
      <4> QED BY <4>1, <4>2, FS_Subset
    <3> QED BY <3>1, <3>2
  <2>2. PICK m : answer = {[entry |-> m[h.id], copy |-> h.copy] : h \in hits}
    BY <1>3, SearchedAnswer
  <2> DEFINE f == [h \in hits |-> [entry |-> m[h.id], copy |-> h.copy]]
  <2>3. answer = {f[h] : h \in hits}
    <3> HIDE DEF hits
    <3> QED BY <2>2
  <2> HIDE DEF hits, f
  <2> QED BY <2>1, <2>3, FiniteImage
<1> QED BY <1>2, <1>3

(* When the index describes the apps the answer is taken from, and an id   *)
(* is that of one app, the answer holds each matching app once.            *)
LEMMA AnswerExact ==
  ASSUME IndexBuilt, UniqueIds(Entries(appStatusCache)), NEW apps \in SUBSET Entries(appStatusCache),
         NEW q \in QuerySet, NEW answer \in FilterAnswers(apps, q, appsByField)
  PROVE  /\ {x.entry : x \in answer} = {e \in apps : Satisfies(e, q)}
         /\ \A x, y \in answer : x.entry = y.entry => x = y
<1>1. ASSUME NEW x \in answer PROVE x.entry \in apps /\ Satisfies(x.entry, q)
  <2>1. /\ x.entry \in apps
        /\ q.anyStatus # {} => x.entry.app.status \in q.anyStatus
        /\ \A f \in DOMAIN q.all : Indexed(idOf(x.entry), f, q.all[f])
    BY AnswerSound
  <2>2. \A f \in DOMAIN q.all : FieldIs(x.entry, f, q.all[f])
    BY <2>1 DEF Indexed, FieldIs, UniqueIds
  <2> QED BY <2>1, <2>2 DEF Satisfies
<1>2. CASE DOMAIN q.all = {}
  <2>1. answer = {[entry |-> e, copy |-> Once] : e \in OfStatus(apps, q)}
    BY <1>2, UnsearchedAnswer
  <2>2. OfStatus(apps, q) = {e \in apps : Satisfies(e, q)}
    BY <1>2 DEF OfStatus, Satisfies
  <2>3. {x.entry : x \in answer} = OfStatus(apps, q)
    <3>1. \A e \in OfStatus(apps, q) : [entry |-> e, copy |-> Once] \in answer /\ [entry |-> e, copy |-> Once].entry = e
      BY <2>1
    <3>2. \A x \in answer : x.entry \in OfStatus(apps, q)
      BY <2>1
    <3> QED BY <3>1, <3>2
  <2>4. \A x \in answer : x = [entry |-> x.entry, copy |-> Once]
    BY <2>1
  <2>5. ASSUME NEW x \in answer, NEW y \in answer, x.entry = y.entry PROVE x = y
    BY <2>4, <2>5
  <2> QED BY <2>2, <2>3, <2>5
<1>3. CASE DOMAIN q.all # {}
  <2> DEFINE ids == IdsOf(OfStatus(apps, q))
             hits == Hits(q.all, ids)
  <2>1. PICK m : /\ \A i \in ids : m[i] \in OfStatus(apps, q) /\ idOf(m[i]) = i
                 /\ answer = {[entry |-> m[h.id], copy |-> h.copy] : h \in hits}
    BY <1>3, SearchedAnswer
  <2>2. ASSUME NEW e \in apps, Satisfies(e, q)
        PROVE  \E x \in answer : x.entry = e
    <3>1. e \in OfStatus(apps, q) /\ idOf(e) \in ids
      BY <2>2 DEF OfStatus, Satisfies, IdsOf
    <3>2. PICK h \in FindAppsByLabels(appsByField, q.all) : h.id = idOf(e)
      BY <1>3, <2>2, SearchMeaning DEF Satisfies
    <3>3. h \in hits /\ m[h.id] = e
      <4>1. m[h.id] \in apps /\ idOf(m[h.id]) = idOf(e)
        BY <2>1, <3>1, <3>2 DEF OfStatus
      <4> QED BY <3>1, <3>2, <4>1 DEF Hits, UniqueIds
    <3> DEFINE x == [entry |-> m[h.id], copy |-> h.copy]
    <3>4. x \in answer
      <4> HIDE DEF hits
      <4> QED BY <2>1, <3>3
    <3>5. x.entry = e
      BY <3>3
    <3> QED BY <3>4, <3>5
  <2>3. ASSUME NEW g \in hits, NEW h \in hits, g.id = h.id PROVE g.copy = h.copy
    <3>1. CASE Cardinality(DOMAIN q.all) = 1
      <4>1. PICK f \in Fields : DOMAIN q.all = {f}
        BY <3>1, QueryAssumption, FS_Singleton
      <4>2. \E d \in Entries(appStatusCache) : g = [id |-> Posting(d, f).id, copy |-> Posting(d, f).origin]
        BY <4>1, SearchOneField, ListMeaning DEF Hits
      <4>3. \E e \in Entries(appStatusCache) : h = [id |-> Posting(e, f).id, copy |-> Posting(e, f).origin]
        BY <4>1, SearchOneField, ListMeaning DEF Hits
      <4>4. PICK d \in Entries(appStatusCache) : g = [id |-> idOf(d), copy |-> d.origin]
        BY <4>2 DEF Posting
      <4>5. PICK e \in Entries(appStatusCache) : h = [id |-> idOf(e), copy |-> e.origin]
        BY <4>3 DEF Posting
      <4> QED BY <2>3, <4>4, <4>5 DEF UniqueIds
    <3>2. CASE Cardinality(DOMAIN q.all) # 1
      <4>1. g = [id |-> g.id, copy |-> Once] /\ h = [id |-> h.id, copy |-> Once]
        BY <3>2, SearchMoreFields DEF Hits
      <4> QED BY <4>1
    <3> QED BY <3>1, <3>2
  <2>4. ASSUME NEW x \in answer, NEW y \in answer, x.entry = y.entry PROVE x = y
    <3> HIDE DEF hits
    <3>1. PICK g \in hits : x = [entry |-> m[g.id], copy |-> g.copy]
      BY <2>1
    <3>2. PICK h \in hits : y = [entry |-> m[h.id], copy |-> h.copy]
      BY <2>1
    <3>3. g.id \in ids /\ h.id \in ids
      BY DEF hits, Hits
    <3>4. g.id = h.id
      BY <2>1, <2>4, <3>1, <3>2, <3>3
    <3> QED BY <2>3, <3>1, <3>2, <3>4
  <2> HIDE DEF hits
  <2> QED BY <1>1, <2>2, <2>4
<1> QED BY <1>2, <1>3

-----------------------------------------------------------------------------
(***************************************************************************)
(* The status and the counts of a location, over the apps of an answer.    *)
(***************************************************************************)
Agrees(l, apps) ==
  LET n(st) == l.counts[st] IN
  /\ n("up") + n("down") + n("unavailable") = Cardinality(appsInLocation(l.name, apps))
  /\ l.status = "up" <=> n("up") > 0 /\ n("down") + n("unavailable") = 0
  /\ l.status = "down" <=> n("down") > 0
  /\ l.status = NoStatus <=> n("up") + n("down") + n("unavailable") = 0

LEMMA StatusAgreesWithCounts ==
  ASSUME NEW apps, IsFiniteSet(apps), \A x \in apps : x.entry.app.status \in ValidStatuses,
         NEW name, NEW source
  PROVE  Agrees(WithStatus(name, source, apps), apps)
<1> DEFINE here == appsInLocation(name, apps)
           with(st) == {x \in here : x.entry.app.status = st}
           statuses == {x.entry.app.status : x \in here}
           l == WithStatus(name, source, apps)
<1>1. IsFiniteSet(here) /\ here = with("up") \cup with("down") \cup with("unavailable")
  BY FS_Subset DEF appsInLocation, ValidStatuses
<1>2. \A st : IsFiniteSet(with(st)) /\ (Cardinality(with(st)) = 0 <=> with(st) = {})
  <2> TAKE st
  <2>1. IsFiniteSet(with(st))
    BY <1>1, FS_Subset
  <2> QED BY <2>1, FS_EmptySet
<1>3. /\ with("up") \cap with("down") = {} /\ with("up") \cap with("unavailable") = {}
      /\ with("down") \cap with("unavailable") = {}
  OBVIOUS
<1>4. \A st : st \in statuses <=> with(st) # {}
  OBVIOUS
<1>5. statuses \subseteq {"up", "down", "unavailable"}
  BY DEF appsInLocation, ValidStatuses
<1>6. /\ l.name = name
      /\ l.status = calculateLocationStatus(name, apps)
      /\ l.counts["up"] = Cardinality(with("up"))
      /\ l.counts["down"] = Cardinality(with("down"))
      /\ l.counts["unavailable"] = Cardinality(with("unavailable"))
  BY DEF WithStatus, calculateLocationStatusCounts, ValidStatuses
<1>7. /\ calculateLocationStatus(name, apps) = "up" <=> statuses = {"up"}
      /\ calculateLocationStatus(name, apps) = "down" <=> "down" \in statuses
      /\ calculateLocationStatus(name, apps) = NoStatus <=> statuses = {}
  <2>1. calculateLocationStatus(name, apps) =
          CASE statuses = {}       -> NoStatus
            [] statuses = {"up"}   -> "up"
            [] "down" \in statuses -> "down"
            [] OTHER               -> "unavailable"
    BY DEF calculateLocationStatus
  <2> HIDE DEF statuses
  <2>2. CASE statuses = {}
    BY <2>1, <2>2 DEF NoStatus
  <2>3. CASE statuses = {"up"}
    BY <2>1, <2>3 DEF NoStatus
  <2>4. CASE "down" \in statuses
    BY <2>1, <2>4 DEF NoStatus
  <2>5. CASE statuses # {} /\ statuses # {"up"} /\ "down" \notin statuses
    BY <2>1, <2>5 DEF NoStatus
  <2> QED BY <2>2, <2>3, <2>4, <2>5
<1>8. /\ statuses = {"up"} <=> with("up") # {} /\ with("down") = {} /\ with("unavailable") = {}
      /\ statuses = {} <=> with("up") = {} /\ with("down") = {} /\ with("unavailable") = {}
  <2> HIDE DEF with, statuses
  <2> QED BY <1>4, <1>5
<1> HIDE DEF with, statuses, here, l
<1>9. /\ Cardinality(with("up")) \in Nat /\ Cardinality(with("down")) \in Nat
      /\ Cardinality(with("unavailable")) \in Nat
      /\ Cardinality(with("up")) + Cardinality(with("down")) + Cardinality(with("unavailable")) = Cardinality(here)
  <2>1. \A S, T, U : IsFiniteSet(S) /\ IsFiniteSet(T) /\ IsFiniteSet(U) /\ S \cap T = {} /\ S \cap U = {} /\ T \cap U = {} =>
          /\ Cardinality(S) \in Nat /\ Cardinality(T) \in Nat /\ Cardinality(U) \in Nat
          /\ Cardinality(S) + Cardinality(T) + Cardinality(U) = Cardinality(S \cup T \cup U)
    BY ThreeParts
  <2>2. IsFiniteSet(with("up")) /\ IsFiniteSet(with("down")) /\ IsFiniteSet(with("unavailable"))
    BY <1>2
  <2>3. /\ Cardinality(with("up")) \in Nat /\ Cardinality(with("down")) \in Nat
        /\ Cardinality(with("unavailable")) \in Nat
        /\ Cardinality(with("up")) + Cardinality(with("down")) + Cardinality(with("unavailable"))
             = Cardinality(with("up") \cup with("down") \cup with("unavailable"))
    BY <1>3, <2>1, <2>2
  <2> QED BY <1>1, <2>3
<1>10. /\ l.status = "up" <=> Cardinality(with("up")) > 0
                              /\ Cardinality(with("down")) + Cardinality(with("unavailable")) = 0
       /\ l.status = "down" <=> Cardinality(with("down")) > 0
       /\ l.status = NoStatus <=>
            Cardinality(with("up")) + Cardinality(with("down")) + Cardinality(with("unavailable")) = 0
  BY <1>2, <1>4, <1>6, <1>7, <1>8, <1>9
<1>11. Agrees(l, apps)
  BY <1>6, <1>9, <1>10 DEF Agrees, here
<1> QED BY <1>11 DEF l

-----------------------------------------------------------------------------
(***************************************************************************)
(* The inductive invariant.  The caches have theirs, whatever handlers do; *)
(* of the handler's variables it says what each of them owes to the caches *)
(* of the moment it was read at.                                           *)
(***************************************************************************)
NoOwnScraped == \A s \in Sources : locationCache[s] \cap configuredLocations = {}

CacheInv == IInv /\ IsFiniteSet(Entries(appStatusCache)) /\ NoOwnScraped

\* Which endpoint passes where, and an idle handler holds nothing.
StagesOK ==
  /\ kind \in Handlers /\ query \in QuerySet
  /\ pc \in {"idle", "getLocationCache", "filterApps", "getLocationsWithStatus", "convertToHandlersLocation", "done"}
  /\ pc \in {"getLocationCache", "convertToHandlersLocation"} => kind = "sync"
  /\ pc = "filterApps" => kind # "labels"
  /\ pc = "getLocationsWithStatus" => kind = "locations"
  /\ pc = "idle" \/ kind = "labels" => snapshot = {} /\ filtered = {}
  /\ pc = "idle" => ~disturbed

SnapshotOK ==
  /\ IsFiniteSet(snapshot) /\ Wellformed(snapshot)
  /\ pc # "idle" /\ kind # "labels" /\ ~disturbed => snapshot = Entries(appStatusCache)

\* Some source and some name make this id, and one of them is the wanted value.
IdMadeOf(id, f, v) ==
  \E s \in Sources, n \in Names : getUniqueID(s, n) = id /\ v = IF f.key = "name" THEN n ELSE s

AfterFiltering == pc \in {"getLocationsWithStatus", "convertToHandlersLocation", "done"}
FilteredOK ==
  AfterFiltering =>
    /\ IsFiniteSet(filtered)
    /\ \A x \in filtered :
         /\ x.entry \in Entitled
         /\ query.anyStatus # {} => x.entry.app.status \in query.anyStatus
         /\ \A f \in DOMAIN query.all :
              f.key \in {"name", "source"} /\ f.kind = "system" => IdMadeOf(idOf(x.entry), f, query.all[f])
    /\ ~Filtering(query) => filtered = {[entry |-> e, copy |-> Once] : e \in Entitled}
    /\ ~disturbed /\ UniqueIds(snapshot) =>
         /\ {x.entry : x \in filtered} = {e \in Entitled : Satisfies(e, query)}
         /\ \A x, y \in filtered : x.entry = y.entry => x = y

\* The locations that come with scraped statuses are those of others, and whoever
\* is no administrator gets those that his apps are at.
LocationsOK ==
  /\ (pc = "filterApps" /\ kind = "sync") \/ pc = "convertToHandlersLocation" =>
       \A x \in locations : x.name \notin configuredLocations /\ x.status = AsScraped
  /\ pc \in {"filterApps", "done"} /\ kind = "apps" => locations = {}
  /\ pc = "done" /\ kind = "locations" /\ ~isAdmin(query.user) =>
       \A l \in locations : appsInLocation(l.name, filtered) # {}

QInv ==
  /\ CacheInv /\ StagesOK /\ SnapshotOK /\ FilteredOK /\ LocationsOK
  /\ OwnLocationsOnce /\ LocationStatusAgrees /\ OfferedFiltersFindApps

(* The caches' half is kept by whatever the scrapers do.                   *)
LEMMA CacheInvStep ==
  ASSUME CacheInv, [Next]_vars
  PROVE  CacheInv'
<1>1. IInv'
  BY NextIInv DEF CacheInv
<1>2. ASSUME NEW s \in Sources, NEW batch \in Batches, UpdateAppStatus(s, batch)
      PROVE  IsFiniteSet(Entries(appStatusCache)') /\ NoOwnScraped'
  <2>1. IsFiniteSet(Entries(appStatusCache'))
    BY <1>2, UpdatedEntries DEF CacheInv, IInv
  <2>2. locationCache' = locationCache
    BY <1>2, UpdateEffect DEF CacheInv, IInv
  <2> QED BY <2>1, <2>2 DEF NoOwnScraped, CacheInv, Entries
<1>3. ASSUME NEW s \in Sources, NEW locs \in SUBSET Places, UpdateLocationCache(s, locs)
      PROVE  IsFiniteSet(Entries(appStatusCache)') /\ NoOwnScraped'
  <2>1. NoOwnScraped'
    BY <1>3 DEF UpdateLocationCache, NoOwnScraped, CacheInv, IInv, TypeOK
  <2>2. appStatusCache' = appStatusCache
    BY <1>3 DEF UpdateLocationCache
  <2> QED BY <2>1, <2>2 DEF CacheInv, Entries
<1>4. CASE UNCHANGED vars
  BY <1>1, <1>4 DEF vars, CacheInv, NoOwnScraped, Entries
<1> QED BY <1>1, <1>2, <1>3, <1>4 DEF Next, CacheInv

LEMMA QueryInitInv == QueryInit => QInv
<1> SUFFICES ASSUME QueryInit PROVE QInv
  OBVIOUS
<1>1. Entries(appStatusCache) = {}
  BY DEF QueryInit, Init, Entries
<1>2. CacheInv
  BY <1>1, InitIInv, FS_EmptySet DEF QueryInit, Init, CacheInv, NoOwnScraped
<1>3. StagesOK /\ SnapshotOK /\ FilteredOK /\ LocationsOK
  BY FS_EmptySet DEF QueryInit, StagesOK, SnapshotOK, FilteredOK, LocationsOK, AfterFiltering, Wellformed
<1>4. OwnLocationsOnce /\ LocationStatusAgrees /\ OfferedFiltersFindApps
  BY DEF QueryInit, OwnLocationsOnce, LocationStatusAgrees, OfferedFiltersFindApps, Answered
<1> QED BY <1>2, <1>3, <1>4 DEF QInv

-----------------------------------------------------------------------------
(* Every step of a handler, and every update meanwhile, keeps the          *)
(* invariant.                                                              *)
LEMMA SnapshotStays ==
  ASSUME QInv, UNCHANGED <<appStatusCache, snapshot, kind, disturbed>>, pc # "idle"
  PROVE  SnapshotOK'
BY DEF QInv, SnapshotOK, Wellformed, Entries

LEMMA GetAppStatusCacheKeeps ==
  ASSUME QInv, GetAppStatusCache
  PROVE  QInv'
<1>1. CacheInv' /\ appStatusCache' = appStatusCache
  BY CacheInvStep DEF QInv, GetAppStatusCache, vars
<1>2. StagesOK'
  BY QueryAssumption DEF GetAppStatusCache, StagesOK
<1>3. SnapshotOK'
  BY <1>1, EntriesWellformed DEF QInv, CacheInv, IInv, GetAppStatusCache, SnapshotOK, Wellformed, Entries
<1>4. FilteredOK' /\ LocationsOK' /\ OwnLocationsOnce' /\ LocationStatusAgrees' /\ OfferedFiltersFindApps'
  BY DEF GetAppStatusCache, FilteredOK, AfterFiltering, LocationsOK, OwnLocationsOnce, LocationStatusAgrees,
         OfferedFiltersFindApps, Answered
<1> QED BY <1>1, <1>2, <1>3, <1>4 DEF QInv

LEMMA GetLocationCacheKeeps ==
  ASSUME QInv, GetLocationCache
  PROVE  QInv'
<1>1. CacheInv' /\ appStatusCache' = appStatusCache
  BY CacheInvStep DEF QInv, GetLocationCache, vars
<1>2. StagesOK'
  BY DEF QInv, GetLocationCache, StagesOK
<1>3. SnapshotOK'
  BY <1>1, SnapshotStays DEF GetLocationCache
<1>4. LocationsOK'
  <2>1. \A x \in ScrapedLocations : x.name \notin configuredLocations
    BY DEF ScrapedLocations, QInv, CacheInv, NoOwnScraped
  <2>2. \A x \in locations' : x.name \notin configuredLocations /\ x.status = AsScraped
    BY <2>1 DEF GetLocationCache
  <2> QED BY <2>2 DEF GetLocationCache, LocationsOK, QInv, StagesOK
<1>5. FilteredOK' /\ OwnLocationsOnce' /\ LocationStatusAgrees' /\ OfferedFiltersFindApps'
  BY DEF GetLocationCache, FilteredOK, AfterFiltering, OwnLocationsOnce, LocationStatusAgrees,
         OfferedFiltersFindApps, Answered
<1> QED BY <1>1, <1>2, <1>3, <1>4, <1>5 DEF QInv

(* An id that the index lists under a name or a source is made of it.      *)
LEMMA IndexedIds ==
  ASSUME TypeOK, NEW f \in Fields, f.kind = "system", f.key \in {"name", "source"}, NEW id, NEW v,
         Indexed(id, f, v)
  PROVE  IdMadeOf(id, f, v)
<1>1. PICK e \in Entries(appStatusCache) : FieldValue(e.source, e.app, f) = v /\ idOf(e) = id
  BY DEF Indexed
<1>2. e.source \in Sources /\ e.app.name \in Names
  BY EntriesWellformed DEF Wellformed, App
<1>3. FieldValue(e.source, e.app, f) = IF f.key = "name" THEN e.app.name ELSE e.source
  BY DEF FieldValue
<1> QED BY <1>1, <1>2, <1>3 DEF IdMadeOf, idOf

LEMMA filterAppsKeeps ==
  ASSUME QInv, filterApps
  PROVE  QInv'
<1>1. CacheInv' /\ appStatusCache' = appStatusCache
  BY CacheInvStep DEF QInv, filterApps, vars
<1>2. StagesOK'
  BY QueryAssumption DEF QInv, filterApps, AfterFilter, StagesOK
<1>3. SnapshotOK'
  BY <1>1, SnapshotStays DEF filterApps
<1>4. filtered' \in FilterAnswers(Entitled, query, appsByField) /\ query \in QuerySet /\ IndexBuilt /\ TypeOK
  BY DEF filterApps, Entitled, QInv, StagesOK, CacheInv, IInv
<1>5. Entitled \subseteq snapshot
  BY DEF Entitled, Visible
<1>6. Entitled' = Entitled /\ query' = query /\ snapshot' = snapshot /\ disturbed' = disturbed
  BY DEF filterApps, Entitled
<1>7. FilteredOK'
  <2>1. IsFiniteSet(filtered')
    <3>1. IsFiniteSet(Entitled)
      BY <1>5, FS_Subset DEF QInv, SnapshotOK
    <3> QED BY <1>4, <3>1, AnswerFinite DEF QInv, CacheInv
  <2>2. ASSUME NEW x \in filtered'
        PROVE  /\ x.entry \in Entitled
               /\ query.anyStatus # {} => x.entry.app.status \in query.anyStatus
               /\ \A f \in DOMAIN query.all :
                    f.key \in {"name", "source"} /\ f.kind = "system" => IdMadeOf(idOf(x.entry), f, query.all[f])
    <3>1. DOMAIN query.all \subseteq Fields
      BY <1>4, QueryAssumption
    <3>2. /\ x.entry \in Entitled
          /\ query.anyStatus # {} => x.entry.app.status \in query.anyStatus
          /\ \A f \in DOMAIN query.all : Indexed(idOf(x.entry), f, query.all[f])
      BY <1>4, AnswerSound
    <3> QED BY <1>4, <3>1, <3>2, IndexedIds
  <2>3. ~Filtering(query) => filtered' = {[entry |-> e, copy |-> Once] : e \in Entitled}
    BY <1>4, AnswerUnfiltered
  <2>4. ASSUME ~disturbed, UniqueIds(snapshot)
        PROVE  /\ {x.entry : x \in filtered'} = {e \in Entitled : Satisfies(e, query)}
               /\ \A x, y \in filtered' : x.entry = y.entry => x = y
    <3>1. snapshot = Entries(appStatusCache)
      BY <2>4 DEF filterApps, QInv, SnapshotOK, StagesOK
    <3> QED BY <1>4, <1>5, <2>4, <3>1, AnswerExact
  <2> QED BY <1>6, <2>1, <2>2, <2>3, <2>4 DEF FilteredOK
<1>8. LocationsOK' /\ OwnLocationsOnce' /\ LocationStatusAgrees' /\ OfferedFiltersFindApps'
  <2>1. pc = "filterApps" /\ kind' = kind /\ kind # "labels" /\ locations' = locations
    BY DEF filterApps, QInv, StagesOK
  <2>2. /\ pc' = "done" => kind = "apps"
        /\ pc' # "filterApps"
        /\ pc' = "convertToHandlersLocation" => kind = "sync"
    BY DEF filterApps, AfterFilter
  <2>3. LocationsOK'
    BY <2>1, <2>2 DEF LocationsOK, QInv
  <2> QED BY <2>1, <2>2, <2>3 DEF OwnLocationsOnce, LocationStatusAgrees, OfferedFiltersFindApps, Answered
<1> QED BY <1>1, <1>2, <1>3, <1>7, <1>8 DEF QInv

(* What the invariant says of an answer's apps stays, while it is there.   *)
LEMMA FilteredStays ==
  ASSUME QInv, UNCHANGED <<kind, query, snapshot, filtered>>, AfterFiltering, AfterFiltering',
         ~disturbed' => ~disturbed
  PROVE  FilteredOK'
<1>1. Entitled' = Entitled
  BY DEF Entitled
<1> QED BY <1>1 DEF QInv, FilteredOK

LEMMA FilteredStatuses ==
  ASSUME QInv, AfterFiltering
  PROVE  IsFiniteSet(filtered) /\ \A x \in filtered : x.entry.app.status \in ValidStatuses
<1>1. \A x \in filtered : x.entry \in snapshot
  BY DEF QInv, FilteredOK, Entitled, Visible
<1> QED BY <1>1 DEF QInv, FilteredOK, SnapshotOK, Wellformed, App

(* The own locations in an answer.                                         *)
LEMMA OwnLocations ==
  ASSUME NEW apps
  PROVE  LET own == {WithStatus(l, "", apps) : l \in configuredLocations}
         IN  /\ \A x \in own : x = WithStatus(x.name, "", apps) /\ x.source = ""
             /\ \A l \in configuredLocations : \E x \in own : x.name = l
<1> DEFINE own == {WithStatus(l, "", apps) : l \in configuredLocations}
<1>1. \A l : WithStatus(l, "", apps).name = l /\ WithStatus(l, "", apps).source = ""
  BY DEF WithStatus
<1>2. \A x \in own : x = WithStatus(x.name, "", apps) /\ x.source = ""
  BY <1>1
<1>3. \A l \in configuredLocations : WithStatus(l, "", apps) \in own
  OBVIOUS
<1> HIDE DEF own
<1>4. \A l \in configuredLocations : \E x \in own : x.name = l
  BY <1>1, <1>3
<1> QED BY <1>2, <1>4 DEF own

LEMMA GetLocationsWithStatusKeeps ==
  ASSUME QInv, GetLocationsWithStatus
  PROVE  QInv'
<1>1. CacheInv' /\ appStatusCache' = appStatusCache
  BY CacheInvStep DEF QInv, GetLocationsWithStatus, vars
<1>2. StagesOK' /\ kind = "locations" /\ pc' = "done"
  BY DEF QInv, GetLocationsWithStatus, StagesOK
<1>3. SnapshotOK'
  BY <1>1, SnapshotStays DEF GetLocationsWithStatus
<1>4. AfterFiltering /\ AfterFiltering' /\ UNCHANGED <<kind, query, snapshot, filtered, disturbed>>
  BY DEF GetLocationsWithStatus, AfterFiltering
<1>5. FilteredOK'
  BY <1>4, FilteredStays
<1> DEFINE everything == ~Filtering(query) /\ isAdmin(query.user)
           others == {WithStatus(l.name, l.source, filtered) : l \in ScrapedLocations}
           own == {WithStatus(l, "", filtered) : l \in configuredLocations}
<1>6. locations' = {l \in others \cup own : everything \/ appsInLocation(l.name, filtered) # {}}
  BY DEF GetLocationsWithStatus
<1>7. \A x \in others : x.name \notin configuredLocations
  BY DEF WithStatus, ScrapedLocations, QInv, CacheInv, NoOwnScraped
<1>8. /\ \A x \in own : x = WithStatus(x.name, "", filtered) /\ x.source = ""
      /\ \A l \in configuredLocations : \E x \in own : x.name = l
  BY OwnLocations
<1>9. \A x \in others \cup own : Agrees(x, filtered)
  BY <1>4, FilteredStatuses, StatusAgreesWithCounts
<1> HIDE DEF others, own
<1>10. LocationsOK'
  BY <1>2, <1>4, <1>6 DEF LocationsOK, Filtering
<1>11. OwnLocationsOnce'
  <2>1. everything => \A l \in configuredLocations : \E x \in locations' : x.name = l
    BY <1>6, <1>8
  <2>2. \A l \in configuredLocations : \A x, y \in locations' :
          x.name = l /\ y.name = l => x = y /\ x.source = ""
    <3> SUFFICES ASSUME NEW l \in configuredLocations, NEW x \in locations', NEW y \in locations',
                        x.name = l, y.name = l
                 PROVE  x = y /\ x.source = ""
      OBVIOUS
    <3>1. x \in own /\ y \in own
      BY <1>6, <1>7
    <3> QED BY <1>8, <3>1
  <2> QED BY <1>2, <1>4, <2>1, <2>2 DEF OwnLocationsOnce
<1>12. LocationStatusAgrees'
  <2>1. \A l \in locations' : Agrees(l, filtered)
    BY <1>6, <1>9
  <2> QED BY <1>4, <2>1 DEF LocationStatusAgrees, Agrees
<1>13. OfferedFiltersFindApps'
  BY <1>2, <1>4 DEF OfferedFiltersFindApps
<1> QED BY <1>1, <1>2, <1>3, <1>5, <1>10, <1>11, <1>12, <1>13 DEF QInv

LEMMA convertToHandlersLocationKeeps ==
  ASSUME QInv, convertToHandlersLocation
  PROVE  QInv'
<1>1. CacheInv' /\ appStatusCache' = appStatusCache
  BY CacheInvStep DEF QInv, convertToHandlersLocation, vars
<1>2. StagesOK' /\ kind = "sync" /\ pc' = "done"
  BY DEF QInv, convertToHandlersLocation, StagesOK
<1>3. SnapshotOK'
  BY <1>1, SnapshotStays DEF convertToHandlersLocation
<1>4. AfterFiltering /\ AfterFiltering' /\ UNCHANGED <<kind, query, snapshot, filtered, disturbed>>
  BY DEF convertToHandlersLocation, AfterFiltering
<1>5. FilteredOK'
  BY <1>4, FilteredStays
<1> DEFINE own == {WithStatus(l, "", AllApps) : l \in configuredLocations}
<1>6. locations' = locations \cup own
  BY DEF convertToHandlersLocation
<1>7. \A x \in locations : x.name \notin configuredLocations /\ x.status = AsScraped
  BY DEF convertToHandlersLocation, QInv, LocationsOK
<1>8. /\ \A x \in own : x = WithStatus(x.name, "", AllApps) /\ x.source = ""
      /\ \A l \in configuredLocations : \E x \in own : x.name = l
  BY OwnLocations
<1>9. LocationsOK'
  BY <1>2, <1>4 DEF LocationsOK
<1>10. OwnLocationsOnce'
  <2> HIDE DEF own
  <2>1. \A l \in configuredLocations : \E x \in locations' : x.name = l
    BY <1>6, <1>8
  <2>2. \A l \in configuredLocations : \A x, y \in locations' :
          x.name = l /\ y.name = l => x = y /\ x.source = ""
    <3> SUFFICES ASSUME NEW l \in configuredLocations, NEW x \in locations', NEW y \in locations',
                        x.name = l, y.name = l
                 PROVE  x = y /\ x.source = ""
      OBVIOUS
    <3>1. x \in own /\ y \in own
      BY <1>6, <1>7
    <3> QED BY <1>8, <3>1
  <2> QED BY <1>2, <1>4, <2>1, <2>2 DEF OwnLocationsOnce
<1>11. LocationStatusAgrees'
  <2> SUFFICES ASSUME ~disturbed, ~Filtering(query), NEW l \in locations', l.status # AsScraped
               PROVE  Agrees(l, filtered)
    BY <1>2, <1>4 DEF LocationStatusAgrees, Agrees
  <2>1. Entitled = Entries(appStatusCache)
    BY <1>2 DEF Entitled, Visible, convertToHandlersLocation, QInv, SnapshotOK
  <2>2. filtered = AllApps
    BY <1>4, <2>1 DEF QInv, FilteredOK, AllApps
  <2>3. l \in own
    BY <1>6, <1>7
  <2>4. \A x \in own : Agrees(x, filtered)
    BY <1>4, <2>2, FilteredStatuses, StatusAgreesWithCounts
  <2> QED BY <2>3, <2>4
<1>12. OfferedFiltersFindApps'
  BY <1>2, <1>4 DEF OfferedFiltersFindApps
<1> QED BY <1>1, <1>2, <1>3, <1>5, <1>9, <1>10, <1>11, <1>12 DEF QInv

(* The values offered are those of the apps that the user's roles let him  *)
(* see.                                                                    *)
LEMMA OfferedValues ==
  ASSUME TypeOK, IndexBuilt, NEW user, NEW key \in LabelKeys
  PROVE  LET f == [kind |-> "label", key |-> key]
             mine == {e \in Entries(appStatusCache) : EntitledByRole(user, e.app) /\ HasField(e.app, f)}
             named == {v \in LabelValues : Grants(user, "admin") \/ Named(user, key, v)}
         IN  GetLabelValues(appsByField, GetUserPermissions(user), key)
               = {e.app.labels[key] : e \in mine} \cap named
<1> DEFINE f == [kind |-> "label", key |-> key]
           mine == {e \in Entries(appStatusCache) : EntitledByRole(user, e.app) /\ HasField(e.app, f)}
           named == {v \in LabelValues : Grants(user, "admin") \/ Named(user, key, v)}
           given == GetLabelValues(appsByField, GetUserPermissions(user), key)
<1>1. f \in Fields /\ f.kind = "label" /\ f.key = key
  BY DEF Fields
<1>2. \A v : v \in given <=> /\ \E p \in appsByField[f] : p.value = v
                            /\ (Grants(user, "admin") \/ Named(user, key, v))
  BY LabelsAreNamed DEF GetLabelValues
<1>3. \A v : (\E p \in appsByField[f] : p.value = v) <=>
               \E e \in Entries(appStatusCache) : HasField(e.app, f) /\ FieldValue(e.source, e.app, f) = v
  <2> HIDE DEF f
  <2>1. \A e : Posting(e, f).value = FieldValue(e.source, e.app, f)
    BY DEF Posting
  <2> QED BY <1>1, <2>1, Postings
<1>4. \A e \in Entries(appStatusCache) : HasField(e.app, f) =>
        /\ key \in DOMAIN e.app.labels /\ e.app.labels[key] \in LabelValues
        /\ FieldValue(e.source, e.app, f) = e.app.labels[key]
  <2> HIDE DEF f
  <2>1. \A e \in Entries(appStatusCache) : e.app.labels \in LabelMaps
    BY EntriesWellformed DEF Wellformed, App
  <2>2. \A e \in Entries(appStatusCache) : HasField(e.app, f) => key \in DOMAIN e.app.labels
    BY <1>1 DEF HasField
  <2>3. \A e \in Entries(appStatusCache) : FieldValue(e.source, e.app, f) = e.app.labels[key]
    BY <1>1 DEF FieldValue
  <2>4. \A m \in LabelMaps : \A k \in DOMAIN m : m[k] \in LabelValues
    BY DEF LabelMaps
  <2> QED BY <2>1, <2>2, <2>3, <2>4
<1>5. ASSUME NEW e \in Entries(appStatusCache), HasField(e.app, f),
             Grants(user, "admin") \/ Named(user, key, e.app.labels[key])
      PROVE  EntitledByRole(user, e.app)
  BY <1>4, <1>5 DEF EntitledByRole
<1>6. ASSUME NEW v \in given PROVE v \in {e.app.labels[key] : e \in mine} \cap named
  <2>1. PICK e \in Entries(appStatusCache) : HasField(e.app, f) /\ FieldValue(e.source, e.app, f) = v
    BY <1>2, <1>3
  <2>2. v = e.app.labels[key] /\ v \in LabelValues /\ (Grants(user, "admin") \/ Named(user, key, v))
    BY <1>2, <1>4, <2>1
  <2>3. e \in mine
    BY <1>5, <2>1, <2>2
  <2> HIDE DEF mine, given
  <2> QED BY <2>2, <2>3
<1>7. ASSUME NEW e \in mine, e.app.labels[key] \in named PROVE e.app.labels[key] \in given
  <2>1. e \in Entries(appStatusCache) /\ HasField(e.app, f)
    OBVIOUS
  <2> HIDE DEF mine, given
  <2> QED BY <1>2, <1>3, <1>4, <1>7, <2>1
<1> HIDE DEF mine, named, given
<1>8. given = {e.app.labels[key] : e \in mine} \cap named
  BY <1>6, <1>7
<1> QED BY <1>8 DEF mine, named, given, f

LEMMA GetLabelsWithAuthzKeeps ==
  ASSUME QInv, GetLabelsWithAuthz
  PROVE  QInv'
<1>1. CacheInv' /\ appStatusCache' = appStatusCache
  BY CacheInvStep DEF QInv, GetLabelsWithAuthz, vars
<1>2. /\ pc = "idle" /\ pc' = "done" /\ kind' = "labels" /\ "labels" \in Handlers /\ query' \in QuerySet
      /\ UNCHANGED <<snapshot, filtered, locations, disturbed>>
  BY DEF GetLabelsWithAuthz
<1>3. StagesOK'
  BY <1>2 DEF QInv, StagesOK
<1>4. snapshot' = {} /\ filtered' = {}
  BY <1>2 DEF QInv, StagesOK
<1>5. SnapshotOK'
  BY <1>2, <1>4, FS_EmptySet DEF SnapshotOK, Wellformed
<1>6. FilteredOK'
  <2>1. Entitled' = {}
    BY <1>4 DEF Entitled, Visible
  <2> QED BY <1>4, <2>1, FS_EmptySet DEF FilteredOK
<1>7. LocationsOK' /\ OwnLocationsOnce' /\ LocationStatusAgrees'
  BY <1>2 DEF LocationsOK, OwnLocationsOnce, LocationStatusAgrees
<1>8. OfferedFiltersFindApps'
  <2> SUFFICES ASSUME query'.labelKey # ""
               PROVE  OfferedFiltersFindApps'
    BY DEF OfferedFiltersFindApps
  <2>1. query'.labelKey \in LabelKeys
    BY <1>2, QueryAssumption
  <2>2. offered' = GetLabelValues(appsByField, GetUserPermissions(query'.user), query'.labelKey)
    BY DEF GetLabelsWithAuthz
  <2>3. Entries(appStatusCache)' = Entries(appStatusCache)
    BY <1>1
  <2>4. TypeOK /\ IndexBuilt
    BY DEF QInv, CacheInv, IInv
  <2> QED BY <2>1, <2>2, <2>3, <2>4, OfferedValues DEF OfferedFiltersFindApps
<1> QED BY <1>1, <1>3, <1>5, <1>6, <1>7, <1>8 DEF QInv

LEMMA RespondKeeps ==
  ASSUME QInv, Respond
  PROVE  QInv'
<1>1. CacheInv'
  BY CacheInvStep DEF QInv, Respond, vars
<1>2. StagesOK' /\ SnapshotOK'
  BY FS_EmptySet DEF QInv, Respond, StagesOK, SnapshotOK, Wellformed
<1>3. FilteredOK' /\ LocationsOK' /\ OwnLocationsOnce' /\ LocationStatusAgrees' /\ OfferedFiltersFindApps'
  BY DEF Respond, FilteredOK, AfterFiltering, LocationsOK, OwnLocationsOnce, LocationStatusAgrees,
         OfferedFiltersFindApps, Answered
<1> QED BY <1>1, <1>2, <1>3 DEF QInv

(* An update disturbs an answer, or leaves the app cache as it is.         *)
LEMMA CacheStepKeeps ==
  ASSUME QInv, CacheStep
  PROVE  QInv'
<1>1. CacheInv'
  BY CacheInvStep DEF QInv, CacheStep
<1>2. UNCHANGED <<pc, kind, query, snapshot, filtered, locations, offered>>
  BY DEF CacheStep
<1>3. /\ pc = "idle" => ~disturbed'
      /\ pc # "idle" /\ ~disturbed' => ~disturbed /\ appStatusCache' = appStatusCache
  BY DEF CacheStep
<1>4. StagesOK'
  BY <1>2, <1>3 DEF QInv, StagesOK
<1>5. SnapshotOK'
  <2>1. pc # "idle" /\ kind # "labels" /\ ~disturbed' => snapshot = Entries(appStatusCache')
    BY <1>3 DEF QInv, SnapshotOK
  <2> QED BY <1>2, <2>1 DEF QInv, SnapshotOK, Wellformed
<1>6. FilteredOK'
  <2>1. CASE AfterFiltering
    <3>1. AfterFiltering' /\ (~disturbed' => ~disturbed)
      BY <1>2, <1>3, <2>1 DEF AfterFiltering
    <3> QED BY <1>2, <2>1, <3>1, FilteredStays
  <2>2. CASE ~AfterFiltering
    BY <1>2, <2>2 DEF AfterFiltering, FilteredOK
  <2> QED BY <2>1, <2>2
<1>7. LocationsOK' /\ OwnLocationsOnce'
  BY <1>2 DEF QInv, LocationsOK, OwnLocationsOnce, Answered
<1>8. LocationStatusAgrees'
  <2>1. pc = "done" /\ ~disturbed' => ~disturbed
    BY <1>3
  <2> QED BY <1>2, <2>1 DEF QInv, LocationStatusAgrees, Answered
<1>9. OfferedFiltersFindApps'
  <2>1. pc = "done" /\ ~disturbed' => ~disturbed /\ Entries(appStatusCache') = Entries(appStatusCache)
    BY <1>3
  <2> QED BY <1>2, <2>1 DEF QInv, OfferedFiltersFindApps, Answered
<1> QED BY <1>1, <1>4, <1>5, <1>6, <1>7, <1>8, <1>9 DEF QInv

LEMMA QInvNext == QInv /\ [QueryNext]_queryVars => QInv'
<1> SUFFICES ASSUME QInv, [QueryNext]_queryVars PROVE QInv'
  OBVIOUS
<1>1. CASE Handler
  BY <1>1, GetAppStatusCacheKeeps, GetLocationCacheKeeps, GetLabelsWithAuthzKeeps, filterAppsKeeps,
     GetLocationsWithStatusKeeps, convertToHandlersLocationKeeps, RespondKeeps DEF Handler
<1>2. CASE CacheStep
  BY <1>2, CacheStepKeeps
<1>3. CASE UNCHANGED queryVars
  <2>1. UNCHANGED vars /\ UNCHANGED <<pc, kind, query, snapshot, filtered, locations, offered, disturbed>>
    BY <1>3 DEF queryVars, reader
  <2>2. CacheInv' /\ appStatusCache' = appStatusCache
    BY <2>1, CacheInvStep DEF QInv, vars
  <2>3. Entries(appStatusCache)' = Entries(appStatusCache)
    BY <2>2
  <2>4. StagesOK' /\ SnapshotOK'
    BY <2>1, <2>3 DEF QInv, StagesOK, SnapshotOK, Wellformed
  <2>5. FilteredOK'
    <3>1. AfterFiltering' <=> AfterFiltering
      BY <2>1 DEF AfterFiltering
    <3> QED BY <2>1, <3>1, FilteredStays DEF FilteredOK
  <2>6. LocationsOK' /\ OwnLocationsOnce' /\ LocationStatusAgrees' /\ OfferedFiltersFindApps'
    BY <2>1, <2>3 DEF QInv, LocationsOK, OwnLocationsOnce, LocationStatusAgrees, OfferedFiltersFindApps, Answered
  <2> QED BY <2>2, <2>4, <2>5, <2>6 DEF QInv
<1> QED BY <1>1, <1>2, <1>3 DEF QueryNext

-----------------------------------------------------------------------------
(* The handlers' variables and the caches keep to the invariant, whatever  *)
(* updates come between the steps of a handler.                            *)
THEOREM QueryInvariant == QuerySpec => []QInv
BY QueryInitInv, QInvNext, PTL DEF QuerySpec

(* Handlers only read the caches and the index (handlers.go, protected.go),*)
(* so what is proved of the updates of StatusCache holds while requests    *)
(* are served: unique apps, the exact index, sources apart.                *)
THEOREM HandlersOnlyRead == QuerySpec => Spec
<1>1. QueryInit => Init
  BY DEF QueryInit
<1>2. [QueryNext]_queryVars => [Next]_vars
  <2>1. Handler => UNCHANGED vars
    BY DEF Handler, GetAppStatusCache, GetLocationCache, GetLabelsWithAuthz, filterApps,
              GetLocationsWithStatus, convertToHandlersLocation, Respond
  <2>2. CacheStep => Next
    BY DEF CacheStep
  <2> QED BY <2>1, <2>2 DEF QueryNext, queryVars
<1> QED BY <1>1, <1>2, PTL DEF QuerySpec, Spec

(* UndisturbedAnswersExact: a filter over the label index is a scan of the *)
(* user's apps, as long as ids tell apps apart and no update intervenes    *)
(* (handlers.go, filterApps).                                              *)
THEOREM UndisturbedAnswersExactCorrect == QuerySpec => []UndisturbedAnswersExact
<1>1. QInv => UndisturbedAnswersExact
  BY DEF QInv, FilteredOK, AfterFiltering, UndisturbedAnswersExact, Answered
<1> QED BY <1>1, QueryInvariant, PTL

(* RaceFreeFiltersSound: whatever is updated meanwhile, no answer to a     *)
(* filter on status, name or source holds an app without that value, when  *)
(* ids tell source and name (handlers.go, filterApps).                     *)
THEOREM RaceFreeFiltersSoundCorrect ==
  ASSUME IdsTellApart
  PROVE  QuerySpec => []RaceFreeFiltersSound
<1>1. QInv => RaceFreeFiltersSound
  <2> SUFFICES ASSUME QInv, Answered, NEW x \in filtered
               PROVE  /\ query.anyStatus # {} => x.entry.app.status \in query.anyStatus
                      /\ \A f \in DOMAIN query.all :
                           f.key \in {"name", "source"} /\ f.kind = "system" => FieldIs(x.entry, f, query.all[f])
    BY DEF RaceFreeFiltersSound
  <2>1. /\ x.entry \in Entitled
        /\ query.anyStatus # {} => x.entry.app.status \in query.anyStatus
        /\ \A f \in DOMAIN query.all :
             f.key \in {"name", "source"} /\ f.kind = "system" => IdMadeOf(idOf(x.entry), f, query.all[f])
    BY DEF QInv, FilteredOK, AfterFiltering, Answered
  <2>2. x.entry.source \in Sources /\ x.entry.app.name \in Names
    BY <2>1 DEF Entitled, Visible, QInv, SnapshotOK, Wellformed, App
  <2>3. ASSUME NEW f \in DOMAIN query.all, f.key \in {"name", "source"}, f.kind = "system"
        PROVE  FieldIs(x.entry, f, query.all[f])
    <3>1. PICK s \in Sources, n \in Names :
            getUniqueID(s, n) = idOf(x.entry) /\ query.all[f] = IF f.key = "name" THEN n ELSE s
      BY <2>1, <2>3 DEF IdMadeOf
    <3>2. s = x.entry.source /\ n = x.entry.app.name
      BY <2>2, <3>1 DEF IdsTellApart, idOf
    <3> QED BY <2>3, <3>1, <3>2 DEF FieldIs, HasField, FieldValue
  <2> QED BY <2>1, <2>3
<1> QED BY <1>1, QueryInvariant, PTL

(* OnlyEntitledApps: a user gets the apps and the locations that the       *)
(* documented rule gives him (server.md:194, authz in handlers.go).        *)
THEOREM OnlyEntitledAppsCorrect == QuerySpec => []OnlyEntitledApps
<1>1. QInv => OnlyEntitledApps
  <2> SUFFICES ASSUME QInv, Answered, kind \in {"apps", "locations"} PROVE OnlyEntitledApps
    BY DEF OnlyEntitledApps
  <2>1. /\ \A x \in filtered : x.entry \in Entitled
        /\ ~Filtering(query) => filtered = {[entry |-> e, copy |-> Once] : e \in Entitled}
    BY DEF QInv, FilteredOK, AfterFiltering, Answered
  <2>2. Entitled = {e \in snapshot : EntitledByRole(query.user, e.app)}
    BY AppsAreEntitled DEF Entitled, Visible
  <2>3. ~Filtering(query) => {x.entry : x \in filtered} = Entitled
    <3> SUFFICES ASSUME ~Filtering(query) PROVE {x.entry : x \in filtered} = Entitled
      OBVIOUS
    <3>1. \A e \in Entitled : [entry |-> e, copy |-> Once] \in filtered /\ [entry |-> e, copy |-> Once].entry = e
      BY <2>1
    <3> QED BY <2>1, <3>1
  <2>4. ASSUME ~isAdmin(query.user), NEW l \in locations
        PROVE  \E e \in snapshot : EntitledByRole(query.user, e.app) /\ e.app.location = l.name
    <3>1. appsInLocation(l.name, filtered) # {}
      BY <2>4 DEF QInv, LocationsOK, Answered
    <3>2. PICK x \in filtered : x.entry.app.location = l.name
      BY <3>1 DEF appsInLocation
    <3> QED BY <2>1, <2>2, <3>2
  <2> QED BY <2>1, <2>2, <2>3, <2>4 DEF OnlyEntitledApps
<1> QED BY <1>1, QueryInvariant, PTL

(* OfferedFiltersFindApps: the label values offered to a user are those of *)
(* the apps he can see (GetLabelsWithAuthz).                               *)
THEOREM OfferedFiltersFindAppsCorrect == QuerySpec => []OfferedFiltersFindApps
<1>1. QInv => OfferedFiltersFindApps
  BY DEF QInv
<1> QED BY <1>1, QueryInvariant, PTL

(* OwnLocationsOnce: the server's own locations take precedence over those *)
(* it scrapes, in every answer (GetLocationsWithStatus, sync).             *)
THEOREM OwnLocationsOnceCorrect == QuerySpec => []OwnLocationsOnce
<1>1. QInv => OwnLocationsOnce
  BY DEF QInv
<1> QED BY <1>1, QueryInvariant, PTL

(* LocationStatusAgrees: a location's status and its counts, computed      *)
(* apart, agree (calculateLocationStatus, calculateLocationStatusCounts).  *)
THEOREM LocationStatusAgreesCorrect == QuerySpec => []LocationStatusAgrees
<1>1. QInv => LocationStatusAgrees
  BY DEF QInv
<1> QED BY <1>1, QueryInvariant, PTL
=============================================================================
