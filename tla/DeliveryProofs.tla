--------------------------- MODULE DeliveryProofs ---------------------------
(***************************************************************************)
(* Theorems about Delivery, for every set of strings, ports, headers,      *)
(* queues, messages, masks, queries and tasks and any number of updates.   *)
(* First come the conversions, which have to undo each other; then what an *)
(* update, a task and a request are in terms of them; then the steps.      *)
(***************************************************************************)
EXTENDS Delivery, FiniteSetTheorems, NaturalsInduction, SequenceTheorems, TLAPS

-----------------------------------------------------------------------------
(* Values.                                                                   *)

(* Nil is no number and no message. *)
LEMMA NilFacts ==
    /\ Nil \notin Int /\ Nil \notin Ports
    /\ Nil \notin TargetURIs /\ Nil \notin Targets /\ Nil \notin Retries
    /\ Nil \notin CoreQueues
BY Zenon, MessagesAssumption

(* Every method has a name, and the method a name stands for has that name again. *)
LEMMA MethodNames ==
    ASSUME NEW m
    PROVE  /\ HttpMethodName(m) # ""
           /\ HttpMethodEnum(HttpMethodName(m)) \in 1 .. 7
           /\ HttpMethodName(HttpMethodEnum(HttpMethodName(m))) = HttpMethodName(m)
<1>1. /\ Methods[1] = "POST" /\ Methods[2] = "GET" /\ Methods[3] = "HEAD" /\ Methods[4] = "PUT"
      /\ Methods[5] = "DELETE" /\ Methods[6] = "PATCH" /\ Methods[7] = "OPTIONS"
  BY DEF Methods
<1>2. PICK k \in 1 .. 7 : HttpMethodName(m) = Methods[k]
  BY <1>1 DEF HttpMethodName
<1>3. Methods[k] # ""
  <2>1. k = 1 \/ k = 2 \/ k = 3 \/ k = 4 \/ k = 5 \/ k = 6 \/ k = 7
    OBVIOUS
  <2> QED
    BY <1>1, <2>1
<1>4. HttpMethodEnum(Methods[k]) \in 1 .. 7 /\ Methods[HttpMethodEnum(Methods[k])] = Methods[k]
  BY Zenon DEF HttpMethodEnum
<1>5. \A e \in 1 .. 7 : HttpMethodName(e) = Methods[e]
  BY DEF HttpMethodName
<1> QED
  BY <1>2, <1>3, <1>4, <1>5, Zenon

(* A duration survives the way into a message and back. *)
LEMMA Durations ==
    /\ \A d \in Int : DurToDuration(DurationToDur(d)) = d /\ DurationToDur(d) \in Int \union {Nil}
    /\ \A d \in Int \union {Nil} : DurToDuration(d) \in Int
BY NilFacts DEF DurToDuration, DurationToDur

(* A non-empty set of indices has a last one. *)
LEMMA LastIndex ==
    ASSUME NEW n \in Nat, NEW I \in SUBSET (1 .. n), I # {}
    PROVE  \E i \in I : \A j \in I : j <= i
<1> DEFINE T == {n - i : i \in I}
<1>1. T \in SUBSET Nat /\ T # {}
  <2>1. \A i \in I : n - i \in Nat
    OBVIOUS
  <2> QED
    BY <2>1, Zenon
<1>2. IsWellFoundedOn(OpToRel(<,Nat), Nat)
  BY NatLessThanWellFounded
<1>3. PICK x \in T : \A y \in T : ~(<<y, x>> \in OpToRel(<, Nat))
  BY <1>1, <1>2, WFMin
<1>4. \A y \in T : ~(y < x)
  BY <1>1, <1>3 DEF OpToRel
<1>5. PICK i \in I : x = n - i
  OBVIOUS
<1>6. \A j \in I : ~(n - j < n - i)
  BY <1>4, <1>5, Zenon
<1> QED
  BY <1>6

(* SetToSeq lists every element of a finite set exactly once. *)
LEMMA SetToSeqCovers ==
    ASSUME NEW S, IsFiniteSet(S)
    PROVE  /\ SetToSeq(S) \in Seq(S)
           /\ \A x \in S : \E i \in DOMAIN SetToSeq(S) : SetToSeq(S)[i] = x
           /\ \A i, j \in DOMAIN SetToSeq(S) : SetToSeq(S)[i] = SetToSeq(S)[j] => i = j
<1> DEFINE n == Cardinality(S)
           f == SetToSeq(S)
<1>1. n \in Nat /\ ExistsBijection(1 .. n, S)
  BY FS_CardinalityType
<1>2. PICK g : g \in Bijection(1 .. n, S)
  BY <1>1, Zenon DEF ExistsBijection
<1>3. \E h \in [1 .. n -> S] : IsInjective(h)
  BY <1>2, Zenon DEF Bijection, Injection, IsInjective
<1>4. f \in [1 .. n -> S] /\ IsInjective(f)
  BY <1>3, Zenon DEF SetToSeq
<1>5. f \in Injection(1 .. n, S)
  BY <1>4, Zenon DEF Injection, IsInjective
<1>6. f \in Surjection(1 .. n, S)
  BY <1>1, <1>5, FS_Injection, FS_Interval
<1>7. f \in Seq(S)
  BY <1>1, <1>4
<1> QED
  BY <1>4, <1>6, <1>7, Zenon DEF Surjection, IsInjective

(* The headers of a list are a function on its keys. *)
LEMMA HeaderMapIsMap ==
    ASSUME NEW list
    PROVE  /\ DOMAIN HeaderMap(list) = {list[i][1] : i \in DOMAIN list}
           /\ HeaderMap(list) = [k \in DOMAIN HeaderMap(list) |-> HeaderMap(list)[k]]
<1> DEFINE D == {list[i][1] : i \in DOMAIN list}
           e(k) == LET i == CHOOSE i \in DOMAIN list :
                               list[i][1] = k /\ \A j \in DOMAIN list : list[j][1] = k => j <= i
                   IN  list[i][2]
<1>1. HeaderMap(list) = [k \in D |-> e(k)]
  BY Zenon DEF HeaderMap
<1> HIDE DEF e, D
<1>2. DOMAIN HeaderMap(list) = D /\ \A k \in D : HeaderMap(list)[k] = e(k)
  BY <1>1
<1>3. HeaderMap(list) = [k \in DOMAIN HeaderMap(list) |-> HeaderMap(list)[k]]
  BY <1>1, <1>2
<1> QED
  BY <1>2, <1>3, Zenon DEF D

(* It is a finite one, from header names to strings. *)
LEMMA HeaderMapType ==
    ASSUME NEW list \in Seq(HeaderNames \X Strings)
    PROVE  /\ HeaderMap(list) = [k \in DOMAIN HeaderMap(list) |-> HeaderMap(list)[k]]
           /\ IsFiniteSet(DOMAIN HeaderMap(list))
           /\ \A k \in DOMAIN HeaderMap(list) : k \in HeaderNames /\ HeaderMap(list)[k] \in Strings
<1> DEFINE D == {list[i][1] : i \in DOMAIN list}
           f == [i \in 1 .. Len(list) |-> list[i][1]]
<1>1. DOMAIN HeaderMap(list) = D
  BY Zenon DEF HeaderMap
<1>2. Len(list) \in Nat /\ DOMAIN list = 1 .. Len(list)
  OBVIOUS
<1>3. f \in Surjection(1 .. Len(list), D)
  BY <1>2, Zenon DEF Surjection
<1>4. IsFiniteSet(D)
  BY <1>2, <1>3, FS_Surjection, FS_Interval
<1>5. \A i \in DOMAIN list : list[i][1] \in HeaderNames /\ list[i][2] \in Strings
  BY <1>2
<1>6. ASSUME NEW k \in D
      PROVE  HeaderMap(list)[k] \in Strings
  <2> DEFINE I == {i \in DOMAIN list : list[i][1] = k}
             P(i) == list[i][1] = k /\ \A j \in DOMAIN list : list[j][1] = k => j <= i
  <2>1. PICK i \in I : \A j \in I : j <= i
    BY <1>2, LastIndex
  <2>2. \E i1 \in DOMAIN list : P(i1)
    BY <2>1, Zenon
  <2>3. (CHOOSE i1 \in DOMAIN list : P(i1)) \in DOMAIN list
    BY <2>2, Zenon
  <2>4. HeaderMap(list)[k] = list[CHOOSE i1 \in DOMAIN list : P(i1)][2]
    BY Zenon DEF HeaderMap
  <2> QED
    BY <1>5, <2>3, <2>4, Zenon
<1>7. \A k \in D : k \in HeaderNames
  BY <1>5, Zenon
<1> QED
  BY <1>1, <1>4, <1>6, <1>7, HeaderMapIsMap, Zenon

(* Header overrides survive the way into a list, in any order, and back. *)
LEMMA HeadersRoundTrip ==
    ASSUME NEW h, h = [k \in DOMAIN h |-> h[k]], IsFiniteSet(DOMAIN h),
           \A k \in DOMAIN h : k \in HeaderNames /\ h[k] \in Strings
    PROVE  HeaderList(h) \in Seq(HeaderNames \X Strings) /\ HeaderMap(HeaderList(h)) = h
<1> DEFINE S == {<<k, h[k]>> : k \in DOMAIN h}
           f == [k \in DOMAIN h |-> <<k, h[k]>>]
           list == HeaderList(h)
<1>1. f \in Surjection(DOMAIN h, S)
  BY Zenon DEF Surjection
<1>2. IsFiniteSet(S)
  BY <1>1, FS_Surjection
<1>3. /\ list \in Seq(S)
      /\ \A x \in S : \E i \in DOMAIN list : list[i] = x
      /\ \A i, j \in DOMAIN list : list[i] = list[j] => i = j
  BY <1>2, SetToSeqCovers, Zenon DEF HeaderList
<1>4. S \subseteq HeaderNames \X Strings
  OBVIOUS
<1>5. list \in Seq(HeaderNames \X Strings)
  <2> HIDE DEF list, S
  <2> QED
    BY <1>3, <1>4
<1>6. DOMAIN list \subseteq Nat
  <2> HIDE DEF list, S
  <2> QED
    BY <1>3
<1>7. \A i \in DOMAIN list : list[i] \in S
  <2> HIDE DEF list, S
  <2> QED
    BY <1>3
<1>8. \A i \in DOMAIN list : list[i][1] \in DOMAIN h /\ list[i][2] = h[list[i][1]]
                             /\ list[i] = <<list[i][1], h[list[i][1]]>>
  <2> HIDE DEF list
  <2> QED
    BY <1>7
<1>9. {list[i][1] : i \in DOMAIN list} = DOMAIN h
  <2>1. \A k \in DOMAIN h : \E i \in DOMAIN list : list[i][1] = k
    <3> SUFFICES ASSUME NEW k \in DOMAIN h PROVE \E i \in DOMAIN list : list[i][1] = k
      OBVIOUS
    <3>1. PICK i \in DOMAIN list : list[i] = <<k, h[k]>>
      BY <1>3, Zenon
    <3>2. <<k, h[k]>>[1] = k
      OBVIOUS
    <3> QED
      BY <3>1, <3>2, Zenon
  <2> HIDE DEF list
  <2> QED
    BY <1>8, <2>1
<1>10. ASSUME NEW k \in DOMAIN h
       PROVE  HeaderMap(list)[k] = h[k]
  <2> DEFINE P(i) == list[i][1] = k /\ \A j \in DOMAIN list : list[j][1] = k => j <= i
  <2>1. PICK i \in DOMAIN list : list[i][1] = k
    BY <1>9, Zenon
  <2>2. \A j \in DOMAIN list : list[j][1] = k => j = i
    <3> SUFFICES ASSUME NEW j \in DOMAIN list, list[j][1] = k PROVE j = i
      OBVIOUS
    <3>1. list[i] = <<k, h[k]>> /\ list[j] = <<k, h[k]>>
      BY <1>8, <2>1, Zenon
    <3> QED
      BY <1>3, <3>1, Zenon
  <2>3. P(i)
    <3> HIDE DEF list
    <3> QED
      BY <1>6, <2>1, <2>2
  <2>4. /\ (CHOOSE i1 \in DOMAIN list : P(i1)) \in DOMAIN list
        /\ P(CHOOSE i1 \in DOMAIN list : P(i1))
    BY <2>3, Zenon
  <2>5. HeaderMap(list)[k] = list[CHOOSE i1 \in DOMAIN list : P(i1)][2]
    BY <1>9, Zenon DEF HeaderMap
  <2> QED
    BY <1>8, <2>4, <2>5, Zenon
<1>11. HeaderMap(list) = [k \in DOMAIN h |-> HeaderMap(list)[k]]
  BY <1>9, HeaderMapIsMap, Zenon
<1> QED
  BY <1>5, <1>10, <1>11, Zenon

-----------------------------------------------------------------------------
(* Overrides.                                                                *)

(* The URI of an override without one is a URI. *)
LEMMA NoURIKept == NoURI \in CoreURIs
<1>1. "" \in Strings
  BY Zenon, MessagesAssumption
<1> QED
  BY <1>1, Zenon DEF CoreURIs, NoURI

(* The two directions of the header overrides, in terms of the types. *)
LEMMA HeadersKept ==
    /\ \A list \in Seq(HeaderNames \X Strings) : HeaderMap(list) \in Headers
    /\ \A h \in Headers : /\ HeaderList(h) \in Seq(HeaderNames \X Strings)
                              /\ HeaderMap(HeaderList(h)) = h
<1>1. ASSUME NEW list \in Seq(HeaderNames \X Strings)
      PROVE  HeaderMap(list) \in Headers
  <2> DEFINE h == HeaderMap(list)
  <2>1. /\ h = [k \in DOMAIN h |-> h[k]]
        /\ IsFiniteSet(DOMAIN h)
        /\ \A k \in DOMAIN h : k \in HeaderNames /\ h[k] \in Strings
    BY HeaderMapType
  <2> HIDE DEF h
  <2>2. DOMAIN h \in SUBSET HeaderNames /\ h \in [DOMAIN h -> Strings]
    BY <2>1
  <2> QED
    BY <2>1, <2>2 DEF Headers, h
<1>2. ASSUME NEW h \in Headers
      PROVE  /\ HeaderList(h) \in Seq(HeaderNames \X Strings)
             /\ HeaderMap(HeaderList(h)) = h
  <2>1. PICK D \in SUBSET HeaderNames : IsFiniteSet(D) /\ h \in [D -> Strings]
    BY DEF Headers
  <2>2. /\ h = [k \in DOMAIN h |-> h[k]] /\ IsFiniteSet(DOMAIN h)
        /\ \A k \in DOMAIN h : k \in HeaderNames /\ h[k] \in Strings
    BY <2>1
  <2> QED
    BY <2>2, HeadersRoundTrip
<1> QED
  BY <1>1, <1>2

(* An override is made of its fields. *)
LEMMA OverrideFields ==
    ASSUME NEW u \in CoreURIs, NEW e \in BOOLEAN, NEW m \in CoreMethods, NEW k \in Headers,
           NEW a \in Auths \union {Nil}
    PROVE  [uri |-> u, alwaysEnforce |-> e, method |-> m, headers |-> k, auth |-> a] \in Overrides
BY Zenon DEF Overrides

(* The HTTP target of a message becomes an override. *)
LEMMA TargetKept ==
    ASSUME NEW h \in Targets
    PROVE  HTTPOverrideToCore(h) \in Overrides
<1> DEFINE uri == IF h.uri = Nil THEN NoURI
                  ELSE [scheme |-> Scheme(h.uri.scheme), host |-> h.uri.host,
                        port |-> IF h.uri.port = Nil THEN "" ELSE ToString(h.uri.port),
                        path |-> h.uri.path, query |-> h.uri.query]
           enforce == h.uri # Nil /\ h.uri.enforce = "ALWAYS"
           method == IF h.method = 0 THEN "" ELSE HttpMethodName(h.method)
<1>1. h # Nil
  BY NilFacts
<1>2. /\ h.method \in Int /\ h.uri \in TargetURIs \union {Nil}
      /\ h.headers \in Seq(HeaderNames \X Strings) /\ h.auth \in Auths \union {Nil}
  BY DEF Targets
<1>3. HTTPOverrideToCore(h) = [uri |-> uri, alwaysEnforce |-> enforce, method |-> method,
                               headers |-> HeaderMap(h.headers), auth |-> h.auth]
  BY <1>1, Zenon DEF HTTPOverrideToCore
<1>4. uri \in CoreURIs
  <2>1. CASE h.uri = Nil
    BY <2>1, NoURIKept, Zenon
  <2>2. CASE h.uri # Nil
    <3>1. h.uri \in TargetURIs
      BY <1>2, <2>2, Zenon
    <3>2. /\ h.uri.host \in Strings /\ h.uri.path \in Strings /\ h.uri.query \in Strings
          /\ h.uri.port \in Ports \union {Nil}
      BY <3>1 DEF TargetURIs
    <3>3. Scheme(h.uri.scheme) \in {"", "http", "https"}
      BY Zenon DEF Scheme
    <3>4. (IF h.uri.port = Nil THEN "" ELSE ToString(h.uri.port))
              \in {""} \union {ToString(p) : p \in Ports}
      BY <3>2, Zenon
    <3> QED
      BY <2>2, <3>2, <3>3, <3>4, Zenon DEF CoreURIs
  <2> QED
    BY <2>1, <2>2, Zenon
<1>5. method \in CoreMethods
  <2>1. HttpMethodName(h.method) = HttpMethodName(0) \/ h.method \in 1 .. 7
    BY DEF HttpMethodName
  <2>2. 0 \in 0 .. 7 /\ \A k \in 1 .. 7 : k \in 0 .. 7
    OBVIOUS
  <2> QED
    BY <2>1, <2>2, Zenon DEF CoreMethods
<1>6. enforce \in BOOLEAN
  BY Zenon
<1>7. HeaderMap(h.headers) \in Headers
  BY <1>2, HeadersKept, Zenon
<1> HIDE DEF uri, enforce, method
<1> QED
  BY <1>2, <1>3, <1>4, <1>5, <1>6, <1>7, OverrideFields, Zenon

(* An override survives the way into a message and back (httpOverrideFromCore, *)
(* httpOverrideToCore): no port, scheme, method or enforce mode is lost.       *)
LEMMA OverrideRoundTrip ==
    ASSUME NEW o \in Overrides
    PROVE  /\ HTTPOverrideFromCore(o) \in Targets
           /\ HTTPOverrideToCore(HTTPOverrideFromCore(o)) = o
<1> DEFINE scheme == CASE o.uri.scheme = "http" -> "HTTP"
                       [] o.uri.scheme = "https" -> "HTTPS" [] OTHER -> ""
           port == IF o.uri.port = "" THEN Nil
                   ELSE CHOOSE p \in Ports : ToString(p) = o.uri.port
           enforce == IF o.alwaysEnforce THEN "ALWAYS" ELSE "UNSPECIFIED"
           full == [scheme |-> scheme, host |-> o.uri.host, port |-> port, path |-> o.uri.path,
                    query |-> o.uri.query, enforce |-> enforce]
           uri == IF ~HasURI(o) THEN Nil ELSE full
           method == IF o.method = "" THEN 0 ELSE HttpMethodEnum(o.method)
           h == [method |-> method, uri |-> uri, headers |-> HeaderList(o.headers),
                 auth |-> o.auth]
<1>1. HTTPOverrideFromCore(o) = h
  BY Zenon DEF HTTPOverrideFromCore
<1>2. /\ o.uri \in CoreURIs /\ o.alwaysEnforce \in BOOLEAN
      /\ o.method \in CoreMethods
      /\ o.headers \in Headers /\ o.auth \in Auths \union {Nil}
  BY Zenon DEF Overrides
<1>3. /\ o.uri.scheme \in {"", "http", "https"}
      /\ o.uri.host \in Strings /\ o.uri.path \in Strings /\ o.uri.query \in Strings
      /\ o.uri.port \in {""} \union {ToString(p) : p \in Ports}
  BY <1>2, Zenon DEF CoreURIs
<1>4. /\ port \in Ports \union {Nil}
      /\ (IF port = Nil THEN "" ELSE ToString(port)) = o.uri.port
  <2>1. CASE o.uri.port = ""
    BY <2>1, Zenon
  <2>2. CASE o.uri.port # ""
    <3>1. \E p \in Ports : ToString(p) = o.uri.port
      BY <1>3, <2>2, Zenon
    <3>2. port \in Ports /\ ToString(port) = o.uri.port
      BY <2>2, <3>1, Zenon
    <3> QED
      BY <3>2, NilFacts, Zenon
  <2> QED
    BY <2>1, <2>2, Zenon
<1>5. scheme \in Strings /\ Scheme(scheme) = o.uri.scheme
  <2>1. {"", "HTTP", "HTTPS"} \subseteq Strings
    BY Zenon, MessagesAssumption
  <2>2. CASE o.uri.scheme = "http"
    <3>1. scheme = "HTTP"
      BY <2>2, Zenon
    <3> QED
      BY <2>1, <2>2, <3>1, Zenon DEF Scheme
  <2>3. CASE o.uri.scheme = "https"
    <3>1. scheme = "HTTPS"
      BY <2>3, Zenon
    <3> QED
      BY <2>1, <2>3, <3>1, Zenon DEF Scheme
  <2>4. CASE o.uri.scheme = ""
    <3>1. scheme = ""
      BY <2>4, Zenon
    <3> QED
      BY <2>1, <2>4, <3>1, Zenon DEF Scheme
  <2> QED
    BY <1>3, <2>2, <2>3, <2>4, Zenon
<1>6. enforce \in Strings /\ (enforce = "ALWAYS") = o.alwaysEnforce
  <2>1. {"ALWAYS", "UNSPECIFIED"} \subseteq Strings
    BY Zenon, MessagesAssumption
  <2>2. "ALWAYS" # "UNSPECIFIED"
    OBVIOUS
  <2> QED
    BY <1>2, <2>1, <2>2, Zenon
<1>7. /\ method \in Int
      /\ o.method = IF method = 0 THEN "" ELSE HttpMethodName(method)
  <2>1. CASE o.method = ""
    <3>1. method = 0
      BY <2>1, Zenon
    <3> HIDE DEF method
    <3>2. 0 \in Int
      OBVIOUS
    <3> QED
      BY <2>1, <3>1, <3>2, Zenon
  <2>2. CASE o.method # ""
    <3>1. PICK m \in 0 .. 7 : o.method = HttpMethodName(m)
      BY <1>2, <2>2, Zenon DEF CoreMethods
    <3>2. method \in 1 .. 7 /\ HttpMethodName(method) = o.method
      BY <2>2, <3>1, MethodNames, Zenon
    <3> HIDE DEF method
    <3>3. method \in Int /\ method # 0
      BY <3>2
    <3> QED
      BY <3>2, <3>3, Zenon
  <2> QED
    BY <2>1, <2>2, Zenon
<1>8. HeaderList(o.headers) \in Seq(HeaderNames \X Strings) /\ HeaderMap(HeaderList(o.headers)) = o.headers
  BY <1>2, HeadersKept, Zenon
<1> HIDE DEF scheme, port, enforce, method
<1>9. full \in TargetURIs /\ full # Nil
  <2>1. full \in TargetURIs
    BY <1>3, <1>4, <1>5, <1>6, Zenon DEF TargetURIs
  <2> QED
    BY <2>1, NilFacts, Zenon
<1>10. h \in Targets /\ h # Nil
  <2>1. uri \in TargetURIs \union {Nil}
    BY <1>9, Zenon
  <2> HIDE DEF uri
  <2>2. h \in Targets
    BY <1>2, <1>7, <1>8, <2>1, Zenon DEF Targets
  <2> QED
    BY <2>2, NilFacts, Zenon
<1>11. HTTPOverrideToCore(h) =
         [uri |-> IF uri = Nil THEN NoURI
                  ELSE [scheme |-> Scheme(uri.scheme), host |-> uri.host,
                        port |-> IF uri.port = Nil THEN "" ELSE ToString(uri.port),
                        path |-> uri.path, query |-> uri.query],
          alwaysEnforce |-> uri # Nil /\ uri.enforce = "ALWAYS",
          method |-> o.method, headers |-> o.headers, auth |-> o.auth]
  <2> HIDE DEF uri
  <2>1. h.method = method /\ h.uri = uri /\ h.headers = HeaderList(o.headers) /\ h.auth = o.auth
    BY Zenon
  <2> HIDE DEF h
  <2> QED
    BY <1>7, <1>8, <1>10, <2>1, Zenon DEF HTTPOverrideToCore
<1>12. HTTPOverrideToCore(h) =
         [uri |-> o.uri, alwaysEnforce |-> o.alwaysEnforce,
          method |-> o.method, headers |-> o.headers, auth |-> o.auth]
  <2> HIDE DEF h
  <2>1. CASE HasURI(o)
    <3>1. /\ uri # Nil /\ uri.scheme = scheme /\ uri.host = o.uri.host /\ uri.port = port
          /\ uri.path = o.uri.path /\ uri.query = o.uri.query /\ uri.enforce = enforce
      BY <1>9, <2>1, Zenon
    <3> HIDE DEF uri
    <3>2. (uri # Nil /\ uri.enforce = "ALWAYS") = o.alwaysEnforce
      BY <1>6, <3>1, Zenon
    <3>3. o.uri = [scheme |-> o.uri.scheme, host |-> o.uri.host, port |-> o.uri.port,
                   path |-> o.uri.path, query |-> o.uri.query]
      BY <1>2, Zenon DEF CoreURIs
    <3> QED
      BY <1>4, <1>5, <1>11, <3>1, <3>2, <3>3, Zenon
  <2>2. CASE ~HasURI(o)
    <3>1. uri = Nil /\ o.uri = NoURI /\ ~o.alwaysEnforce
      BY <2>2, Zenon DEF HasURI
    <3>2. (uri # Nil /\ uri.enforce = "ALWAYS") = o.alwaysEnforce
      BY <1>2, <3>1, Zenon
    <3> HIDE DEF uri
    <3> QED
      BY <1>11, <3>1, <3>2, Zenon
  <2> QED
    BY <2>1, <2>2, Zenon
<1>13. o = [uri |-> o.uri, alwaysEnforce |-> o.alwaysEnforce,
            method |-> o.method, headers |-> o.headers, auth |-> o.auth]
  BY Zenon DEF Overrides
<1> HIDE DEF h
<1> QED
  BY <1>1, <1>10, <1>12, <1>13, Zenon

-----------------------------------------------------------------------------
(* Queues.                                                                   *)

(* The queues of the engine have had the defaults put in. *)
Configured == {q \in CoreQueues : q.rate # 0 /\ q.retry.maxAttempts # 0}

(* A queue is its fields. *)
LEMMA RawFields ==
    ASSUME NEW q \in CoreQueues
    PROVE  /\ q = [state |-> q.state, rate |-> q.rate, retry |-> q.retry, routing |-> q.routing,
                   override |-> q.override, pull |-> q.pull, taskTTL |-> q.taskTTL]
           /\ q.state \in States /\ q.rate \in Int /\ q.retry \in CoreRetries
           /\ q.routing \in Strings \union {Nil} /\ q.override \in Overrides \union {Nil}
           /\ q.pull \in BOOLEAN /\ q.taskTTL \in Int
           /\ q.retry.maxAttempts \in Int /\ q.retry.maxRetryDuration \in Int
           /\ q.retry = [maxAttempts |-> q.retry.maxAttempts,
                         maxRetryDuration |-> q.retry.maxRetryDuration]
<1>1. q.retry \in CoreRetries
  BY DEF CoreQueues
<1> QED
  BY <1>1 DEF CoreQueues, CoreRetries

(* A queue is made of its fields. *)
LEMMA RawRecord ==
    ASSUME NEW s \in States, NEW r \in Int, NEW t \in CoreRetries, NEW ro \in Strings \union {Nil},
           NEW o \in Overrides \union {Nil}, NEW p \in BOOLEAN, NEW l \in Int
    PROVE  [state |-> s, rate |-> r, retry |-> t, routing |-> ro, override |-> o, pull |-> p,
            taskTTL |-> l] \in CoreQueues
BY DEF CoreQueues

(* Queues with the same fields are the same. *)
LEMMA SameFields ==
    ASSUME NEW p \in CoreQueues, NEW q \in CoreQueues,
           p.state = q.state, p.rate = q.rate, p.retry = q.retry, p.routing = q.routing,
           p.override = q.override, p.pull = q.pull, p.taskTTL = q.taskTTL
    PROVE  p = q
BY RawFields

(* applyQueueDefaults fills in what is zero and leaves a configured queue alone. *)
LEMMA DefaultsApplied ==
    ASSUME NEW q \in CoreQueues
    PROVE  LET d == ApplyQueueDefaults(q)
           IN  /\ d \in Configured
               /\ d.rate = IF q.rate = 0 THEN DefaultRate ELSE q.rate
               /\ d.retry.maxAttempts = IF q.retry.maxAttempts = 0 THEN DefaultAttempts
                                                                   ELSE q.retry.maxAttempts
               /\ d.routing = q.routing /\ d.override = q.override
               /\ d.state = q.state /\ d.pull = q.pull /\ d.taskTTL = q.taskTTL
               /\ q.retry.maxAttempts # 0 => d.retry = q.retry
               /\ q \in Configured => d = q
<1>1. PICK x \in Int : x # 0 /\ x = IF q.rate = 0 THEN DefaultRate ELSE q.rate
  BY RawFields, DeliveryAssumption
<1>2. PICK y \in Int : y # 0 /\ y = IF q.retry.maxAttempts = 0 THEN DefaultAttempts
                                                              ELSE q.retry.maxAttempts
  BY RawFields, DeliveryAssumption
<1>3. PICK t \in CoreRetries : /\ t = [q.retry EXCEPT !.maxAttempts = y]
                               /\ t.maxAttempts = y
                               /\ t.maxRetryDuration = q.retry.maxRetryDuration
  <2>1. ASSUME NEW r \in CoreRetries, NEW t, t = [r EXCEPT !.maxAttempts = y]
        PROVE  t \in CoreRetries /\ t.maxAttempts = y /\ t.maxRetryDuration = r.maxRetryDuration
    BY <2>1 DEF CoreRetries
  <2> QED
    BY <2>1, RawFields, Zenon
<1>4. PICK d \in CoreQueues : /\ d = [[q EXCEPT !.rate = x] EXCEPT !.retry = t]
                              /\ d.rate = x /\ d.retry = t
                              /\ d.state = q.state /\ d.routing = q.routing
                              /\ d.override = q.override
                              /\ d.pull = q.pull /\ d.taskTTL = q.taskTTL
  <2>1. ASSUME NEW d, d = [[q EXCEPT !.rate = x] EXCEPT !.retry = t]
        PROVE  /\ d \in CoreQueues /\ d.rate = x /\ d.retry = t
               /\ d.state = q.state /\ d.routing = q.routing /\ d.override = q.override
               /\ d.pull = q.pull /\ d.taskTTL = q.taskTTL
    BY <2>1 DEF CoreQueues
  <2> QED
    BY <2>1, Zenon
<1>5. ApplyQueueDefaults(q) = d
  <2>1. ApplyQueueDefaults(q) = [q EXCEPT !.rate = x, !.retry.maxAttempts = y]
    BY <1>1, <1>2, RawFields, Zenon DEF ApplyQueueDefaults
  <2>2. [q EXCEPT !.rate = x, !.retry.maxAttempts = y]
          = [[q EXCEPT !.rate = x] EXCEPT !.retry = [q.retry EXCEPT !.maxAttempts = y]]
    BY SMT
  <2> QED
    BY <1>3, <1>4, <2>1, <2>2, Zenon
<1>6. d \in Configured
  BY <1>1, <1>2, <1>3, <1>4 DEF Configured
<1>7. ASSUME q.retry.maxAttempts # 0 PROVE d.retry = q.retry
  <2>1. y = q.retry.maxAttempts
    BY <1>2, <1>7
  <2>2. \A p \in CoreRetries : p.maxAttempts = t.maxAttempts
                              /\ p.maxRetryDuration = t.maxRetryDuration => p = t
    BY DEF CoreRetries
  <2> QED
    BY <1>3, <1>4, <2>1, <2>2, RawFields, Zenon
<1>8. ASSUME q \in Configured PROVE d = q
  <2>1. x = q.rate /\ q.retry.maxAttempts # 0
    BY <1>1, <1>8 DEF Configured
  <2> QED
    BY <1>4, <1>7, <2>1, SameFields, Zenon
<1> QED
  BY <1>1, <1>2, <1>3, <1>4, <1>5, <1>6, <1>7, <1>8, Zenon

(* The fields of a queue message. *)
LEMMA MessageFields ==
    ASSUME NEW v \in Versions, NEW m \in QueueMessages(v)
    PROVE  /\ m.name \in Strings /\ m.state \in Strings /\ m.rate \in Int \union {Nil}
           /\ m.retry \in Retries \union {Nil} /\ m.routing \in Strings \union {Nil}
           /\ v # "v2" => /\ m.target \in Targets \union {Nil} /\ m.pull \in BOOLEAN
                          /\ m.taskTTL \in Int \union {Nil}
<1>1. CASE v = "v2"
  BY <1>1 DEF QueueMessages
<1>2. CASE v # "v2"
  BY <1>2 DEF QueueMessages
<1> QED
  BY <1>1, <1>2

(* A queue message becomes a queue with the fields it gives. *)
LEMMA MessageToCore ==
    ASSUME NEW v \in Versions, NEW m \in QueueMessages(v)
    PROVE  LET q == QueueToCore(v, m)
           IN  /\ q \in CoreQueues
               /\ q.rate = IF m.rate = Nil THEN 0 ELSE m.rate
               /\ q.retry = RetryToCore(m.retry)
               /\ q.retry.maxAttempts = IF m.retry = Nil THEN 0 ELSE m.retry.maxAttempts
               /\ q.routing = m.routing
               /\ q.override = IF v = "v2" THEN Nil ELSE HTTPOverrideToCore(m.target)
<1> DEFINE q == QueueToCore(v, m)
           state == StateToCore(m.state)
           rate == IF m.rate = Nil THEN 0 ELSE m.rate
           retry == RetryToCore(m.retry)
           override == IF v = "v2" THEN Nil ELSE HTTPOverrideToCore(m.target)
           pull == v = "v2beta3" /\ m.pull
           taskTTL == IF v = "v2" THEN 0 ELSE DurToDuration(m.taskTTL)
<1>1. q = [state |-> state, rate |-> rate, retry |-> retry, routing |-> m.routing,
           override |-> override, pull |-> pull, taskTTL |-> taskTTL]
  BY Zenon DEF QueueToCore
<1>2. state \in States
  BY Zenon DEF StateToCore, States
<1>3. rate \in Int
  BY MessageFields
<1>4. /\ retry \in CoreRetries
      /\ retry.maxAttempts = IF m.retry = Nil THEN 0 ELSE m.retry.maxAttempts
  <2>1. CASE m.retry = Nil
    <3>1. retry = [maxAttempts |-> 0, maxRetryDuration |-> 0]
      BY <2>1, Zenon DEF RetryToCore
    <3> HIDE DEF retry
    <3>2. retry \in CoreRetries /\ retry.maxAttempts = 0
      BY <3>1 DEF CoreRetries
    <3> QED
      BY <2>1, <3>2, Zenon
  <2>2. CASE m.retry # Nil
    <3>1. m.retry \in Retries
      BY <2>2, MessageFields, Zenon
    <3>2. ASSUME NEW t \in Retries
          PROVE  LET d == DurToDuration(t.maxRetryDuration)
                 IN  /\ [t EXCEPT !.maxRetryDuration = d] \in CoreRetries
                     /\ [t EXCEPT !.maxRetryDuration = d].maxAttempts = t.maxAttempts
      <4>1. DurToDuration(t.maxRetryDuration) \in Int
        BY Durations DEF Retries
      <4> QED
        BY <4>1 DEF Retries, CoreRetries
    <3>3. retry = [m.retry EXCEPT !.maxRetryDuration = DurToDuration(m.retry.maxRetryDuration)]
      BY <2>2, <3>1 DEF RetryToCore, Retries
    <3> HIDE DEF retry
    <3> QED
      BY <2>2, <3>1, <3>2, <3>3, Zenon
  <2> QED
    BY <2>1, <2>2, Zenon
<1>5. override \in Overrides \union {Nil}
  <2>1. \A h \in Targets \union {Nil} : HTTPOverrideToCore(h) \in Overrides \union {Nil}
    <3>1. HTTPOverrideToCore(Nil) = Nil
      BY Zenon DEF HTTPOverrideToCore
    <3> QED
      BY <3>1, TargetKept, Zenon
  <2> QED
    BY <2>1, MessageFields, Zenon
<1>6. pull \in BOOLEAN
  BY MessageFields, Zenon DEF Versions
<1>7. taskTTL \in Int
  <2>1. v # "v2" => DurToDuration(m.taskTTL) \in Int
    BY MessageFields, Durations, Zenon
  <2>2. 0 \in Int
    OBVIOUS
  <2> QED
    BY <2>1, <2>2, Zenon
<1> HIDE DEF state, rate, retry, override, pull, taskTTL, q
<1>8. q \in CoreQueues
  BY <1>1, <1>2, <1>3, <1>4, <1>5, <1>6, <1>7, MessageFields, RawRecord, Zenon
<1>9. q.rate = rate /\ q.retry = retry /\ q.routing = m.routing /\ q.override = override
  BY <1>1
<1> QED
  BY <1>4, <1>8, <1>9, Zenon DEF q, rate, retry, override

(* The fields an update writes. *)
Written(fields) == IF fields = {} THEN Fields ELSE fields

(* What Engine.UpdateQueue leaves of a queue, field by field; writing what is there *)
(* changes nothing.                                                                 *)
LEMMA UpdatedQueue ==
    ASSUME NEW old \in Configured, old # Nil, NEW q \in CoreQueues, NEW fields
    PROVE  LET u == Updated(old, q, fields)
               G == Written(fields)
           IN  /\ u \in Configured
               /\ u.rate = IF "rate" \in G THEN IF q.rate = 0 THEN DefaultRate ELSE q.rate
                           ELSE old.rate
               /\ u.retry.maxAttempts =
                     IF "retry" \in G
                     THEN IF q.retry.maxAttempts = 0 THEN DefaultAttempts ELSE q.retry.maxAttempts
                     ELSE old.retry.maxAttempts
               /\ u.routing = IF "routing" \in G THEN q.routing ELSE old.routing
               /\ u.override = IF "override" \in G THEN q.override ELSE old.override
               /\ /\ G \subseteq Fields
                  /\ "rate" \in G => q.rate = old.rate
                  /\ "retry" \in G => q.retry = old.retry
                  /\ "routing" \in G => q.routing = old.routing
                  /\ "override" \in G => q.override = old.override
                  => u = old
               /\ G \subseteq Fields => \A f \in DOMAIN old \ G : u[f] = old[f]
<1>1. PICK G : G = Written(fields)
  OBVIOUS
<1>2. PICK m \in CoreQueues : /\ m = [f \in DOMAIN q |-> IF f \in G THEN q[f] ELSE old[f]]
                              /\ m.state = IF "state" \in G THEN q.state ELSE old.state
                              /\ m.rate = IF "rate" \in G THEN q.rate ELSE old.rate
                              /\ m.retry = IF "retry" \in G THEN q.retry ELSE old.retry
                              /\ m.routing = IF "routing" \in G THEN q.routing ELSE old.routing
                              /\ m.override = IF "override" \in G THEN q.override ELSE old.override
                              /\ m.pull = IF "pull" \in G THEN q.pull ELSE old.pull
                              /\ m.taskTTL = IF "taskTTL" \in G THEN q.taskTTL ELSE old.taskTTL
  <2>1. ASSUME NEW m, m = [f \in DOMAIN q |-> IF f \in G THEN q[f] ELSE old[f]]
        PROVE  /\ m.state = IF "state" \in G THEN q.state ELSE old.state
               /\ m.rate = IF "rate" \in G THEN q.rate ELSE old.rate
               /\ m.retry = IF "retry" \in G THEN q.retry ELSE old.retry
               /\ m.routing = IF "routing" \in G THEN q.routing ELSE old.routing
               /\ m.override = IF "override" \in G THEN q.override ELSE old.override
               /\ m.pull = IF "pull" \in G THEN q.pull ELSE old.pull
               /\ m.taskTTL = IF "taskTTL" \in G THEN q.taskTTL ELSE old.taskTTL
    BY <2>1 DEF CoreQueues
  <2>2. ASSUME NEW m, m = [f \in DOMAIN q |-> IF f \in G THEN q[f] ELSE old[f]]
        PROVE  m \in CoreQueues
    BY <2>2 DEF CoreQueues, Configured
  <2> QED
    BY <2>1, <2>2, Zenon
<1>3. Updated(old, q, fields) = ApplyQueueDefaults(m)
  BY <1>1, <1>2, Zenon DEF Updated, Written
<1>4. old \in CoreQueues /\ old.rate # 0 /\ old.retry.maxAttempts # 0
  BY DEF Configured
<1>5. PICK u \in Configured :
          /\ u = ApplyQueueDefaults(m)
          /\ u.rate = IF m.rate = 0 THEN DefaultRate ELSE m.rate
          /\ u.retry.maxAttempts = IF m.retry.maxAttempts = 0 THEN DefaultAttempts
                                                              ELSE m.retry.maxAttempts
          /\ u.routing = m.routing /\ u.override = m.override
          /\ u.state = m.state /\ u.pull = m.pull /\ u.taskTTL = m.taskTTL
          /\ m.retry.maxAttempts # 0 => u.retry = m.retry
          /\ m \in Configured => u = m
  BY DefaultsApplied, Zenon
<1>6. u.rate = IF "rate" \in G THEN IF q.rate = 0 THEN DefaultRate ELSE q.rate ELSE old.rate
  BY <1>2, <1>4, <1>5, Zenon
<1>7. u.retry.maxAttempts =
         IF "retry" \in G
         THEN IF q.retry.maxAttempts = 0 THEN DefaultAttempts ELSE q.retry.maxAttempts
         ELSE old.retry.maxAttempts
  BY <1>2, <1>4, <1>5, Zenon
<1>8. ASSUME G \subseteq Fields,
             "rate" \in G => q.rate = old.rate, "retry" \in G => q.retry = old.retry,
             "routing" \in G => q.routing = old.routing,
             "override" \in G => q.override = old.override
      PROVE  u = old
  <2>1. "state" \notin G /\ "pull" \notin G /\ "taskTTL" \notin G
    BY <1>8, Zenon DEF Fields
  <2>2. m = old
    BY <1>2, <1>4, <1>8, <2>1, SameFields, Zenon
  <2> QED
    BY <1>5, <2>2, Zenon
<1>9. ASSUME G \subseteq Fields, NEW f \in DOMAIN old \ G
      PROVE  u[f] = old[f]
  <2>1. DOMAIN old = {"state", "rate", "retry", "routing", "override", "pull", "taskTTL"}
    BY <1>4 DEF CoreQueues
  <2>2. "state" \notin G /\ "pull" \notin G /\ "taskTTL" \notin G
    BY <1>9, Zenon DEF Fields
  <2>3. /\ u.state = old.state /\ u.pull = old.pull /\ u.taskTTL = old.taskTTL
        /\ "rate" \notin G => u.rate = old.rate
        /\ "routing" \notin G => u.routing = old.routing
        /\ "override" \notin G => u.override = old.override
    BY <1>2, <1>5, <1>6, <2>2, Zenon
  <2>4. "retry" \notin G => u.retry = old.retry
    BY <1>2, <1>4, <1>5, Zenon
  <2>5. ASSUME NEW x
        PROVE  /\ x.state = x["state"] /\ x.rate = x["rate"] /\ x.retry = x["retry"]
               /\ x.routing = x["routing"] /\ x.override = x["override"] /\ x.pull = x["pull"]
               /\ x.taskTTL = x["taskTTL"]
    OBVIOUS
  <2> QED
    BY <1>9, <2>1, <2>3, <2>4, <2>5, Zenon
<1>10. /\ u \in Configured /\ u = Updated(old, q, fields)
       /\ u.routing = IF "routing" \in G THEN q.routing ELSE old.routing
       /\ u.override = IF "override" \in G THEN q.override ELSE old.override
  BY <1>2, <1>3, <1>5, Zenon
<1> QED
  BY <1>1, <1>6, <1>7, <1>8, <1>9, <1>10, Zenon

(* A queue survives the way into a message of either version and back, but for what *)
(* the version has no field for.                                                    *)
LEMMA CoreToMessage ==
    ASSUME NEW v \in Versions, NEW q \in Configured, NEW n \in Strings
    PROVE  LET m == QueueFromCore(v, n, q)
               back == QueueToCore(v, m)
           IN  /\ m \in QueueMessages(v) /\ m.name = n
               /\ back.rate = q.rate /\ back.retry = q.retry /\ back.routing = q.routing
               /\ v # "v2" => back.override = q.override
<1>1. q \in CoreQueues
  BY DEF Configured
<1>2. PICK retry \in Retries :
          /\ retry = [q.retry EXCEPT !.maxRetryDuration = DurationToDur(q.retry.maxRetryDuration)]
          /\ RetryToCore(retry) = q.retry
  <2>1. PICK d : d = DurationToDur(q.retry.maxRetryDuration)
    OBVIOUS
  <2>2. d \in Int \union {Nil} /\ DurToDuration(d) = q.retry.maxRetryDuration
    BY <1>1, <2>1, RawFields, Durations, Zenon
  <2>3. ASSUME NEW t \in CoreRetries, DurToDuration(d) = t.maxRetryDuration,
               NEW retry, retry = [t EXCEPT !.maxRetryDuration = d]
        PROVE  retry \in Retries /\ [retry EXCEPT !.maxRetryDuration = DurToDuration(@)] = t
    <3>1. retry \in Retries /\ retry.maxRetryDuration = d /\ retry.maxAttempts = t.maxAttempts
      BY <2>2, <2>3 DEF CoreRetries, Retries
    <3>2. ASSUME NEW x, x = t.maxRetryDuration
          PROVE  [retry EXCEPT !.maxRetryDuration = x] = t
      BY <2>3, <3>1, <3>2 DEF CoreRetries, Retries
    <3>3. [retry EXCEPT !.maxRetryDuration = DurToDuration(@)]
            = [retry EXCEPT !.maxRetryDuration = DurToDuration(d)]
      BY <3>1, Zenon
    <3> QED
      BY <2>3, <3>1, <3>2, <3>3, Zenon
  <2>4. ASSUME NEW retry \in Retries
        PROVE  RetryToCore(retry) = [retry EXCEPT !.maxRetryDuration = DurToDuration(@)]
    BY NilFacts, Zenon DEF RetryToCore
  <2>5. PICK r : r = [q.retry EXCEPT !.maxRetryDuration = d]
    OBVIOUS
  <2>6. r \in Retries /\ [r EXCEPT !.maxRetryDuration = DurToDuration(@)] = q.retry
    BY <1>1, <2>2, <2>3, <2>5, RawFields
  <2>7. RetryToCore(r) = q.retry
    BY <2>4, <2>6, Zenon
  <2> QED
    BY <2>1, <2>5, <2>6, <2>7, Zenon
<1>3. q.state \in Strings
  <2>1. States \subseteq Strings
    BY MessagesAssumption, Zenon DEF States
  <2> QED
    BY <1>1, <2>1, RawFields, Zenon
<1>4. PICK target \in Targets \union {Nil} :
          /\ target = IF q.override = Nil THEN Nil ELSE HTTPOverrideFromCore(q.override)
          /\ HTTPOverrideToCore(target) = q.override
  <2>1. CASE q.override = Nil
    <3>1. HTTPOverrideToCore(Nil) = Nil
      BY Zenon DEF HTTPOverrideToCore
    <3> QED
      BY <2>1, <3>1, Zenon
  <2>2. CASE q.override # Nil
    <3>1. q.override \in Overrides
      BY <1>1, <2>2, RawFields, Zenon
    <3> QED
      BY <2>2, <3>1, OverrideRoundTrip, Zenon
  <2> QED
    BY <2>1, <2>2, Zenon
<1>5. PICK ttl \in Int \union {Nil} : ttl = DurationToDur(q.taskTTL)
  BY <1>1, RawFields, Durations, Zenon
<1>6. PICK m : m = QueueFromCore(v, n, q)
  OBVIOUS
<1>7. m \in QueueMessages(v) /\ m.name = n /\ m.rate = q.rate /\ m.retry = retry
      /\ m.routing = q.routing /\ (v # "v2" => m.target = target)
  <2>1. /\ q.rate \in Int \union {Nil} /\ q.routing \in Strings \union {Nil} /\ q.pull \in BOOLEAN
        /\ retry \in Retries \union {Nil}
    BY <1>1, RawFields, Zenon
  <2>2. CASE v = "v2"
    <3>1. m = [name |-> n, state |-> q.state, rate |-> q.rate, retry |-> retry,
               routing |-> q.routing]
      BY <1>2, <1>6, <2>2, Zenon DEF QueueFromCore
    <3> QED
      BY <1>3, <2>1, <2>2, <3>1, Zenon DEF QueueMessages
  <2>3. CASE v # "v2"
    <3>1. m = [name |-> n, state |-> q.state, rate |-> q.rate, retry |-> retry,
               routing |-> q.routing, target |-> target, pull |-> q.pull, taskTTL |-> ttl]
      BY <1>2, <1>4, <1>5, <1>6, <2>3, Zenon DEF QueueFromCore
    <3> QED
      BY <1>3, <1>4, <1>5, <2>1, <2>3, <3>1 DEF QueueMessages
  <2> QED
    BY <2>2, <2>3, Zenon
<1>8. q.rate # Nil
  BY <1>1, RawFields, NilFacts
<1> QED
  BY <1>2, <1>4, <1>6, <1>7, <1>8, MessageToCore, Zenon

-----------------------------------------------------------------------------
(* Masks and routes.                                                         *)

(* The field each path of a mask stands for. *)
LEMMA PathFields ==
    ASSUME NEW v \in Versions, NEW p
    PROVE  /\ PathField(v, p) \subseteq Has(v)
           /\ "rate" \in PathField(v, p) <=> p = "rate_limits"
           /\ "retry" \in PathField(v, p) <=> p = "retry_config"
           /\ "override" \in PathField(v, p) <=> v = "v2beta3" /\ p = "http_target"
           /\ "routing" \in PathField(v, p) <=>
                 IF v = "v2" THEN p = "app_engine_routing_override" ELSE p \in AppEnginePaths
<1>1. AppEnginePaths \intersect {"rate_limits", "retry_config", "http_target"} = {}
  BY Zenon, MessagesAssumption
<1>2. {"rate", "retry", "routing"} \subseteq Has(v) /\ (v = "v2beta3" => "override" \in Has(v))
  BY Zenon DEF Has, Fields, Versions
<1>3. CASE p = "rate_limits"
  <2>1. PathField(v, p) = {"rate"}
    BY <1>1, <1>3, Zenon DEF PathField
  <2> QED
    BY <1>1, <1>2, <1>3, <2>1, Zenon
<1>4. CASE p = "retry_config"
  <2>1. PathField(v, p) = {"retry"}
    BY <1>1, <1>4, Zenon DEF PathField
  <2> QED
    BY <1>1, <1>2, <1>4, <2>1, Zenon
<1>5. CASE v = "v2" /\ p = "app_engine_routing_override"
  <2>1. PathField(v, p) = {"routing"}
    BY <1>1, <1>5, Zenon DEF PathField
  <2> QED
    BY <1>1, <1>2, <1>5, <2>1, Zenon
<1>6. CASE v = "v2beta3" /\ p = "http_target"
  <2>1. PathField(v, p) = {"override"}
    BY <1>1, <1>6, Zenon DEF PathField
  <2> QED
    BY <1>1, <1>2, <1>6, <2>1, Zenon
<1>7. CASE v = "v2beta3" /\ p \in AppEnginePaths
  <2>1. p \notin {"rate_limits", "retry_config", "http_target"}
    BY <1>1, <1>7, Zenon
  <2>2. PathField(v, p) = {"routing"}
    BY <1>7, <2>1, Zenon DEF PathField
  <2> QED
    BY <1>2, <1>7, <2>1, <2>2, Zenon
<1>8. CASE /\ p # "rate_limits" /\ p # "retry_config"
           /\ ~(v = "v2" /\ p = "app_engine_routing_override")
           /\ ~(v = "v2beta3" /\ p = "http_target")
           /\ ~(v = "v2beta3" /\ p \in AppEnginePaths)
  <2>1. PathField(v, p) = {}
    BY <1>8, Zenon DEF PathField
  <2>2. v # "v2" => v = "v2beta3"
    BY Zenon DEF Versions
  <2> QED
    BY <1>8, <2>1, <2>2, Zenon
<1> QED
  BY <1>3, <1>4, <1>5, <1>6, <1>7, <1>8, Zenon

(* v2QueueFields and v2beta3QueueFields find the fields the mask names, and no other. *)
LEMMA MaskFields ==
    ASSUME NEW v \in Versions, NEW paths
    PROVE  QueueFields(v, paths) = Named(v, paths)
<1> DEFINE F == QueueFields(v, paths)
           N == Named(v, paths)
<1>1. \A f : f \in F <=> \E p \in paths : f \in PathField(v, p)
  BY Zenon DEF QueueFields
<1>2. /\ "rate" \in N <=> "rate_limits" \in paths
      /\ "retry" \in N <=> "retry_config" \in paths
      /\ "override" \in N <=> v = "v2beta3" /\ "http_target" \in paths
      /\ "routing" \in N <=> IF v = "v2" THEN "app_engine_routing_override" \in paths
                                         ELSE paths \intersect AppEnginePaths # {}
  <2>1. {"rate", "retry", "routing"} \subseteq Has(v)
    BY Zenon DEF Has, Fields
  <2>2. "override" \in Has(v) <=> v = "v2beta3"
    BY Zenon DEF Has, Fields, Versions
  <2>3. "rate" \in N <=> "rate_limits" \in paths
    BY <2>1, Zenon DEF Named
  <2>4. "retry" \in N <=> "retry_config" \in paths
    BY <2>1, Zenon DEF Named
  <2>5. "override" \in N <=> v = "v2beta3" /\ "http_target" \in paths
    BY <2>2, Zenon DEF Named
  <2>6. "routing" \in N <=> IF v = "v2" THEN "app_engine_routing_override" \in paths
                                        ELSE paths \intersect AppEnginePaths # {}
    BY <2>1, Zenon DEF Named
  <2> QED
    BY <2>3, <2>4, <2>5, <2>6, Zenon
<1>3. F \subseteq Fields /\ N \subseteq Fields
  <2>1. Has(v) \subseteq Fields
    BY Zenon DEF Has
  <2>2. N \subseteq Has(v)
    BY Zenon DEF Named
  <2> HIDE DEF F, N
  <2>3. F \subseteq Has(v)
    BY <1>1, PathFields, Zenon
  <2> QED
    BY <2>1, <2>2, <2>3, Zenon
<1> HIDE DEF F, N
<1>4. "rate" \in F <=> "rate" \in N
  <2>1. \A p : "rate" \in PathField(v, p) <=> p = "rate_limits"
    BY PathFields, Zenon
  <2> QED
    BY <1>1, <1>2, <2>1, Zenon
<1>5. "retry" \in F <=> "retry" \in N
  <2>1. \A p : "retry" \in PathField(v, p) <=> p = "retry_config"
    BY PathFields, Zenon
  <2> QED
    BY <1>1, <1>2, <2>1, Zenon
<1>6. "override" \in F <=> "override" \in N
  <2>1. \A p : "override" \in PathField(v, p) <=> v = "v2beta3" /\ p = "http_target"
    BY PathFields, Zenon
  <2> QED
    BY <1>1, <1>2, <2>1, Zenon
<1>7. "routing" \in F <=> "routing" \in N
  <2>1. \A p : "routing" \in PathField(v, p) <=>
                 IF v = "v2" THEN p = "app_engine_routing_override" ELSE p \in AppEnginePaths
    BY PathFields, Zenon
  <2>2. CASE v = "v2"
    <3>1. "routing" \in N <=> "app_engine_routing_override" \in paths
      BY <1>2, <2>2, Zenon
    <3>2. "routing" \in F <=> \E p \in paths : p = "app_engine_routing_override"
      <4>1. \A p : "routing" \in PathField(v, p) <=> p = "app_engine_routing_override"
        BY <2>1, <2>2
      <4> QED
        BY <1>1, <4>1, Zenon
    <3> QED
      BY <3>1, <3>2, Zenon
  <2>3. CASE v # "v2"
    <3>1. "routing" \in N <=> paths \intersect AppEnginePaths # {}
      BY <1>2, <2>3, Zenon
    <3>2. "routing" \in F <=> \E p \in paths : p \in AppEnginePaths
      BY <1>1, <2>1, <2>3, Zenon
    <3> QED
      BY <3>1, <3>2
  <2> QED
    BY <2>2, <2>3, Zenon
<1>8. \A f \in Fields : f \in F <=> f \in N
  BY <1>4, <1>5, <1>6, <1>7, Zenon DEF Fields
<1> QED
  BY <1>3, <1>8, Zenon DEF F, N

(* The first element of a sequence that is put in front of another. *)
LEMMA PrependedFirst ==
    ASSUME NEW S, NEW s \in Seq(S), NEW x
    PROVE  1 \in DOMAIN (<<x>> \o s) /\ (<<x>> \o s)[1] = x
<1>1. PICK T : T = S \union {x}
  OBVIOUS
<1>2. s \in Seq(T)
  BY <1>1
<1>3. PICK t : t = <<x>>
  OBVIOUS
<1>4. t \in Seq(T) /\ Len(t) = 1 /\ t[1] = x
  BY <1>1, <1>3
<1>5. /\ t \o s \in Seq(T) /\ Len(t \o s) = Len(t) + Len(s)
      /\ \A i \in 1 .. Len(t) + Len(s) : (t \o s)[i] = IF i <= Len(t) THEN t[i] ELSE s[i - Len(t)]
  BY <1>2, <1>4, ConcatProperties
<1>6. Len(s) \in Nat /\ DOMAIN (t \o s) = 1 .. Len(t \o s)
  BY <1>2, <1>5, LenProperties
<1>7. 1 \in DOMAIN (t \o s) /\ (t \o s)[1] = t[1]
  BY <1>4, <1>5, <1>6
<1> QED
  BY <1>3, <1>4, <1>7, Zenon

(* An element of two sequences in a row is one of the first or of the second. *)
LEMMA ConcatElement ==
    ASSUME NEW S, NEW T, NEW s \in Seq(S), NEW t \in Seq(T), NEW k \in DOMAIN (s \o t)
    PROVE  (s \o t)[k] \in S \/ (s \o t)[k] \in T
<1>1. PICK U : U = S \union T
  OBVIOUS
<1>2. s \in Seq(U) /\ t \in Seq(U)
  BY <1>1
<1>3. /\ s \o t \in Seq(U) /\ Len(s \o t) = Len(s) + Len(t)
      /\ \A i \in 1 .. Len(s) + Len(t) : (s \o t)[i] = IF i <= Len(s) THEN s[i] ELSE t[i - Len(s)]
  BY <1>2, ConcatProperties
<1>4. Len(s) \in Nat /\ Len(t) \in Nat /\ DOMAIN (s \o t) = 1 .. Len(s \o t)
  BY <1>2, <1>3, LenProperties
<1>5. k \in 1 .. Len(s) + Len(t)
  BY <1>3, <1>4
<1>6. CASE k <= Len(s)
  <2>1. (s \o t)[k] = s[k]
    BY <1>3, <1>5, <1>6
  <2>2. k \in 1 .. Len(s)
    BY <1>4, <1>5, <1>6
  <2>3. s[k] \in S
    BY <2>2, ElementOfSeq
  <2> QED
    BY <2>1, <2>3
<1>7. CASE k > Len(s)
  <2>1. (s \o t)[k] = t[k - Len(s)]
    BY <1>3, <1>4, <1>5, <1>7
  <2>2. k - Len(s) \in 1 .. Len(t)
    BY <1>4, <1>5, <1>7
  <2>3. t[k - Len(s)] \in T
    BY <2>2, ElementOfSeq
  <2> QED
    BY <2>1, <2>3
<1> QED
  BY <1>4, <1>5, <1>6, <1>7

(* Every route starts with the version of its service. *)
LEMMA RouteVersion ==
    ASSUME NEW i \in DOMAIN Routes
    PROVE  /\ Routes[i].version \in Versions /\ Routes[i].version # "*"
           /\ 1 \in DOMAIN Routes[i].segments
           /\ Routes[i].segments[1] = Routes[i].version
<1>1. DOMAIN Bindings = 1 .. 3
  BY DEF Bindings
<1>2. \A j \in 1 .. 3 : Bindings[j].path \in Seq({"queues", "*", "tasks"})
  <2>1. /\ Bindings[1].path = <<"queues", "*">> /\ Bindings[2].path = <<"queues", "*">>
        /\ Bindings[3].path = <<"queues", "*", "tasks">>
    BY DEF Bindings
  <2>2. \A j \in 1 .. 3 : j = 1 \/ j = 2 \/ j = 3
    OBVIOUS
  <2>3. <<"queues", "*">> \in Seq({"queues", "*", "tasks"})
        /\ <<"queues", "*", "tasks">> \in Seq({"queues", "*", "tasks"})
    OBVIOUS
  <2> QED
    BY <2>1, <2>2, <2>3, Zenon
<1>3. ASSUME NEW v \in Versions, NEW rt \in {NewRoute(v, Bindings[j]) : j \in 1 .. 3}
      PROVE  rt.version = v /\ 1 \in DOMAIN rt.segments /\ rt.segments[1] = v
  <2>1. PICK j \in 1 .. 3 : rt = NewRoute(v, Bindings[j])
    OBVIOUS
  <2>2. PICK path \in Seq({"queues", "*", "tasks"}) : path = Bindings[j].path
    BY <1>2, Zenon
  <2>3. rt.version = v /\ rt.segments = <<v>> \o path
    BY <2>1, <2>2, Zenon DEF NewRoute
  <2>4. 1 \in DOMAIN (<<v>> \o path) /\ (<<v>> \o path)[1] = v
    BY PrependedFirst
  <2> QED
    BY <2>3, <2>4, Zenon
<1>4. ASSUME NEW v
      PROVE  /\ RoutesFor(v) \in Seq({NewRoute(v, Bindings[j]) : j \in 1 .. 3})
             /\ Len(RoutesFor(v)) = 3
  BY <1>1 DEF RoutesFor
<1>5. \/ Routes[i] \in {NewRoute("v2", Bindings[j]) : j \in 1 .. 3}
      \/ Routes[i] \in {NewRoute("v2beta3", Bindings[j]) : j \in 1 .. 3}
  <2>1. PICK A : A = {NewRoute("v2", Bindings[j]) : j \in 1 .. 3}
    OBVIOUS
  <2>2. PICK B : B = {NewRoute("v2beta3", Bindings[j]) : j \in 1 .. 3}
    OBVIOUS
  <2>3. RoutesFor("v2") \in Seq(A) /\ RoutesFor("v2beta3") \in Seq(B)
    BY <1>4, <2>1, <2>2, Zenon
  <2>4. i \in DOMAIN (RoutesFor("v2") \o RoutesFor("v2beta3"))
        /\ Routes[i] = (RoutesFor("v2") \o RoutesFor("v2beta3"))[i]
    BY Zenon DEF Routes
  <2>5. Routes[i] \in A \/ Routes[i] \in B
    BY <2>3, <2>4, ConcatElement, Zenon
  <2> QED
    BY <2>1, <2>2, <2>5, Zenon
<1>6. "v2" \in Versions /\ "v2beta3" \in Versions /\ "*" \notin Versions
  BY Zenon DEF Versions
<1>7. \E v \in Versions : Routes[i] \in {NewRoute(v, Bindings[j]) : j \in 1 .. 3}
  BY <1>5, <1>6, Zenon
<1>8. PICK v \in Versions : Routes[i].version = v /\ 1 \in DOMAIN Routes[i].segments
                            /\ Routes[i].segments[1] = v
  BY <1>3, <1>7, Zenon
<1> QED
  BY <1>6, <1>8, Zenon

(* A request is served by the version in its path. *)
LEMMA ServedByVersion ==
    ASSUME NEW i \in DOMAIN Routes, NEW r, Serves(Routes[i], r)
    PROVE  Routes[i].version = r.segments[1] /\ Routes[i].version \in Versions
<1>1. Matches(Routes[i], r)
  BY Zenon DEF Serves
<1>2. /\ 1 \in DOMAIN Routes[i].segments /\ Routes[i].segments[1] # "*"
      /\ Routes[i].segments[1] = Routes[i].version /\ Routes[i].version \in Versions
  BY RouteVersion, Zenon
<1> QED
  BY <1>1, <1>2, Zenon DEF Matches

-----------------------------------------------------------------------------
(* The state.                                                                *)

(* What GetQueue gave a client of v when the queue n was q. *)
Copied(v, n, q, c) == c = [msg |-> QueueFromCore(v, n, q), seen |-> q]

(* Queues are configured, and what a client holds was once a queue. *)
TypesOK ==
    /\ queues \in [QueueNames -> Configured \union {Nil}]
    /\ DOMAIN copy = Versions
    /\ \A v \in Versions : copy[v] # Nil =>
          \E n \in QueueNames, q \in Configured : Copied(v, n, q, copy[v])
    /\ DOMAIN want = QueueNames
    /\ \A n \in QueueNames : want[n].override \in Targets \union {Nil}
    /\ lost \in [QueueNames -> SUBSET Fields]

(* What a client writes back is a message of its version. *)
LEMMA WritesTyped ==
    ASSUME TypesOK, NEW v \in Versions, NEW m \in Writes(v)
    PROVE  m \in QueueMessages(v)
<1>1. CASE m \in Fresh[v]
  BY <1>1, DeliveryAssumption, Zenon
<1>2. CASE m \notin Fresh[v]
  <2>1. copy[v] # Nil /\ m = copy[v].msg
    BY <1>2, Zenon DEF Writes
  <2>2. PICK n \in QueueNames, q \in Configured :
            copy[v] = [msg |-> QueueFromCore(v, n, q), seen |-> q]
    BY <2>1, Zenon DEF TypesOK, Copied
  <2>3. m = QueueFromCore(v, n, q)
    <3>1. PICK x : x = QueueFromCore(v, n, q)
      OBVIOUS
    <3>2. copy[v] = [msg |-> x, seen |-> q]
      BY <2>2, <3>1, Zenon
    <3>3. copy[v].msg = x
      BY <3>2
    <3> QED
      BY <2>1, <3>1, <3>3, Zenon
  <2>4. n \in Strings
    BY DeliveryAssumption, Zenon
  <2> QED
    BY <2>3, <2>4, CoreToMessage, Zenon
<1> QED
  BY <1>1, <1>2

(* So is the message made for an empty body. *)
LEMMA EmptyTyped ==
    ASSUME NEW v \in Versions
    PROVE  EmptyQueue(v) \in QueueMessages(v)
<1>1. "" \in Strings /\ "UNSPECIFIED" \in Strings
  BY MessagesAssumption, Zenon
<1>2. CASE v = "v2"
  BY <1>1, <1>2, Zenon DEF EmptyQueue, QueueMessages
<1>3. CASE v # "v2"
  BY <1>1, <1>3, Zenon DEF EmptyQueue, QueueMessages
<1> QED
  BY <1>2, <1>3

(* And so is one that has been given the name in the path. *)
LEMMA Renamed ==
    ASSUME NEW v \in Versions, NEW m \in QueueMessages(v), NEW n \in Strings
    PROVE  [m EXCEPT !.name = n] \in QueueMessages(v) /\ [m EXCEPT !.name = n].name = n
<1>1. ASSUME NEW A, NEW B, NEW C, NEW D, NEW E,
             NEW x \in [name : A, state : B, rate : C, retry : D, routing : E], NEW y \in A
      PROVE  /\ [x EXCEPT !.name = y] \in [name : A, state : B, rate : C, retry : D, routing : E]
             /\ [x EXCEPT !.name = y].name = y
  OBVIOUS
<1>2. ASSUME NEW A, NEW B, NEW C, NEW D, NEW E, NEW F, NEW G, NEW H,
             NEW x \in [name : A, state : B, rate : C, retry : D, routing : E, target : F,
                        pull : G, taskTTL : H],
             NEW y \in A
      PROVE  /\ [x EXCEPT !.name = y] \in [name : A, state : B, rate : C, retry : D, routing : E,
                                           target : F, pull : G, taskTTL : H]
             /\ [x EXCEPT !.name = y].name = y
  OBVIOUS
<1>3. CASE v = "v2"
  BY <1>1, <1>3, Zenon DEF QueueMessages
<1>4. CASE v # "v2"
  BY <1>2, <1>4, Zenon DEF QueueMessages
<1> QED
  BY <1>3, <1>4

(* The mask of a REST update is one of those sent, or there is none. *)
LEMMA DecodedPaths ==
    ASSUME NEW v, NEW query, NEW r, r.query = query,
           NEW paths \in LastWritten({FieldPaths(m) : m \in QueryValues(r, MaskParams)}, {})
    PROVE  Scope(v, paths) \in Scopes(v, query)
<1>1. PICK masks : masks = {p[2] : p \in {p \in query : p[1] \in MaskParams}}
  OBVIOUS
<1>2. QueryValues(r, MaskParams) = masks
  BY <1>1, Zenon DEF QueryValues
<1>3. Scopes(v, query) = {Scope(v, FieldPaths(m)) : m \in IF masks = {} THEN {{}} ELSE masks}
  BY <1>1, Zenon DEF Scopes, FieldPaths
<1>4. CASE masks = {}
  <2>1. {FieldPaths(m) : m \in QueryValues(r, MaskParams)} = {}
    BY <1>2, <1>4
  <2>2. paths = {}
    BY <2>1, Zenon DEF LastWritten
  <2>3. FieldPaths({}) = {}
    BY Zenon DEF FieldPaths
  <2>4. {} \in IF masks = {} THEN {{}} ELSE masks
    BY <1>4, Zenon
  <2> QED
    BY <1>3, <2>2, <2>3, <2>4, Zenon
<1>5. CASE masks # {}
  <2>1. {FieldPaths(m) : m \in QueryValues(r, MaskParams)} # {}
    BY <1>2, <1>5
  <2>2. PICK m \in masks : paths = FieldPaths(m)
    BY <1>2, <2>1, Zenon DEF LastWritten
  <2>3. m \in IF masks = {} THEN {{}} ELSE masks
    BY <1>5, <2>2, Zenon
  <2> QED
    BY <1>3, <2>2, <2>3, Zenon
<1> QED
  BY <1>4, <1>5

(* The paths the query may leave in the message. *)
SentPaths(r) == LastWritten({FieldPaths(m) : m \in QueryValues(r, MaskParams)}, {})

(* The path is written last, and into the queue of the body. *)
LEMMA Decoded ==
    ASSUME NEW rt, NEW r, NEW empty, NEW d \in DecodeUpdateQueue(rt, r, empty),
           NEW queue, r.body = Nil => queue = empty, r.body # Nil => queue = r.body
    PROVE  /\ d.queue = [queue EXCEPT !.name = PathName(r)]
           /\ d.paths \in SentPaths(r)
<1>1. PICK body : body = BodyRead(r, empty)
  OBVIOUS
<1>2. body = [queue |-> queue, paths |-> {}]
  BY <1>1, Zenon DEF BodyRead
<1>3. body.queue = queue /\ body.paths = {}
  BY <1>2
<1>4. PICK msg \in QuerySet(body, r) : d = PathSet(msg, r)
  BY <1>1, Zenon DEF DecodeUpdateQueue
<1>5. PICK name, paths :
         paths \in SentPaths(r) /\ msg = [queue |-> [queue EXCEPT !.name = name], paths |-> paths]
  <2>1. PICK names, masks :
            /\ names = LastWritten(QueryValues(r, {"queue.name"}), body.queue.name)
            /\ masks = LastWritten({FieldPaths(m) : m \in QueryValues(r, MaskParams)}, body.paths)
    OBVIOUS
  <2>2. PICK name \in names, paths \in masks :
            msg = [queue |-> [body.queue EXCEPT !.name = name], paths |-> paths]
    BY <1>4, <2>1 DEF QuerySet
  <2>3. masks = SentPaths(r)
    BY <1>3, <2>1, Zenon DEF SentPaths
  <2> QED
    BY <1>3, <2>2, <2>3, Zenon
<1>6. PICK renamed : renamed = [queue EXCEPT !.name = name]
  OBVIOUS
<1>7. PICK n : n = PathName(r)
  OBVIOUS
<1>8. msg = [queue |-> renamed, paths |-> paths] /\ d = [msg EXCEPT !.queue.name = n]
  BY <1>4, <1>5, <1>6, <1>7, Zenon DEF PathSet
<1>9. msg.queue = renamed /\ msg.paths = paths
  BY <1>8
<1>10. PICK named : named = [renamed EXCEPT !.name = n]
  OBVIOUS
<1>11. d.queue = named /\ d.paths = paths
  BY <1>8, <1>9, <1>10
<1>12. named = [queue EXCEPT !.name = n]
  BY <1>6, <1>10
<1> QED
  BY <1>5, <1>7, <1>11, <1>12, Zenon

(* Over gRPC or REST, an update is one of the queue in its message, with a mask the  *)
(* client sent; over REST that is the queue of the path, whatever the body and the   *)
(* query say.                                                                        *)
LEMMA UpdateOf ==
    ASSUME TypesOK, NEW v \in Versions, UpdateQueueGRPC(v) \/ UpdateQueueREST(v)
    PROVE  \E m \in QueueMessages(v) : \E scopes, paths :
               UpdateQueue(v, m.name, scopes, m, paths) /\ Scope(v, paths) \in scopes
<1>1. CASE UpdateQueueGRPC(v)
  <2>1. PICK m \in Writes(v), paths \in Masks[v] :
            UpdateQueue(v, m.name, {Scope(v, paths)}, m, paths)
    BY <1>1, Zenon DEF UpdateQueueGRPC
  <2>2. Scope(v, paths) \in {Scope(v, paths)}
    OBVIOUS
  <2> QED
    BY <2>1, <2>2, WritesTyped, Zenon
<1>2. CASE UpdateQueueREST(v)
  <2>1. PICK n \in QueueNames, body \in Writes(v) \union {Nil}, query \in Queries :
            LET r == [method |-> "PATCH", segments |-> <<v, "queues", n>>, body |-> body,
                      query |-> query]
            IN  \E i \in DOMAIN Routes :
                    /\ Serves(Routes[i], r) /\ Routes[i].rpc = "UpdateQueue"
                    /\ QueryOK(Routes[i], r)
                    /\ \E d \in DecodeUpdateQueue(Routes[i], r, EmptyQueue(v)) :
                           UpdateQueue(Routes[i].version, n, Scopes(v, query), d.queue, d.paths)
    BY <1>2, Zenon DEF UpdateQueueREST
  <2>2. PICK r : r = [method |-> "PATCH", segments |-> <<v, "queues", n>>, body |-> body,
                      query |-> query]
    OBVIOUS
  <2>3. PICK i \in DOMAIN Routes :
            /\ Serves(Routes[i], r)
            /\ \E d \in DecodeUpdateQueue(Routes[i], r, EmptyQueue(v)) :
                   UpdateQueue(Routes[i].version, n, Scopes(v, query), d.queue, d.paths)
    BY <2>1, <2>2, Zenon
  <2>4. PICK d \in DecodeUpdateQueue(Routes[i], r, EmptyQueue(v)) :
            UpdateQueue(Routes[i].version, n, Scopes(v, query), d.queue, d.paths)
    BY <2>3, Zenon
  <2>5. r.segments[1] = v /\ r.segments[3] = n /\ r.body = body /\ r.query = query
    BY <2>2
  <2>6. Routes[i].version = v
    BY <2>3, <2>5, ServedByVersion, Zenon
  <2>7. PICK queue \in QueueMessages(v) :
            (r.body = Nil => queue = EmptyQueue(v)) /\ (r.body # Nil => queue = r.body)
    BY <2>5, WritesTyped, EmptyTyped, Zenon
  <2>8. /\ d.queue = [queue EXCEPT !.name = PathName(r)]
        /\ d.paths \in SentPaths(r)
    BY <2>7, Decoded
  <2>9. Scope(v, d.paths) \in Scopes(v, query)
    BY <2>5, <2>8, DecodedPaths, Zenon DEF SentPaths
  <2>10. n \in Strings
    BY DeliveryAssumption, Zenon
  <2>11. d.queue \in QueueMessages(v) /\ d.queue.name = n
    <3>1. PICK x : x = [queue EXCEPT !.name = n]
      OBVIOUS
    <3>2. x \in QueueMessages(v) /\ x.name = n
      BY <2>10, <3>1, Renamed, Zenon
    <3> QED
      BY <2>5, <2>8, <3>1, <3>2, Zenon DEF PathName
  <2> QED
    BY <2>4, <2>6, <2>9, <2>11, Zenon
<1> QED
  BY <1>1, <1>2

(* The queue n changes only in what some scope the caller gave names. *)
InScope(n) ==
    queues'[n] # queues[n] =>
        /\ last'.name = n
        /\ queues[n] # Nil =>
              \E scope \in last'.scopes :
                  \A f \in DOMAIN queues[n] \ scope : queues'[n][f] = queues[n][f]

(* The fields of q that are not in l are as w asks for. *)
Meets(q, w, l) ==
    /\ "rate" \notin l => q.rate = w.rate
    /\ "retry" \notin l => q.retry.maxAttempts = w.retry
    /\ "routing" \notin l => q.routing = w.routing
    /\ "override" \notin l => q.override = HTTPOverrideToCore(w.override)

(* FieldsAsWritten, for one queue. *)
LEMMA FieldByField ==
    ASSUME NEW q, NEW w, NEW l
    PROVE  Meets(q, w, l) <=>
               \A f \in Fields \ l :
                   CASE f = "retry" -> q.retry.maxAttempts = w.retry
                     [] f = "override" -> q.override = HTTPOverrideToCore(w.override)
                     [] OTHER -> q[f] = w[f]
<1>1. q.rate = q["rate"] /\ w.rate = w["rate"] /\ q.routing = q["routing"] /\ w.routing = w["routing"]
  OBVIOUS
<1> QED
  BY <1>1, Zenon DEF Meets, Fields

(* What a message asks for is what its queue has after the defaults. *)
LEMMA AskedFields ==
    ASSUME NEW v \in Versions, NEW m \in QueueMessages(v), NEW q, q = QueueToCore(v, m)
    PROVE  /\ Asked(v, m, "rate") = IF q.rate = 0 THEN DefaultRate ELSE q.rate
           /\ Asked(v, m, "retry") = IF q.retry.maxAttempts = 0 THEN DefaultAttempts
                                                                ELSE q.retry.maxAttempts
           /\ Asked(v, m, "routing") = q.routing
           /\ HTTPOverrideToCore(Asked(v, m, "override")) = q.override
           /\ Asked(v, m, "override") \in Targets \union {Nil}
<1>1. /\ q.rate = IF m.rate = Nil THEN 0 ELSE m.rate
      /\ q.retry.maxAttempts = IF m.retry = Nil THEN 0 ELSE m.retry.maxAttempts
      /\ q.routing = m.routing
      /\ q.override = IF v = "v2" THEN Nil ELSE HTTPOverrideToCore(m.target)
  BY MessageToCore, Zenon
<1>2. Asked(v, m, "rate") = IF m.rate \in {Nil, 0} THEN DefaultRate ELSE m.rate
  BY Zenon DEF Asked
<1>3. Asked(v, m, "retry") = IF m.retry = Nil \/ m.retry.maxAttempts = 0 THEN DefaultAttempts
                                                                    ELSE m.retry.maxAttempts
  BY Zenon DEF Asked
<1>4. Asked(v, m, "routing") = m.routing
  BY Zenon DEF Asked
<1>5. Asked(v, m, "override") = IF v = "v2" THEN Nil ELSE m.target
  BY Zenon DEF Asked
<1>6. HTTPOverrideToCore(Nil) = Nil
  BY Zenon DEF HTTPOverrideToCore
<1>7. v # "v2" => m.target \in Targets \union {Nil}
  BY MessageFields, Zenon
<1> QED
  BY <1>1, <1>2, <1>3, <1>4, <1>5, <1>6, <1>7, Zenon

(* A field that is not lost was either named and written, or neither. *)
LEMMA HistoryOfUpdate ==
    ASSUME NEW v \in Versions, NEW paths, NEW l, NEW f \in Fields,
           NEW named, named = IF paths = {} THEN Has(v) ELSE Named(v, paths),
           f \notin (l \ named) \union (IF paths = {} \/ Named(v, paths) = {} THEN Fields \ named
                                                                             ELSE {})
    PROVE  \/ f \in named /\ f \in Written(QueueFields(v, paths))
           \/ f \notin named /\ f \notin Written(QueueFields(v, paths)) /\ f \notin l
<1>1. QueueFields(v, paths) = Named(v, paths)
  BY MaskFields
<1>2. paths = {} => QueueFields(v, paths) = {}
  BY Zenon DEF QueueFields
<1> QED
  BY <1>1, <1>2, Zenon DEF Written

(* What an update does: no field goes astray, no other queue changes, and a queue that *)
(* is written back as it was read stays as it is.                                      *)
LEMMA UpdateStep ==
    ASSUME TypesOK, FieldsAsWritten, NEW v \in Versions, NEW m \in QueueMessages(v), NEW scopes,
           NEW paths, UpdateQueue(v, m.name, scopes, m, paths), Scope(v, paths) \in scopes
    PROVE  /\ TypesOK' /\ FieldsAsWritten'
           /\ \A n \in QueueNames : InScope(n)
           /\ last'.back => queues' = queues
           /\ \A n \in QueueNames : queues[n] # Nil => queues'[n] # Nil
<1>1. PICK n \in QueueNames : n = m.name
  BY Zenon DEF UpdateQueue
<1>2. PICK q \in CoreQueues : q = QueueToCore(v, m)
  BY MessageToCore, Zenon
<1>3. PICK named : named = IF paths = {} THEN Has(v) ELSE Named(v, paths)
  OBVIOUS
<1>4. PICK F : F = QueueFields(v, paths)
  OBVIOUS
<1>5. PICK u : u = Updated(queues[n], q, F)
  OBVIOUS
<1>6. PICK w : w = [f \in Fields |->
                       IF queues[n] = Nil \/ f \in named THEN Asked(v, m, f) ELSE want[n][f]]
  OBVIOUS
<1>7. PICK l : l = IF queues[n] = Nil THEN {}
                   ELSE (lost[n] \ named)
                        \union (IF paths = {} \/ Named(v, paths) = {} THEN Fields \ named ELSE {})
  OBVIOUS
<1>8. /\ queues' = [queues EXCEPT ![n] = u] /\ want' = [want EXCEPT ![n] = w]
      /\ lost' = [lost EXCEPT ![n] = l] /\ copy' = [copy EXCEPT ![v] = Nil]
  BY <1>1, <1>2, <1>3, <1>4, <1>5, <1>6, <1>7, Zenon DEF UpdateQueue
<1>9. /\ last'.name = n /\ last'.scopes = scopes
      /\ last'.back => /\ copy[v] # Nil /\ m = copy[v].msg /\ copy[v].seen = queues[n]
                       /\ v = "v2beta3" \/ ~(paths = {} \/ Named(v, paths) = {})
  BY <1>1 DEF UpdateQueue
<1>10. /\ queues'[n] = u /\ \A k \in QueueNames \ {n} : queues'[k] = queues[k]
       /\ want'[n] = w /\ \A k \in QueueNames \ {n} : want'[k] = want[k]
       /\ lost'[n] = l /\ \A k \in QueueNames \ {n} : lost'[k] = lost[k]
  BY <1>8 DEF TypesOK
<1>11. u \in Configured /\ Meets(u, w, l)
  <2>1. /\ w.rate = IF queues[n] = Nil \/ "rate" \in named THEN Asked(v, m, "rate") ELSE want[n].rate
        /\ w.retry = IF queues[n] = Nil \/ "retry" \in named THEN Asked(v, m, "retry") ELSE want[n].retry
        /\ w.routing = IF queues[n] = Nil \/ "routing" \in named THEN Asked(v, m, "routing")
                                                                 ELSE want[n].routing
        /\ w.override = IF queues[n] = Nil \/ "override" \in named THEN Asked(v, m, "override")
                                                                   ELSE want[n].override
    BY <1>6 DEF Fields
  <2>2. CASE queues[n] = Nil
    <3>1. u = ApplyQueueDefaults(q)
      BY <1>5, <2>2, Zenon DEF Updated
    <3>2. /\ u \in Configured
          /\ u.rate = IF q.rate = 0 THEN DefaultRate ELSE q.rate
          /\ u.retry.maxAttempts = IF q.retry.maxAttempts = 0 THEN DefaultAttempts
                                                              ELSE q.retry.maxAttempts
          /\ u.routing = q.routing /\ u.override = q.override
      BY <3>1, DefaultsApplied, Zenon
    <3>3. /\ w.rate = Asked(v, m, "rate") /\ w.retry = Asked(v, m, "retry")
          /\ w.routing = Asked(v, m, "routing") /\ w.override = Asked(v, m, "override")
      BY <2>1, <2>2, Zenon
    <3>4. u.rate = w.rate /\ u.retry.maxAttempts = w.retry /\ u.routing = w.routing
      BY <1>2, <3>2, <3>3, AskedFields, Zenon
    <3>5. u.override = HTTPOverrideToCore(w.override)
      BY <1>2, <3>2, <3>3, AskedFields, Zenon
    <3> QED
      BY <3>2, <3>4, <3>5, Zenon DEF Meets
  <2>3. CASE queues[n] # Nil
    <3>1. PICK old \in Configured : old = queues[n] /\ old # Nil
      BY <2>3, Zenon DEF TypesOK
    <3>2. PICK G : G = Written(F)
      OBVIOUS
    <3>3. ASSUME NEW f \in Fields, f \notin l
          PROVE  \/ f \in named /\ f \in G
                 \/ f \notin named /\ f \notin G /\ f \notin lost[n]
      <4>1. f \notin (lost[n] \ named)
                     \union (IF paths = {} \/ Named(v, paths) = {} THEN Fields \ named ELSE {})
        BY <1>7, <2>3, <3>3, Zenon
      <4>2. G = Written(QueueFields(v, paths))
        BY <1>4, <3>2, Zenon
      <4> QED
        <5>1. \/ f \in named /\ f \in Written(QueueFields(v, paths))
              \/ f \notin named /\ f \notin Written(QueueFields(v, paths)) /\ f \notin lost[n]
          BY <1>3, <4>1, HistoryOfUpdate
        <5> QED
          BY <4>2, <5>1, Zenon
    <3>4. /\ u \in Configured
          /\ u.rate = IF "rate" \in G THEN IF q.rate = 0 THEN DefaultRate ELSE q.rate
                      ELSE old.rate
          /\ u.retry.maxAttempts =
                IF "retry" \in G
                THEN IF q.retry.maxAttempts = 0 THEN DefaultAttempts ELSE q.retry.maxAttempts
                ELSE old.retry.maxAttempts
          /\ u.routing = IF "routing" \in G THEN q.routing ELSE old.routing
          /\ u.override = IF "override" \in G THEN q.override ELSE old.override
      <4>1. u = Updated(old, q, F)
        BY <1>5, <3>1, Zenon
      <4> QED
        BY <3>1, <3>2, <4>1, UpdatedQueue
    <3>5. Meets(old, want[n], lost[n])
      BY <3>1, FieldByField, Zenon DEF FieldsAsWritten
    <3>6. "rate" \in Fields /\ "retry" \in Fields /\ "routing" \in Fields /\ "override" \in Fields
      BY Zenon DEF Fields
    <3>7. ASSUME "rate" \notin l PROVE u.rate = w.rate
      <4>1. CASE "rate" \in named /\ "rate" \in G
        <5>1. w.rate = Asked(v, m, "rate")
          BY <2>1, <4>1, Zenon
        <5>2. u.rate = IF q.rate = 0 THEN DefaultRate ELSE q.rate
          BY <3>4, <4>1, Zenon
        <5> QED
          BY <1>2, <5>1, <5>2, AskedFields, Zenon
      <4>2. CASE "rate" \notin named /\ "rate" \notin G /\ "rate" \notin lost[n]
        <5>1. w.rate = want[n].rate
          BY <2>1, <2>3, <4>2, Zenon
        <5>2. u.rate = old.rate
          BY <3>4, <4>2, Zenon
        <5> QED
          BY <3>5, <4>2, <5>1, <5>2, Zenon DEF Meets
      <4> QED
        BY <3>3, <3>6, <3>7, <4>1, <4>2, Zenon
    <3>8. ASSUME "retry" \notin l PROVE u.retry.maxAttempts = w.retry
      <4>1. CASE "retry" \in named /\ "retry" \in G
        <5>1. w.retry = Asked(v, m, "retry")
          BY <2>1, <4>1, Zenon
        <5>2. u.retry.maxAttempts = IF q.retry.maxAttempts = 0 THEN DefaultAttempts ELSE q.retry.maxAttempts
          BY <3>4, <4>1, Zenon
        <5> QED
          BY <1>2, <5>1, <5>2, AskedFields, Zenon
      <4>2. CASE "retry" \notin named /\ "retry" \notin G /\ "retry" \notin lost[n]
        <5>1. w.retry = want[n].retry
          BY <2>1, <2>3, <4>2, Zenon
        <5>2. u.retry.maxAttempts = old.retry.maxAttempts
          BY <3>4, <4>2, Zenon
        <5> QED
          BY <3>5, <4>2, <5>1, <5>2, Zenon DEF Meets
      <4> QED
        BY <3>3, <3>6, <3>8, <4>1, <4>2, Zenon
    <3>9. ASSUME "routing" \notin l PROVE u.routing = w.routing
      <4>1. CASE "routing" \in named /\ "routing" \in G
        <5>1. w.routing = Asked(v, m, "routing")
          BY <2>1, <4>1, Zenon
        <5>2. u.routing = q.routing
          BY <3>4, <4>1, Zenon
        <5> QED
          BY <1>2, <5>1, <5>2, AskedFields, Zenon
      <4>2. CASE "routing" \notin named /\ "routing" \notin G /\ "routing" \notin lost[n]
        <5>1. w.routing = want[n].routing
          BY <2>1, <2>3, <4>2, Zenon
        <5>2. u.routing = old.routing
          BY <3>4, <4>2, Zenon
        <5> QED
          BY <3>5, <4>2, <5>1, <5>2, Zenon DEF Meets
      <4> QED
        BY <3>3, <3>6, <3>9, <4>1, <4>2, Zenon
    <3>10. ASSUME "override" \notin l PROVE u.override = HTTPOverrideToCore(w.override)
      <4>1. CASE "override" \in named /\ "override" \in G
        <5>1. u.override = q.override /\ w.override = Asked(v, m, "override")
          BY <2>1, <3>4, <4>1, Zenon
        <5> QED
          BY <1>2, <5>1, AskedFields, Zenon
      <4>2. CASE "override" \notin named /\ "override" \notin G /\ "override" \notin lost[n]
        <5>1. u.override = old.override /\ w.override = want[n].override
          BY <2>1, <2>3, <3>4, <4>2, Zenon
        <5> QED
          BY <3>5, <4>2, <5>1, Zenon DEF Meets
      <4> QED
        BY <3>3, <3>6, <3>10, <4>1, <4>2, Zenon
    <3> QED
      BY <3>4, <3>7, <3>8, <3>9, <3>10, Zenon DEF Meets
  <2> QED
    BY <2>2, <2>3
<1>12. u # Nil
  BY <1>11, NilFacts, Zenon DEF Configured
<1>13. FieldsAsWritten'
  <2>1. ASSUME NEW k \in QueueNames, queues'[k] # Nil
        PROVE  Meets(queues'[k], want'[k], lost'[k])
    <3>1. CASE k = n
      BY <1>10, <1>11, <3>1, Zenon
    <3>2. CASE k # n
      <4>1. queues'[k] = queues[k] /\ want'[k] = want[k] /\ lost'[k] = lost[k]
        BY <1>10, <3>2
      <4>2. Meets(queues[k], want[k], lost[k])
        BY <2>1, <4>1, FieldByField, Zenon DEF FieldsAsWritten
      <4> QED
        BY <4>1, <4>2, Zenon
    <3> QED
      BY <3>1, <3>2
  <2> QED
    BY <2>1, FieldByField, Zenon DEF FieldsAsWritten
<1>14. TypesOK'
  <2>1. queues' \in [QueueNames -> Configured \union {Nil}]
    BY <1>8, <1>11 DEF TypesOK
  <2>2. /\ DOMAIN copy' = Versions
        /\ \A x \in Versions : copy'[x] # Nil =>
              \E k \in QueueNames, p \in Configured : Copied(x, k, p, copy'[x])
    <3>1. DOMAIN copy' = Versions /\ \A x \in Versions : copy'[x] # Nil => copy'[x] = copy[x]
      BY <1>8 DEF TypesOK
    <3> QED
      BY <3>1, Zenon DEF TypesOK
  <2>3. DOMAIN want' = QueueNames
    BY <1>8 DEF TypesOK
  <2>4. w.override \in Targets \union {Nil}
    <3>1. w.override = IF queues[n] = Nil \/ "override" \in named THEN Asked(v, m, "override")
                                                                  ELSE want[n].override
      BY <1>6 DEF Fields
    <3> QED
      BY <1>2, <3>1, AskedFields, Zenon DEF TypesOK
  <2>5. \A k \in QueueNames : want'[k].override \in Targets \union {Nil}
    BY <1>10, <2>4, Zenon DEF TypesOK
  <2>6. named \subseteq Fields
    BY <1>3, Zenon DEF Has, Named
  <2>7. l \subseteq Fields
    BY <1>7, <2>6 DEF TypesOK
  <2>8. lost' \in [QueueNames -> SUBSET Fields]
    BY <1>8, <2>7 DEF TypesOK
  <2> QED
    BY <2>1, <2>2, <2>3, <2>5, <2>8, Zenon DEF TypesOK
<1>15. ASSUME last'.back
       PROVE  queues' = queues
  <2>1. /\ copy[v] # Nil /\ m = copy[v].msg /\ copy[v].seen = queues[n]
        /\ v = "v2beta3" \/ ~(paths = {} \/ Named(v, paths) = {})
    BY <1>9, <1>15
  <2>2. PICK k \in QueueNames, old \in Configured :
            copy[v] = [msg |-> QueueFromCore(v, k, old), seen |-> old]
    BY <2>1, Zenon DEF TypesOK, Copied
  <2>3. PICK x : x = QueueFromCore(v, k, old)
    OBVIOUS
  <2>4. copy[v] = [msg |-> x, seen |-> old]
    BY <2>2, <2>3, Zenon
  <2>5. copy[v].msg = x /\ copy[v].seen = old
    BY <2>4
  <2>6. m = QueueFromCore(v, k, old) /\ queues[n] = old
    BY <2>1, <2>3, <2>5, Zenon
  <2>7. k \in Strings
    BY DeliveryAssumption, Zenon
  <2>8. /\ q.rate = old.rate /\ q.retry = old.retry /\ q.routing = old.routing
        /\ v # "v2" => q.override = old.override
    BY <1>2, <2>6, <2>7, CoreToMessage, Zenon
  <2>9. old # Nil
    BY NilFacts, Zenon DEF Configured
  <2>10. PICK G : G = Written(F)
    OBVIOUS
  <2>11. G \subseteq Fields /\ (v = "v2" => "override" \notin G)
    <3>1. F = Named(v, paths)
      BY <1>4, MaskFields, Zenon
    <3>2. F \subseteq Has(v)
      BY <3>1, Zenon DEF Named
    <3>3. F \subseteq Fields /\ (v = "v2" => "override" \notin F)
      BY <3>2, Zenon DEF Has
    <3>4. v = "v2" => F # {}
      BY <2>1, <3>1, Zenon
    <3> QED
      BY <2>10, <3>3, <3>4, Zenon DEF Written
  <2>12. u = old
    <3>1. u = Updated(old, q, F)
      BY <1>5, <2>6, Zenon
    <3>2. v # "v2" /\ "override" \in G => q.override = old.override
      BY <2>8, Zenon
    <3>3. "override" \in G => q.override = old.override
      BY <2>11, <3>2, Zenon
    <3> QED
      BY <2>8, <2>9, <2>10, <2>11, <3>1, <3>3, UpdatedQueue
  <2> QED
    BY <1>8, <2>6, <2>12 DEF TypesOK
<1>16. ASSUME NEW k \in QueueNames PROVE InScope(k)
  <2>1. CASE k # n
    BY <1>10, <2>1, Zenon DEF InScope
  <2>2. CASE k = n
    <3>1. Written(F) = Scope(v, paths) /\ Written(F) \subseteq Fields
      <4>1. F = Named(v, paths)
        BY <1>4, MaskFields, Zenon
      <4>2. Named(v, paths) \subseteq Fields
        BY Zenon DEF Named, Has
      <4> QED
        BY <4>1, <4>2, Zenon DEF Written, Scope
    <3>2. ASSUME queues[n] # Nil, NEW f \in DOMAIN queues[n] \ Scope(v, paths)
          PROVE  queues'[n][f] = queues[n][f]
      <4>1. PICK old \in Configured : old = queues[n] /\ old # Nil
        BY <3>2, Zenon DEF TypesOK
      <4>2. u = Updated(old, q, F)
        BY <1>5, <4>1, Zenon
      <4>3. f \in DOMAIN old \ Written(F)
        BY <3>1, <3>2, <4>1, Zenon
      <4>4. u[f] = old[f]
        BY <3>1, <4>1, <4>2, <4>3, UpdatedQueue
      <4> QED
        BY <1>10, <4>1, <4>4, Zenon
    <3> QED
      BY <1>9, <2>2, <3>2, Zenon DEF InScope
  <2> QED
    BY <2>1, <2>2
<1> QED
  BY <1>9, <1>10, <1>12, <1>13, <1>14, <1>15, <1>16, Zenon

-----------------------------------------------------------------------------
(* Tasks.                                                                    *)

(* The tasks TaskToCore makes, by kind. *)
HTTPTask(d, m, u, h, b, a) ==
    [deadline |-> d, target |-> [type |-> "http", method |-> HttpMethodName(m), url |-> u,
                                 headers |-> h, body |-> b, auth |-> a]]

AppEngineTask(d, m, h, b, r) ==
    [deadline |-> d, target |-> [type |-> "appengine", method |-> HttpMethodName(m),
                                 headers |-> h, body |-> b, routing |-> r]]

PullTask(d, b) == [deadline |-> d, target |-> [type |-> "pull", body |-> b]]

(* The task of an HTTP message. *)
LEMMA HTTPToCore ==
    ASSUME NEW v, NEW m, m.type = "http"
    PROVE  TaskToCore(v, m) = HTTPTask(DurToDuration(m.deadline), m.method, m.url, m.headers,
                                       m.body, m.auth)
  BY Zenon DEF TaskToCore, HTTPTask

(* The task of an App Engine message. *)
LEMMA AppEngineToCore ==
    ASSUME NEW v, NEW m, m.type = "appengine"
    PROVE  TaskToCore(v, m) = AppEngineTask(DurToDuration(m.deadline), m.method, m.headers,
                                            m.body, m.routing)
  BY Zenon DEF TaskToCore, AppEngineTask

(* The task of a pull message, which only v2beta3 has. *)
LEMMA PullToCore ==
    ASSUME NEW v, NEW m, m.type = "pull", v = "v2beta3"
    PROVE  TaskToCore(v, m) = PullTask(DurToDuration(m.deadline), m.body)
  BY Zenon DEF TaskToCore, PullTask

(* Anything else is refused. *)
LEMMA NotATask ==
    ASSUME NEW v, NEW m, m.type # "http", m.type # "appengine", ~(m.type = "pull" /\ v = "v2beta3")
    PROVE  ~ValidTask(TaskToCore(v, m))
<1>1. PICK d : d = DurToDuration(m.deadline)
  OBVIOUS
<1>2. TaskToCore(v, m) = [deadline |-> d, target |-> [type |-> "none"]]
  BY <1>1, Zenon DEF TaskToCore
<1>3. PICK t : t = [deadline |-> d, target |-> [type |-> "none"]]
  OBVIOUS
<1>4. t.target.type = "none"
  BY <1>3
<1>5. ~ValidTask(t)
  BY <1>4, Zenon DEF ValidTask
<1> QED
  BY <1>2, <1>3, <1>5, Zenon

(* So a task that was accepted is of one of three kinds. *)
LEMMA TaskShape ==
    ASSUME NEW v \in Versions, NEW m, ValidTask(TaskToCore(v, m)), m.deadline \in Int \union {Nil}
    PROVE  \E d \in Int :
              \/ /\ m.type = "http"
                 /\ TaskToCore(v, m) = HTTPTask(d, m.method, m.url, m.headers, m.body, m.auth)
              \/ /\ m.type = "appengine"
                 /\ TaskToCore(v, m) = AppEngineTask(d, m.method, m.headers, m.body, m.routing)
              \/ m.type = "pull" /\ TaskToCore(v, m) = PullTask(d, m.body)
<1>1. DurToDuration(m.deadline) \in Int
  BY Durations, Zenon
<1> QED
  BY <1>1, HTTPToCore, AppEngineToCore, PullToCore, NotATask, Zenon

(* An HTTP task survives being read and created again. *)
LEMMA HTTPTaskRoundTrip ==
    ASSUME NEW v \in Versions, NEW d \in Int, NEW m, NEW u, NEW h, NEW b, NEW a, NEW full
    PROVE  LET t == HTTPTask(d, m, u, h, b, a)
               msg == TaskFromCore(v, t, full)
           IN  /\ TaskToCore(v, msg) = t
               /\ msg.deadline \in Int \union {Nil} /\ msg.type = "http" /\ msg.url = u
<1>1. PICK nm : nm = HttpMethodName(m)
  OBVIOUS
<1>2. PICK en : en = HttpMethodEnum(nm)
  OBVIOUS
<1>3. HttpMethodName(en) = HttpMethodName(m)
  BY <1>1, <1>2, MethodNames, Zenon
<1>4. PICK dd \in Int \union {Nil} : dd = DurationToDur(d) /\ DurToDuration(dd) = d
  BY Durations, Zenon
<1>5. PICK tg : tg = [type |-> "http", method |-> nm, url |-> u, headers |-> h, body |-> b, auth |-> a]
  OBVIOUS
<1>6. /\ tg.type = "http" /\ tg.method = nm /\ tg.url = u /\ tg.headers = h /\ tg.body = b
      /\ tg.auth = a
  BY <1>5
<1>7. PICK t : t = [deadline |-> d, target |-> tg]
  OBVIOUS
<1>8. t.deadline = d /\ t.target = tg
  BY <1>7
<1>9. t = HTTPTask(d, m, u, h, b, a)
  BY <1>1, <1>5, <1>7, Zenon DEF HTTPTask
<1>10. PICK msg : msg = [type |-> "http", deadline |-> dd, method |-> en,
                         url |-> u, headers |-> h, body |-> b, auth |-> a]
  OBVIOUS
<1>11. TaskFromCore(v, t, full) = msg
  <2>1. TaskFromCore(v, t, full) =
            [type |-> "http", deadline |-> DurationToDur(t.deadline),
             method |-> HttpMethodEnum(t.target.method), url |-> t.target.url,
             headers |-> t.target.headers, body |-> t.target.body, auth |-> t.target.auth]
    BY <1>6, <1>8, Zenon DEF TaskFromCore
  <2> QED
    BY <1>2, <1>4, <1>6, <1>8, <1>10, <2>1, Zenon
<1>12. /\ msg.type = "http" /\ msg.deadline = dd /\ msg.method = en /\ msg.url = u
       /\ msg.headers = h /\ msg.body = b /\ msg.auth = a
  BY <1>10
<1>13. TaskToCore(v, msg) = HTTPTask(DurToDuration(msg.deadline), msg.method, msg.url,
                                     msg.headers, msg.body, msg.auth)
  BY <1>12, HTTPToCore, Zenon
<1>14. TaskToCore(v, msg) = HTTPTask(d, en, u, h, b, a)
  BY <1>4, <1>12, <1>13, Zenon
<1>15. TaskToCore(v, msg) = HTTPTask(d, m, u, h, b, a)
  BY <1>3, <1>14, Zenon DEF HTTPTask
<1> QED
  BY <1>4, <1>9, <1>11, <1>12, <1>15, Zenon

(* So does an App Engine task, but for its body in the BASIC view. *)
LEMMA AppEngineTaskRoundTrip ==
    ASSUME NEW v \in Versions, NEW d \in Int, NEW m, NEW h, NEW b, NEW r, NEW full
    PROVE  LET t == AppEngineTask(d, m, h, b, r)
               msg == TaskFromCore(v, t, full)
           IN  /\ TaskToCore(v, msg) = AppEngineTask(d, m, h, IF full THEN b ELSE 0, r)
               /\ msg.deadline \in Int \union {Nil} /\ msg.type = "appengine"
<1>1. PICK nm : nm = HttpMethodName(m)
  OBVIOUS
<1>2. PICK en : en = HttpMethodEnum(nm)
  OBVIOUS
<1>3. HttpMethodName(en) = HttpMethodName(m)
  BY <1>1, <1>2, MethodNames, Zenon
<1>4. PICK dd \in Int \union {Nil} : dd = DurationToDur(d) /\ DurToDuration(dd) = d
  BY Durations, Zenon
<1>5. PICK tg : tg = [type |-> "appengine", method |-> nm, headers |-> h, body |-> b, routing |-> r]
  OBVIOUS
<1>6. tg.type = "appengine" /\ tg.method = nm /\ tg.headers = h /\ tg.body = b /\ tg.routing = r
  BY <1>5
<1>7. PICK t : t = [deadline |-> d, target |-> tg]
  OBVIOUS
<1>8. t.deadline = d /\ t.target = tg
  BY <1>7
<1>9. t = AppEngineTask(d, m, h, b, r)
  BY <1>1, <1>5, <1>7, Zenon DEF AppEngineTask
<1>10. PICK c : c = IF full THEN b ELSE 0
  OBVIOUS
<1>11. PICK msg : msg = [type |-> "appengine", deadline |-> dd, method |-> en, headers |-> h,
                         routing |-> r, body |-> c]
  OBVIOUS
<1>12. TaskFromCore(v, t, full) = msg
  <2>1. TaskFromCore(v, t, full) =
            [type |-> "appengine", deadline |-> DurationToDur(t.deadline),
             method |-> HttpMethodEnum(t.target.method), headers |-> t.target.headers,
             routing |-> t.target.routing, body |-> IF full THEN t.target.body ELSE 0]
    BY <1>6, <1>8, Zenon DEF TaskFromCore
  <2> QED
    BY <1>2, <1>4, <1>6, <1>8, <1>10, <1>11, <2>1, Zenon
<1>13. /\ msg.type = "appengine" /\ msg.deadline = dd /\ msg.method = en /\ msg.headers = h
       /\ msg.routing = r /\ msg.body = c
  BY <1>11
<1>14. TaskToCore(v, msg) = AppEngineTask(DurToDuration(msg.deadline), msg.method, msg.headers,
                                          msg.body, msg.routing)
  BY <1>13, AppEngineToCore, Zenon
<1>15. TaskToCore(v, msg) = AppEngineTask(d, en, h, c, r)
  BY <1>4, <1>13, <1>14, Zenon
<1>16. TaskToCore(v, msg) = AppEngineTask(d, m, h, c, r)
  BY <1>3, <1>15, Zenon DEF AppEngineTask
<1> QED
  BY <1>4, <1>9, <1>10, <1>12, <1>13, <1>16, Zenon

(* So does a pull task, if it is accepted. *)
LEMMA PullTaskRoundTrip ==
    ASSUME NEW v \in Versions, NEW d \in Int, NEW b, NEW full,
           ValidTask(TaskToCore(v, TaskFromCore(v, PullTask(d, b), full)))
    PROVE  LET t == PullTask(d, b)
               msg == TaskFromCore(v, t, full)
           IN  /\ TaskToCore(v, msg) = t
               /\ msg.deadline \in Int \union {Nil} /\ msg.type = "pull"
<1>1. PICK dd \in Int \union {Nil} : dd = DurationToDur(d) /\ DurToDuration(dd) = d
  BY Durations, Zenon
<1>2. PICK tg : tg = [type |-> "pull", body |-> b]
  OBVIOUS
<1>3. tg.type = "pull" /\ tg.body = b
  BY <1>2
<1>4. PICK t : t = [deadline |-> d, target |-> tg]
  OBVIOUS
<1>5. t.deadline = d /\ t.target = tg
  BY <1>4
<1>6. t = PullTask(d, b)
  BY <1>2, <1>4, Zenon DEF PullTask
<1>7. v = "v2beta3"
  <2>1. SUFFICES ASSUME v # "v2beta3" PROVE FALSE
    OBVIOUS
  <2>2. TaskFromCore(v, t, full) = [type |-> "none", deadline |-> DurationToDur(t.deadline)]
    BY <1>3, <1>5, <2>1, Zenon DEF TaskFromCore
  <2>3. PICK msg : msg = [type |-> "none", deadline |-> dd]
    OBVIOUS
  <2>4. TaskFromCore(v, t, full) = msg
    BY <1>1, <1>5, <2>2, <2>3, Zenon
  <2>5. msg.type = "none"
    BY <2>3
  <2>6. ~ValidTask(TaskToCore(v, msg))
    BY <2>5, NotATask, Zenon
  <2> QED
    BY <1>6, <2>4, <2>6, Zenon
<1>8. PICK msg : msg = [type |-> "pull", deadline |-> dd, body |-> b]
  OBVIOUS
<1>9. TaskFromCore(v, t, full) = msg
  <2>1. TaskFromCore(v, t, full) =
            [type |-> "pull", deadline |-> DurationToDur(t.deadline), body |-> t.target.body]
    BY <1>3, <1>5, <1>7, Zenon DEF TaskFromCore
  <2> QED
    BY <1>1, <1>3, <1>5, <1>8, <2>1, Zenon
<1>10. msg.type = "pull" /\ msg.deadline = dd /\ msg.body = b
  BY <1>8
<1>11. TaskToCore(v, msg) = PullTask(DurToDuration(msg.deadline), msg.body)
  BY <1>7, <1>10, PullToCore, Zenon
<1>12. TaskToCore(v, msg) = PullTask(d, b)
  BY <1>1, <1>10, <1>11, Zenon
<1> QED
  BY <1>1, <1>6, <1>9, <1>10, <1>12, Zenon

(* What is known of the message of a task. *)
Known(m) == m.deadline \in Int \union {Nil} /\ (m.type = "http" => m.url \in URLs \union {Nil})

(* A task that was accepted survives being read and created again. *)
LEMMA Recreated ==
    ASSUME NEW w \in Versions, NEW made, Known(made), NEW c, c = TaskToCore(w, made), ValidTask(c),
           NEW v \in Versions, NEW view \in {"BASIC", "FULL"},
           NEW m, m = TaskFromCore(v, c, view = "FULL"), ValidTask(TaskToCore(v, m))
    PROVE  /\ Known(m)
           /\ TaskToCore(v, m) = IF c.target.type = "appengine" /\ view = "BASIC"
                                 THEN [c EXCEPT !.target.body = 0] ELSE c
<1>1. PICK d \in Int :
         \/ /\ made.type = "http"
            /\ c = HTTPTask(d, made.method, made.url, made.headers, made.body, made.auth)
         \/ c = AppEngineTask(d, made.method, made.headers, made.body, made.routing)
         \/ c = PullTask(d, made.body)
  <2>1. ValidTask(TaskToCore(w, made)) /\ made.deadline \in Int \union {Nil}
    BY Zenon DEF Known
  <2> QED
    BY <2>1, TaskShape, Zenon
<1>2. CASE made.type = "http"
           /\ c = HTTPTask(d, made.method, made.url, made.headers, made.body, made.auth)
  <2>1. PICK x : x = HttpMethodName(made.method)
    OBVIOUS
  <2>2. c = [deadline |-> d, target |-> [type |-> "http", method |-> x, url |-> made.url,
                   headers |-> made.headers, body |-> made.body, auth |-> made.auth]]
    BY <1>2, <2>1, Zenon DEF HTTPTask
  <2>3. c.target.type = "http"
    BY <2>2
  <2>4. TaskToCore(v, m) = c /\ m.deadline \in Int \union {Nil} /\ m.type = "http" /\ m.url = made.url
    BY <1>2, HTTPTaskRoundTrip
  <2> QED
    BY <1>2, <2>3, <2>4, Zenon DEF Known
<1>3. CASE c = AppEngineTask(d, made.method, made.headers, made.body, made.routing)
  <2>1. PICK x : x = HttpMethodName(made.method)
    OBVIOUS
  <2>2. PICK h : h = made.headers
    OBVIOUS
  <2>3. PICK b : b = made.body
    OBVIOUS
  <2>4. PICK r : r = made.routing
    OBVIOUS
  <2>5. c = [deadline |-> d, target |-> [type |-> "appengine", method |-> x, headers |-> h,
                                         body |-> b, routing |-> r]]
    BY <1>3, <2>1, <2>2, <2>3, <2>4, Zenon DEF AppEngineTask
  <2>6. /\ c.target.type = "appengine"
        /\ [c EXCEPT !.target.body = 0] =
              [deadline |-> d, target |-> [type |-> "appengine", method |-> x, headers |-> h,
                                           body |-> 0, routing |-> r]]
    BY <2>5
  <2>7. PICK full : full = (view = "FULL")
    OBVIOUS
  <2>8. PICK left : left = IF full THEN made.body ELSE 0
    OBVIOUS
  <2>9. /\ TaskToCore(v, m) = AppEngineTask(d, made.method, made.headers, left, made.routing)
         /\ m.deadline \in Int \union {Nil} /\ m.type = "appengine"
    <3>1. m = TaskFromCore(v, c, full)
      BY <2>7, Zenon
    <3> QED
      BY <1>3, <2>8, <3>1, AppEngineTaskRoundTrip
  <2>10. Known(m)
    BY <2>9, Zenon DEF Known
  <2>11. CASE view = "FULL"
    <3>1. TaskToCore(v, m) = c
      BY <1>3, <2>7, <2>8, <2>9, <2>11, Zenon
    <3> QED
      BY <2>10, <2>11, <3>1, Zenon
  <2>12. CASE view = "BASIC"
    <3>1. TaskToCore(v, m) = AppEngineTask(d, made.method, made.headers, 0, made.routing)
      BY <2>7, <2>8, <2>9, <2>12, Zenon
    <3>2. TaskToCore(v, m) = [deadline |-> d, target |-> [type |-> "appengine", method |-> x,
                                 headers |-> h, body |-> 0, routing |-> r]]
      BY <2>1, <2>2, <2>4, <3>1, Zenon DEF AppEngineTask
    <3> QED
      BY <2>6, <2>10, <2>12, <3>2, Zenon
  <2> QED
    BY <2>11, <2>12, Zenon
<1>4. CASE c = PullTask(d, made.body)
  <2>1. c = [deadline |-> d, target |-> [type |-> "pull", body |-> made.body]]
    BY <1>4, Zenon DEF PullTask
  <2>2. c.target.type = "pull"
    BY <2>1
  <2>3. TaskToCore(v, m) = c /\ m.deadline \in Int \union {Nil} /\ m.type = "pull"
    BY <1>4, PullTaskRoundTrip
  <2> QED
    BY <2>2, <2>3, Zenon DEF Known
<1> QED
  BY <1>1, <1>2, <1>3, <1>4

-----------------------------------------------------------------------------
(* Requests.                                                                 *)

(* What applyHTTPOverride makes of the fields of a task. *)
EffectiveMethod(m, ov) ==
    IF ov # Nil /\ ov.method # "" /\ ov.alwaysEnforce THEN ov.method ELSE HttpMethodName(m)

EffectiveURL(u, ov) == IF ov = Nil THEN u ELSE ApplyURIOverride(u, ov)

EffectiveHeaders(h, ov) == IF ov = Nil THEN h ELSE MergeHeaders(h, ov)

EffectiveAuth(a, ov) ==
    IF ov # Nil /\ ov.auth # Nil /\ (a = Nil \/ ov.alwaysEnforce) THEN ov.auth ELSE a

(* The request of an HTTP task, in terms of the override of the copied queue. *)
LEMMA HTTPRequest ==
    ASSUME NEW q, NEW d, NEW m, NEW u, NEW h, NEW b, NEW a,
           NEW req \in BuildRequest(q, HTTPTask(d, m, u, h, b, a))
    PROVE  /\ req.method = EffectiveMethod(m, q.override)
           /\ req.url = EffectiveURL(u, q.override) /\ req.url # Nil
           /\ \E x \in CanonicalHeaders(EffectiveHeaders(h, q.override)) :
                 req.headers = HTTPHeaders(x, EffectiveAuth(a, q.override))
           /\ req.body = b
           /\ req.token = IF EffectiveAuth(a, q.override) = Nil THEN Nil
                          ELSE Token(EffectiveAuth(a, q.override), req.url)
<1> DEFINE ov == q.override
<1> HIDE DEF ov
<1>1. PICK nm : nm = HttpMethodName(m)
  OBVIOUS
<1>2. PICK tg : tg = [type |-> "http", method |-> nm, url |-> u, headers |-> h, body |-> b, auth |-> a]
  OBVIOUS
<1>3. /\ tg.type = "http" /\ tg.method = nm /\ tg.url = u /\ tg.headers = h /\ tg.body = b
      /\ tg.auth = a
  BY <1>2
<1>4. PICK t : t = [deadline |-> d, target |-> tg]
  OBVIOUS
<1>5. t.target = tg
  BY <1>4
<1>6. t = HTTPTask(d, m, u, h, b, a)
  BY <1>1, <1>2, <1>4, Zenon DEF HTTPTask
<1>7. req \in BuildHTTPRequest(q, t)
  BY <1>3, <1>5, <1>6, Zenon DEF BuildRequest
<1>8. PICK eff : eff = ApplyHTTPOverride(tg, ov)
  OBVIOUS
<1>9. PICK em : em = IF ov # Nil /\ ov.method # "" /\ ov.alwaysEnforce THEN ov.method ELSE nm
  OBVIOUS
<1>10. PICK eu : eu = IF ov = Nil THEN u ELSE ApplyURIOverride(u, ov)
  OBVIOUS
<1>11. PICK eh : eh = IF ov = Nil THEN h ELSE MergeHeaders(h, ov)
  OBVIOUS
<1>12. PICK ea : ea = IF ov # Nil /\ ov.auth # Nil /\ (a = Nil \/ ov.alwaysEnforce) THEN ov.auth ELSE a
  OBVIOUS
<1>13. eff = [method |-> em, url |-> eu, headers |-> eh, auth |-> ea]
  <2>1. CASE ov = Nil
    <3>1. eff = [method |-> tg.method, url |-> tg.url, headers |-> tg.headers, auth |-> tg.auth]
      BY <1>8, <2>1, Zenon DEF ApplyHTTPOverride
    <3>2. em = tg.method /\ eu = tg.url /\ eh = tg.headers /\ ea = tg.auth
      BY <1>3, <1>9, <1>10, <1>11, <1>12, <2>1, Zenon
    <3> QED
      BY <3>1, <3>2, Zenon
  <2>2. CASE ov # Nil
    <3>1. eff = [method |-> IF ov.method # "" /\ ov.alwaysEnforce THEN ov.method ELSE tg.method,
                 url |-> ApplyURIOverride(tg.url, ov), headers |-> MergeHeaders(tg.headers, ov),
                 auth |-> IF ov.auth # Nil /\ (tg.auth = Nil \/ ov.alwaysEnforce) THEN ov.auth
                                                                                  ELSE tg.auth]
      BY <1>8, <2>2, Zenon DEF ApplyHTTPOverride
    <3>2. em = IF ov.method # "" /\ ov.alwaysEnforce THEN ov.method ELSE tg.method
      BY <1>3, <1>9, <2>2, Zenon
    <3>3. eu = ApplyURIOverride(tg.url, ov) /\ eh = MergeHeaders(tg.headers, ov)
      BY <1>3, <1>10, <1>11, <2>2, Zenon
    <3>4. ea = IF ov.auth # Nil /\ (tg.auth = Nil \/ ov.alwaysEnforce) THEN ov.auth ELSE tg.auth
      BY <1>3, <1>12, <2>2, Zenon
    <3> QED
      BY <3>1, <3>2, <3>3, <3>4, Zenon
  <2> QED
    BY <2>1, <2>2
<1>14. eff.method = em /\ eff.url = eu /\ eff.headers = eh /\ eff.auth = ea
  BY <1>13
<1>15. PICK tk : tk = IF ea = Nil THEN Nil ELSE Token(ea, eu)
  OBVIOUS
<1>16. /\ eu # Nil
       /\ \E x \in CanonicalHeaders(eh) :
             req = [method |-> em, url |-> eu, headers |-> HTTPHeaders(x, ea), body |-> b, token |-> tk]
  <2>1. BuildHTTPRequest(q, t) =
           IF eff.url = Nil THEN {}
           ELSE {[method |-> eff.method, url |-> eff.url, headers |-> HTTPHeaders(x, eff.auth), body |-> t.target.body,
                  token |-> IF eff.auth = Nil THEN Nil ELSE Token(eff.auth, eff.url)] :
                    x \in CanonicalHeaders(eff.headers)}
    BY <1>5, <1>8, Zenon DEF BuildHTTPRequest, ov
  <2>2. eff.url # Nil
    BY <1>7, <2>1, Zenon
  <2>3. PICK x \in CanonicalHeaders(eff.headers) :
           req = [method |-> eff.method, url |-> eff.url, headers |-> HTTPHeaders(x, eff.auth), body |-> t.target.body,
                  token |-> IF eff.auth = Nil THEN Nil ELSE Token(eff.auth, eff.url)]
    BY <1>7, <2>1, <2>2, Zenon
  <2>4. t.target.body = b
    BY <1>3, <1>5, Zenon
  <2>5. tk = IF eff.auth = Nil THEN Nil ELSE Token(eff.auth, eff.url)
    BY <1>14, <1>15, Zenon
  <2> QED
    BY <1>14, <2>2, <2>3, <2>4, <2>5, Zenon
<1>17. PICK x \in CanonicalHeaders(eh) :
             req = [method |-> em, url |-> eu, headers |-> HTTPHeaders(x, ea), body |-> b, token |-> tk]
  BY <1>16, Zenon
<1>18. req.method = em /\ req.url = eu /\ req.headers = HTTPHeaders(x, ea) /\ req.body = b
       /\ req.token = tk
  <2>1. PICK hs : hs = HTTPHeaders(x, ea)
    OBVIOUS
  <2>2. req = [method |-> em, url |-> eu, headers |-> hs, body |-> b, token |-> tk]
    BY <1>17, <2>1, Zenon
  <2>3. req.method = em /\ req.url = eu /\ req.headers = hs /\ req.body = b /\ req.token = tk
    BY <2>2
  <2> QED
    BY <2>1, <2>3, Zenon
<1>19. em = EffectiveMethod(m, ov)
  BY <1>1, <1>9, Zenon DEF EffectiveMethod
<1>20. eu = EffectiveURL(u, ov) /\ eh = EffectiveHeaders(h, ov) /\ ea = EffectiveAuth(a, ov)
  BY <1>10, <1>11, <1>12, Zenon DEF EffectiveURL, EffectiveHeaders, EffectiveAuth
<1>21. req.method = EffectiveMethod(m, ov) /\ req.url = EffectiveURL(u, ov) /\ req.url # Nil
  BY <1>16, <1>18, <1>19, <1>20, Zenon
<1>22. \E y \in CanonicalHeaders(EffectiveHeaders(h, ov)) :
          req.headers = HTTPHeaders(y, EffectiveAuth(a, ov))
  BY <1>17, <1>18, <1>20, Zenon
<1>23. req.token = IF EffectiveAuth(a, ov) = Nil THEN Nil ELSE Token(EffectiveAuth(a, ov), req.url)
  BY <1>15, <1>18, <1>20, Zenon
<1> QED
  BY <1>18, <1>21, <1>22, <1>23, Zenon DEF ov

(* The request of an App Engine task. *)
LEMMA AppEngineRequest ==
    ASSUME NEW q, NEW d, NEW m, NEW h, NEW b, NEW r,
           NEW req \in BuildRequest(q, AppEngineTask(d, m, h, b, r))
    PROVE  req.body = b /\ req.method = HttpMethodName(m) /\ req.token = Nil
<1>1. PICK nm : nm = HttpMethodName(m)
  OBVIOUS
<1>2. PICK tg : tg = [type |-> "appengine", method |-> nm, headers |-> h, body |-> b, routing |-> r]
  OBVIOUS
<1>3. tg.type = "appengine" /\ tg.method = nm /\ tg.body = b
  BY <1>2
<1>4. PICK t : t = [deadline |-> d, target |-> tg]
  OBVIOUS
<1>5. t.target = tg
  BY <1>4
<1>6. t = AppEngineTask(d, m, h, b, r)
  BY <1>1, <1>2, <1>4, Zenon DEF AppEngineTask
<1>7. req \in BuildAppEngineRequest(q, t)
  BY <1>3, <1>5, <1>6, Zenon DEF BuildRequest
<1>8. \E url, x : req = [method |-> t.target.method, url |-> url, headers |-> x,
                         body |-> t.target.body, token |-> Nil]
  <2>1. AppEngineHost(q, t) # ""
    BY <1>7, Zenon DEF BuildAppEngineRequest
  <2> QED
    BY <1>7, <2>1, Zenon DEF BuildAppEngineRequest
<1>9. PICK url, x : req = [method |-> nm, url |-> url, headers |-> x, body |-> b, token |-> Nil]
  BY <1>3, <1>5, <1>8, Zenon
<1>10. req.method = nm /\ req.body = b /\ req.token = Nil
  BY <1>9
<1> QED
  BY <1>1, <1>10, Zenon

(* A pull task has no request. *)
LEMMA PullRequest ==
    ASSUME NEW q, NEW d, NEW b
    PROVE  BuildRequest(q, PullTask(d, b)) = {}
<1>1. PICK t : t = [deadline |-> d, target |-> [type |-> "pull", body |-> b]]
  OBVIOUS
<1>2. t.target.type = "pull"
  BY <1>1
<1>3. t = PullTask(d, b)
  BY <1>1, Zenon DEF PullTask
<1>4. BuildRequest(q, t) = {}
  BY <1>2, Zenon DEF BuildRequest
<1> QED
  BY <1>3, <1>4, Zenon

(* The override of a target, field by field. *)
LEMMA TargetOverride ==
    ASSUME NEW o \in Targets, NEW ov, ov = HTTPOverrideToCore(o)
    PROVE  /\ ov # Nil
           /\ ov.method = IF o.method = 0 THEN "" ELSE HttpMethodName(o.method)
           /\ ov.alwaysEnforce <=> Enforced(o)
           /\ ov.headers = HeaderMap(o.headers) /\ ov.auth = o.auth
           /\ o.uri = Nil => ov.uri = NoURI
           /\ o.uri # Nil =>
                 ov.uri = [scheme |-> Scheme(o.uri.scheme), host |-> o.uri.host,
                           port |-> IF o.uri.port = Nil THEN "" ELSE ToString(o.uri.port),
                           path |-> o.uri.path, query |-> o.uri.query]
<1>1. o # Nil /\ ov # Nil
  <2>1. ov \in Overrides
    BY TargetKept, Zenon
  <2> QED
    BY <2>1, MessagesAssumption, Zenon
<1>2. PICK u : u = IF o.uri = Nil THEN NoURI
                   ELSE [scheme |-> Scheme(o.uri.scheme), host |-> o.uri.host,
                         port |-> IF o.uri.port = Nil THEN "" ELSE ToString(o.uri.port),
                         path |-> o.uri.path, query |-> o.uri.query]
  OBVIOUS
<1>3. PICK e : e = (o.uri # Nil /\ o.uri.enforce = "ALWAYS")
  OBVIOUS
<1>4. PICK m : m = IF o.method = 0 THEN "" ELSE HttpMethodName(o.method)
  OBVIOUS
<1>5. PICK h : h = HeaderMap(o.headers)
  OBVIOUS
<1>6. PICK a : a = o.auth
  OBVIOUS
<1>7. ov = [uri |-> u, alwaysEnforce |-> e, method |-> m, headers |-> h, auth |-> a]
  BY <1>1, <1>2, <1>3, <1>4, <1>5, <1>6, Zenon DEF HTTPOverrideToCore
<1>8. ov.uri = u /\ ov.alwaysEnforce = e /\ ov.method = m /\ ov.headers = h /\ ov.auth = a
  BY <1>7
<1>9. ov.alwaysEnforce <=> Enforced(o)
  BY <1>1, <1>3, <1>8, Zenon DEF Enforced
<1>10. o.uri = Nil => ov.uri = NoURI
  BY <1>2, <1>8, Zenon
<1>11. o.uri # Nil =>
          ov.uri = [scheme |-> Scheme(o.uri.scheme), host |-> o.uri.host,
                    port |-> IF o.uri.port = Nil THEN "" ELSE ToString(o.uri.port),
                    path |-> o.uri.path, query |-> o.uri.query]
  BY <1>2, <1>8, Zenon
<1> QED
  BY <1>1, <1>4, <1>5, <1>6, <1>8, <1>9, <1>10, <1>11, Zenon

(* An HTTP task with a body has a method that may have one (checkBodyMethod). *)
LEMMA ValidHTTP ==
    ASSUME NEW d, NEW m, NEW u, NEW h, NEW b, NEW a, ValidTask(HTTPTask(d, m, u, h, b, a)), b # 0
    PROVE  HttpMethodName(m) \in {"POST", "PUT", "PATCH"}
<1>1. PICK nm : nm = HttpMethodName(m)
  OBVIOUS
<1>2. PICK tg : tg = [type |-> "http", method |-> nm, url |-> u, headers |-> h, body |-> b, auth |-> a]
  OBVIOUS
<1>3. tg.type = "http" /\ tg.method = nm /\ tg.body = b
  BY <1>2
<1>4. PICK t : t = [deadline |-> d, target |-> tg]
  OBVIOUS
<1>5. t.target = tg
  BY <1>4
<1>6. t = HTTPTask(d, m, u, h, b, a)
  BY <1>1, <1>2, <1>4, Zenon DEF HTTPTask
<1>7. ValidTask(t)
  BY <1>6, Zenon
<1>8. BodyMethodOK(t.target, {"POST", "PUT", "PATCH"})
  BY <1>3, <1>5, <1>7, Zenon DEF ValidTask
<1> QED
  BY <1>1, <1>3, <1>5, <1>8, Zenon DEF BodyMethodOK

(* So has an App Engine task. *)
LEMMA ValidAppEngine ==
    ASSUME NEW d, NEW m, NEW h, NEW b, NEW r, ValidTask(AppEngineTask(d, m, h, b, r)), b # 0
    PROVE  HttpMethodName(m) \in {"POST", "PUT"}
<1>1. PICK nm : nm = HttpMethodName(m)
  OBVIOUS
<1>2. PICK tg : tg = [type |-> "appengine", method |-> nm, headers |-> h, body |-> b, routing |-> r]
  OBVIOUS
<1>3. tg.type = "appengine" /\ tg.method = nm /\ tg.body = b
  BY <1>2
<1>4. PICK t : t = [deadline |-> d, target |-> tg]
  OBVIOUS
<1>5. t.target = tg
  BY <1>4
<1>6. t = AppEngineTask(d, m, h, b, r)
  BY <1>1, <1>2, <1>4, Zenon DEF AppEngineTask
<1>7. ValidTask(t)
  BY <1>6, Zenon
<1>8. BodyMethodOK(t.target, {"POST", "PUT"})
  BY <1>3, <1>5, <1>7, Zenon DEF ValidTask
<1> QED
  BY <1>1, <1>3, <1>5, <1>8, Zenon DEF BodyMethodOK

(* A token is for the audience of its account, or by default for the URL. *)
LEMMA TokenFields ==
    ASSUME NEW a, NEW u
    PROVE  /\ Token(a, u).kind = a.kind /\ Token(a, u).email = a.email
           /\ Token(a, u).for = IF a.kind = "oidc" /\ a.for = Nil THEN u ELSE a.for
<1>1. PICK f : f = IF a.kind = "oidc" /\ a.for = Nil THEN u ELSE a.for
  OBVIOUS
<1>2. PICK k, e : k = a.kind /\ e = a.email
  OBVIOUS
<1>3. Token(a, u) = [kind |-> k, email |-> e, for |-> f]
  BY <1>1, <1>2, Zenon DEF Token
<1>4. Token(a, u).kind = k /\ Token(a, u).email = e /\ Token(a, u).for = f
  BY <1>3
<1> QED
  BY <1>1, <1>2, <1>4, Zenon

(* A request built for an accepted task is sound. *)
LEMMA SoundRequest ==
    ASSUME NEW v \in Versions, NEW msg, Known(msg), NEW c, c = TaskToCore(v, msg), ValidTask(c),
           NEW q, NEW target \in Targets \union {Nil}, NEW known,
           known => q.override = HTTPOverrideToCore(target), NEW req \in BuildRequest(q, c)
    PROVE  /\ req.body # 0 =>
                 \/ req.method \in {"POST", "PUT", "PATCH"}
                 \/ ~known
                 \/ Enforced(target) /\ target.method # 0
           /\ req.token # Nil /\ req.token.kind = "oidc" =>
                 \/ req.token.for = req.url
                 \/ ~known
                 \/ \E a \in {msg.auth, IF target = Nil THEN Nil ELSE target.auth} :
                        a # Nil /\ req.token.for = a.for /\ a.for # Nil
<1>1. PICK d \in Int :
         \/ c = HTTPTask(d, msg.method, msg.url, msg.headers, msg.body, msg.auth)
         \/ c = AppEngineTask(d, msg.method, msg.headers, msg.body, msg.routing)
         \/ c = PullTask(d, msg.body)
  <2>1. ValidTask(TaskToCore(v, msg)) /\ msg.deadline \in Int \union {Nil}
    BY Zenon DEF Known
  <2> QED
    BY <2>1, TaskShape, Zenon
<1>2. CASE c = HTTPTask(d, msg.method, msg.url, msg.headers, msg.body, msg.auth)
  <2>1. /\ req.method = EffectiveMethod(msg.method, q.override)
        /\ req.body = msg.body
        /\ req.token = IF EffectiveAuth(msg.auth, q.override) = Nil THEN Nil
                       ELSE Token(EffectiveAuth(msg.auth, q.override), req.url)
    <3>1. req \in BuildRequest(q, HTTPTask(d, msg.method, msg.url, msg.headers, msg.body, msg.auth))
      BY <1>2, Zenon
    <3> QED
      BY <3>1, HTTPRequest
  <2>2. PICK ov, auth : ov = q.override /\ auth = EffectiveAuth(msg.auth, ov)
    OBVIOUS
  <2>3. req.token = IF auth = Nil THEN Nil ELSE Token(auth, req.url)
    BY <2>1, <2>2, Zenon
  <2>4. req.method = EffectiveMethod(msg.method, ov)
    BY <2>1, <2>2, Zenon
  <2>5. msg.body # 0 => HttpMethodName(msg.method) \in {"POST", "PUT", "PATCH"}
    BY <1>2, ValidHTTP, Zenon
  <2>6. ASSUME known, ov # Nil
        PROVE  /\ target # Nil /\ ov.auth = target.auth
               /\ ov.method # "" /\ ov.alwaysEnforce => Enforced(target) /\ target.method # 0
    <3>1. target # Nil
      BY <2>2, <2>6, Zenon DEF HTTPOverrideToCore
    <3>2. target \in Targets /\ ov = HTTPOverrideToCore(target)
      BY <2>2, <2>6, <3>1, Zenon
    <3>3. /\ ov.method = IF target.method = 0 THEN "" ELSE HttpMethodName(target.method)
          /\ ov.alwaysEnforce <=> Enforced(target)
          /\ ov.auth = target.auth
      BY <3>2, TargetOverride, Zenon
    <3> QED
      BY <3>1, <3>3, Zenon
  <2>7. req.body # 0 => \/ req.method \in {"POST", "PUT", "PATCH"}
                        \/ ~known
                        \/ Enforced(target) /\ target.method # 0
    BY <2>1, <2>4, <2>5, <2>6, Zenon DEF EffectiveMethod
  <2>8. ASSUME req.token # Nil, req.token.kind = "oidc", req.token.for # req.url, known
        PROVE  \E a \in {msg.auth, IF target = Nil THEN Nil ELSE target.auth} :
                  a # Nil /\ req.token.for = a.for /\ a.for # Nil
    <3>1. auth # Nil /\ req.token = Token(auth, req.url)
      BY <2>3, <2>8, Zenon
    <3>2. req.token.kind = auth.kind
          /\ req.token.for = IF auth.kind = "oidc" /\ auth.for = Nil THEN req.url
                                                                             ELSE auth.for
      BY <3>1, TokenFields
    <3>3. req.token.for = auth.for /\ auth.for # Nil
      BY <2>8, <3>2, Zenon
    <3>4. auth \in {msg.auth, IF target = Nil THEN Nil ELSE target.auth}
      BY <2>2, <2>6, <2>8, Zenon DEF EffectiveAuth
    <3> QED
      BY <3>1, <3>3, <3>4, Zenon
  <2> QED
    BY <2>7, <2>8, Zenon
<1>3. CASE c = AppEngineTask(d, msg.method, msg.headers, msg.body, msg.routing)
  <2>1. req \in BuildRequest(q, AppEngineTask(d, msg.method, msg.headers, msg.body, msg.routing))
    BY <1>3, Zenon
  <2>2. req.body = msg.body /\ req.method = HttpMethodName(msg.method) /\ req.token = Nil
    BY <2>1, AppEngineRequest
  <2>3. msg.body # 0 => HttpMethodName(msg.method) \in {"POST", "PUT"}
    BY <1>3, ValidAppEngine, Zenon
  <2>4. req.body # 0 => req.method \in {"POST", "PUT", "PATCH"}
    BY <2>2, <2>3, Zenon
  <2> QED
    BY <2>2, <2>4, Zenon
<1>4. CASE c = PullTask(d, msg.body)
  BY <1>4, PullRequest, Zenon
<1> QED
  BY <1>1, <1>2, <1>3, <1>4

(* A component of a task's URL as the override finds it. *)
KeptComponent(u, c) == IF c = "host" THEN Hostname[u.host] ELSE u[c]

(* A component of the URL is the override's where it is set and either enforced or *)
(* missing, else the task's.                                                       *)
LEMMA OverriddenURL ==
    ASSUME NEW u \in URLs, u # Nil, NEW ov, NEW c \in URIComponents
    PROVE  ApplyURIOverride(u, ov)[c] =
               IF ov.uri[c] # "" /\ (ov.alwaysEnforce \/ Unset(c, KeptComponent(u, c))) THEN ov.uri[c]
                                                                              ELSE KeptComponent(u, c)
<1> DEFINE r == ApplyURIOverride(u, ov)
<1> DEFINE url == [u EXCEPT !.host = Hostname[@]]
<1>1. PICK hn : hn = Hostname[u.host]
  OBVIOUS
<1>2. url = [u EXCEPT !.host = hn]
  BY <1>1
<1>3. url[c] = IF c = "host" THEN hn ELSE u[c]
  BY <1>2 DEF URLs, URIComponents
<1>4. r = [x \in URIComponents |->
              IF ov.uri[x] # "" /\ (ov.alwaysEnforce \/ Unset(x, url[x])) THEN ov.uri[x] ELSE url[x]]
  BY Zenon DEF ApplyURIOverride
<1> HIDE DEF url, r
<1>5. r[c] = IF ov.uri[c] # "" /\ (ov.alwaysEnforce \/ Unset(c, url[c])) THEN ov.uri[c] ELSE url[c]
  BY <1>4, Zenon
<1>6. url[c] = KeptComponent(u, c)
  BY <1>1, <1>3, Zenon DEF KeptComponent
<1> QED
  BY <1>5, <1>6, Zenon DEF r

(* The components of an override are those its target asks for. *)
LEMMA TargetComponents ==
    ASSUME NEW o \in Targets, NEW ov, ov = HTTPOverrideToCore(o), NEW c \in URIComponents
    PROVE  ov.uri[c] = Asks(o, c)
<1>1. o # Nil
  BY MessagesAssumption, Zenon
<1>2. CASE o.uri = Nil
  <2>1. ov.uri = [scheme |-> "", host |-> "", port |-> "", path |-> "", query |-> ""]
    BY <1>2, TargetOverride, Zenon DEF NoURI
  <2>2. ov.uri[c] = ""
    <3>1. ASSUME NEW e, NEW u, u = [scheme |-> e, host |-> e, port |-> e, path |-> e, query |-> e]
          PROVE  u["scheme"] = e /\ u["host"] = e /\ u["port"] = e /\ u["path"] = e /\ u["query"] = e
      BY <3>1
    <3>2. PICK e : e = ""
      OBVIOUS
    <3>3. PICK u : u = ov.uri
      OBVIOUS
    <3>4. u = [scheme |-> e, host |-> e, port |-> e, path |-> e, query |-> e]
      BY <2>1, <3>2, <3>3, Zenon
    <3>5. u["scheme"] = e /\ u["host"] = e /\ u["port"] = e /\ u["path"] = e /\ u["query"] = e
      BY <3>1, <3>4, Zenon
    <3> QED
      BY <3>2, <3>3, <3>5, Zenon DEF URIComponents
  <2>3. Asks(o, c) = ""
    BY <1>2, Zenon DEF Asks
  <2> QED
    BY <2>2, <2>3, Zenon
<1>3. CASE o.uri # Nil
  <2>1. PICK s, p : s = Scheme(o.uri.scheme)
                    /\ p = IF o.uri.port = Nil THEN "" ELSE ToString(o.uri.port)
    OBVIOUS
  <2>2. ov.uri = [scheme |-> s, host |-> o.uri.host, port |-> p, path |-> o.uri.path,
                  query |-> o.uri.query]
    <3>1. ov.uri = [scheme |-> Scheme(o.uri.scheme), host |-> o.uri.host,
                    port |-> IF o.uri.port = Nil THEN "" ELSE ToString(o.uri.port),
                    path |-> o.uri.path, query |-> o.uri.query]
      BY <1>3, TargetOverride, Zenon
    <3> QED
      BY <2>1, <3>1, Zenon
  <2>3. ov.uri["port"] = p /\ ov.uri["scheme"] = s
    BY <2>2
  <2>4. c \in {"host", "path", "query"} => ov.uri[c] = o.uri[c]
    BY <2>2
  <2>5. /\ c = "scheme" => Asks(o, c) = s
        /\ c = "port" => Asks(o, c) = p
        /\ c \in {"host", "path", "query"} => Asks(o, c) = o.uri[c]
    BY <1>1, <1>3, <2>1, Zenon DEF Asks
  <2> QED
    BY <2>3, <2>4, <2>5, Zenon DEF URIComponents
<1> QED
  BY <1>2, <1>3

(* A header with one spelling that the emulator does not set keeps its value. *)
LEMMA CanonicalValue ==
    ASSUME NEW headers, NEW x \in CanonicalHeaders(headers), NEW k \in DOMAIN headers, NEW auth,
           \A j \in DOMAIN headers : Canonical[j] = Canonical[k] => j = k,
           Canonical[k] # "User-Agent", Canonical[k] = "Authorization" => auth = Nil
    PROVE  HTTPHeaders(x, auth)[Canonical[k]] = headers[k]
<1>1. PICK names : names = {Canonical[j] : j \in DOMAIN headers}
  OBVIOUS
<1>2. /\ x \in [names -> {headers[j] : j \in DOMAIN headers}]
      /\ \A n \in names : \E j \in DOMAIN headers : Canonical[j] = n /\ x[n] = headers[j]
  BY <1>1, Zenon DEF CanonicalHeaders
<1>3. Canonical[k] \in names /\ DOMAIN x = names
  BY <1>1, <1>2, Zenon
<1>4. PICK j \in DOMAIN headers : Canonical[j] = Canonical[k] /\ x[Canonical[k]] = headers[j]
  BY <1>2, <1>3, Zenon
<1>5. x[Canonical[k]] = headers[k]
  BY <1>4, Zenon
<1>6. PICK n, D : /\ n = Canonical[k]
                  /\ D = (DOMAIN x \ (IF auth = Nil THEN {} ELSE {"Authorization"})) \union {"User-Agent"}
  OBVIOUS
<1>7. n \in D /\ n # "User-Agent"
  BY <1>3, <1>6, Zenon
<1>8. HTTPHeaders(x, auth) = [i \in D |-> IF i = "User-Agent" THEN HTTPUserAgent ELSE x[i]]
  BY <1>6, Zenon DEF HTTPHeaders
<1>9. HTTPHeaders(x, auth)[n] = x[n]
  BY <1>7, <1>8, Zenon
<1> QED
  BY <1>5, <1>6, <1>9, Zenon

(* The emulator names itself. *)
LEMMA OwnUserAgent ==
    ASSUME NEW x, NEW auth
    PROVE  HTTPHeaders(x, auth)["User-Agent"] = HTTPUserAgent
<1>1. PICK D : D = (DOMAIN x \ (IF auth = Nil THEN {} ELSE {"Authorization"})) \union {"User-Agent"}
  OBVIOUS
<1>2. "User-Agent" \in D
  BY <1>1, Zenon
<1>3. HTTPHeaders(x, auth) = [i \in D |-> IF i = "User-Agent" THEN HTTPUserAgent ELSE x[i]]
  BY <1>1, Zenon DEF HTTPHeaders
<1> QED
  BY <1>2, <1>3, Zenon

(* Of a header that task and target set, the enforced target's counts, or the task's; *)
(* else the one that is set.                                                          *)
Merged(o, h, over, k) ==
    IF k \in DOMAIN over /\ (Enforced(o) \/ k \notin DOMAIN h \/ h[k] = "")
    THEN over[k] ELSE h[k]

MergedInto(eh, o, h) ==
    /\ DOMAIN eh = DOMAIN h \union DOMAIN Overridden(o)
    /\ \A k \in DOMAIN eh : eh[k] = Merged(o, h, Overridden(o), k)

(* EffectiveHeaders is that, header by header, with or without a target. *)
LEMMA MergedHeaders ==
    ASSUME NEW o \in Targets \union {Nil}, NEW h
    PROVE  MergedInto(EffectiveHeaders(h, HTTPOverrideToCore(o)), o, h)
<1>1. PICK ov, eh, over :
         ov = HTTPOverrideToCore(o) /\ eh = EffectiveHeaders(h, ov) /\ over = Overridden(o)
  OBVIOUS
<1> SUFFICES /\ DOMAIN eh = DOMAIN h \union DOMAIN over
             /\ \A k \in DOMAIN eh : eh[k] = Merged(o, h, over, k)
  BY <1>1, Zenon DEF MergedInto
<1>2. CASE o = Nil
  <2>1. eh = h
    BY <1>1, <1>2, Zenon DEF EffectiveHeaders, HTTPOverrideToCore
  <2>2. DOMAIN over = {}
    <3>1. over = HeaderMap(<<>>)
      BY <1>1, <1>2, Zenon DEF Overridden
    <3>2. PICK empty : empty = <<>>
      OBVIOUS
    <3>3. DOMAIN empty = {}
      BY <3>2
    <3>4. DOMAIN HeaderMap(empty) = {empty[i][1] : i \in DOMAIN empty}
      BY HeaderMapIsMap
    <3> QED
      BY <3>1, <3>2, <3>3, <3>4, Zenon
  <2>3. DOMAIN h = DOMAIN h \union {}
    OBVIOUS
  <2> QED
    BY <2>1, <2>2, <2>3, Zenon DEF Merged
<1>3. CASE o # Nil
  <2>1. o \in Targets
    BY <1>3, Zenon
  <2>2. /\ ov # Nil /\ (ov.alwaysEnforce <=> Enforced(o))
        /\ ov.headers = HeaderMap(o.headers)
    BY <1>1, <2>1, TargetOverride, Zenon
  <2>3. over = ov.headers
    BY <1>1, <1>3, <2>2, Zenon DEF Overridden
  <2>4. eh = MergeHeaders(h, ov)
    BY <1>1, <2>2, Zenon DEF EffectiveHeaders
  <2>5. DOMAIN eh = DOMAIN h \union DOMAIN over
    BY <2>3, <2>4, Zenon DEF MergeHeaders
  <2>6. ASSUME NEW k \in DOMAIN eh
        PROVE  eh[k] = IF k \in DOMAIN over /\ (ov.alwaysEnforce \/ k \notin DOMAIN h \/ h[k] = "")
                       THEN over[k] ELSE h[k]
    BY <2>3, <2>4, <2>5, Zenon DEF MergeHeaders
  <2> QED
    BY <2>2, <2>5, <2>6, Zenon DEF Merged
<1> QED
  BY <1>2, <1>3

(* A request honours the task and the target its attempt began with. *)
LEMMA HonouredRequest ==
    ASSUME NEW v \in Versions, NEW msg, Known(msg), msg.type = "http", NEW c, c = TaskToCore(v, msg),
           NEW q, NEW o \in Targets \union {Nil}, q.override = HTTPOverrideToCore(o),
           NEW req \in BuildRequest(q, c)
    PROVE  Honoured(req, msg, o)
<1>1. PICK ov, auth : ov = q.override /\ ov = HTTPOverrideToCore(o) /\ auth = EffectiveAuth(msg.auth, ov)
  OBVIOUS
<1>2. /\ req.method = EffectiveMethod(msg.method, ov)
      /\ req.url = EffectiveURL(msg.url, ov) /\ req.url # Nil
      /\ \E x \in CanonicalHeaders(EffectiveHeaders(msg.headers, ov)) : req.headers = HTTPHeaders(x, auth)
      /\ req.token = IF auth = Nil THEN Nil ELSE Token(auth, req.url)
  <2>1. PICK d : d = DurToDuration(msg.deadline)
    OBVIOUS
  <2>2. req \in BuildRequest(q, HTTPTask(d, msg.method, msg.url, msg.headers, msg.body, msg.auth))
    BY <2>1, HTTPToCore, Zenon
  <2>3. /\ req.method = EffectiveMethod(msg.method, q.override)
        /\ req.url = EffectiveURL(msg.url, q.override) /\ req.url # Nil
        /\ \E x \in CanonicalHeaders(EffectiveHeaders(msg.headers, q.override)) :
              req.headers = HTTPHeaders(x, EffectiveAuth(msg.auth, q.override))
        /\ req.token = IF EffectiveAuth(msg.auth, q.override) = Nil THEN Nil
                       ELSE Token(EffectiveAuth(msg.auth, q.override), req.url)
    BY <2>2, HTTPRequest
  <2> QED
    BY <1>1, <2>3, Zenon
<1>3. o # Nil => /\ o \in Targets /\ ov # Nil /\ (ov.alwaysEnforce <=> Enforced(o)) /\ ov.auth = o.auth
                 /\ ov.method = IF o.method = 0 THEN "" ELSE HttpMethodName(o.method)
  BY <1>1, TargetOverride, Zenon
<1>4. o = Nil => ov = Nil /\ ~Enforced(o)
  BY <1>1, Zenon DEF HTTPOverrideToCore, Enforced
<1>5. PICK u \in URLs : u = msg.url /\ u # Nil
  <2>1. msg.url # Nil
    BY <1>2, Zenon DEF EffectiveURL, ApplyURIOverride
  <2> QED
    BY <2>1, Zenon DEF Known
<1>6. auth = Signer(msg, o)
  BY <1>1, <1>3, <1>4, Zenon DEF EffectiveAuth, Signer
<1>7. IF Signer(msg, o) = Nil THEN req.token = Nil ELSE req.token.email = Signer(msg, o).email
  <2>1. CASE auth = Nil
    BY <1>2, <1>6, <2>1, Zenon
  <2>2. CASE auth # Nil
    <3>1. req.token = Token(auth, req.url)
      BY <1>2, <2>2, Zenon
    <3>2. req.token.email = auth.email
      BY <3>1, TokenFields
    <3> QED
      BY <1>6, <2>2, <3>2, Zenon
  <2> QED
    BY <2>1, <2>2
<1>8. req.headers["User-Agent"] = HTTPUserAgent
  BY <1>2, OwnUserAgent, Zenon
<1>9. ASSUME NEW x \in URIComponents
      PROVE  /\ Asks(o, x) # "" /\ Enforced(o) => req.url[x] = Asks(o, x)
             /\ (x = "host" => Hostname[u.host] = u.host)
                => /\ Asks(o, x) # "" /\ Unset(x, u[x]) => req.url[x] = Asks(o, x)
                   /\ ~Unset(x, u[x]) /\ (Asks(o, x) = "" \/ ~Enforced(o)) => req.url[x] = u[x]
  <2>1. CASE o = Nil
    <3>1. Asks(o, x) = ""
      BY <2>1, Zenon DEF Asks
    <3> QED
      BY <1>2, <1>4, <1>5, <2>1, <3>1, Zenon DEF EffectiveURL
  <2>2. CASE o # Nil
    <3>1. ov.uri[x] = Asks(o, x)
      BY <1>1, <1>3, <2>2, TargetComponents, Zenon
    <3>2. req.url = ApplyURIOverride(u, ov)
      BY <1>2, <1>3, <1>5, <2>2, Zenon DEF EffectiveURL
    <3>3. PICK kept : kept = KeptComponent(u, x)
      OBVIOUS
    <3>4. req.url[x] = IF ov.uri[x] # "" /\ (ov.alwaysEnforce \/ Unset(x, kept)) THEN ov.uri[x]
                                                                                ELSE kept
      <4>1. ApplyURIOverride(u, ov)[x] =
               IF ov.uri[x] # "" /\ (ov.alwaysEnforce \/ Unset(x, KeptComponent(u, x))) THEN ov.uri[x]
                                                                              ELSE KeptComponent(u, x)
        BY <1>5, OverriddenURL, Zenon
      <4>2. req.url[x] = ApplyURIOverride(u, ov)[x]
        BY <3>2, Zenon
      <4> QED
        BY <3>3, <4>1, <4>2, Zenon
    <3>5. (x = "host" => Hostname[u.host] = u.host) => kept = u[x]
      <4>1. x = "host" => u[x] = u.host
        OBVIOUS
      <4> QED
        BY <3>3, <4>1, Zenon DEF KeptComponent
    <3> QED
      BY <1>3, <2>2, <3>1, <3>4, <3>5, Zenon
  <2> QED
    BY <2>1, <2>2
<1>10. PICK h, over : h = msg.headers /\ over = Overridden(o)
  OBVIOUS
<1>11. ASSUME NEW k \in DOMAIN h \union DOMAIN over, Free(k, msg, o)
       PROVE  req.headers[Canonical[k]] = Merged(o, h, over, k)
  <2>1. PICK eh : eh = EffectiveHeaders(h, ov)
    OBVIOUS
  <2>2. /\ DOMAIN eh = DOMAIN h \union DOMAIN over
        /\ \A j \in DOMAIN eh : eh[j] = Merged(o, h, over, j)
    <3>1. MergedInto(eh, o, h)
      BY <1>1, <2>1, MergedHeaders, Zenon
    <3>2. over = Overridden(o)
      BY <1>10, Zenon
    <3> QED
      BY <3>1, <3>2, Zenon DEF MergedInto
  <2>3. PICK x \in CanonicalHeaders(eh) : req.headers = HTTPHeaders(x, auth)
    BY <1>1, <1>2, <1>10, <2>1, Zenon
  <2>4. /\ \A j \in DOMAIN eh : Canonical[j] = Canonical[k] => j = k
        /\ Canonical[k] # "User-Agent"
        /\ Canonical[k] = "Authorization" => auth = Nil
    BY <1>6, <1>10, <1>11, <2>2, Zenon DEF Free
  <2>5. HTTPHeaders(x, auth)[Canonical[k]] = eh[k]
    BY <1>11, <2>2, <2>4, CanonicalValue
  <2> QED
    BY <1>11, <2>2, <2>3, <2>5, Zenon
<1>12. PICK method : method = IF o = Nil THEN 0 ELSE o.method
  OBVIOUS
<1>13. req.method = IF Enforced(o) THEN HttpMethodName(IF method = 0 THEN msg.method ELSE method)
                    ELSE HttpMethodName(msg.method)
  <2>1. CASE o = Nil
    BY <1>2, <1>4, <2>1, Zenon DEF EffectiveMethod
  <2>2. CASE o # Nil
    <3>1. HttpMethodName(o.method) # ""
      BY MethodNames, Zenon
    <3> QED
      BY <1>2, <1>3, <1>12, <2>2, <3>1, Zenon DEF EffectiveMethod
  <2> QED
    BY <2>1, <2>2
<1>14. PICK theirs, mine, plain, free, given :
          /\ theirs = {x \in URIComponents : Asks(o, x) # ""}
          /\ mine = {x \in URIComponents : ~Unset(x, u[x])}
          /\ plain = {x \in URIComponents : x = "host" => Hostname[u.host] = u.host}
          /\ free = {k \in DOMAIN h \union DOMAIN over : Free(k, msg, o)}
          /\ given = {k \in DOMAIN h : h[k] # ""}
  OBVIOUS
<1>15. /\ \A x \in plain \intersect (mine \ theirs) : req.url[x] = u[x]
       /\ \A x \in plain \intersect (theirs \ mine) : req.url[x] = Asks(o, x)
       /\ Enforced(o) => \A x \in theirs : req.url[x] = Asks(o, x)
       /\ ~Enforced(o) => \A x \in plain \intersect mine : req.url[x] = u[x]
  BY <1>9, <1>14, Zenon
<1>16. /\ \A k \in free \intersect (given \ DOMAIN over) : req.headers[Canonical[k]] = h[k]
       /\ \A k \in free \intersect (DOMAIN over \ given) : req.headers[Canonical[k]] = over[k]
       /\ Enforced(o) => \A k \in free \intersect DOMAIN over : req.headers[Canonical[k]] = over[k]
       /\ ~Enforced(o) => \A k \in free \intersect given : req.headers[Canonical[k]] = h[k]
  BY <1>11, <1>14, Zenon DEF Merged
<1>17. /\ theirs = {x \in URIComponents : Asks(o, x) # ""}
       /\ mine = {x \in URIComponents : ~Unset(x, msg.url[x])}
       /\ plain = {x \in URIComponents : x = "host" => Hostname[msg.url.host] = msg.url.host}
       /\ free = {k \in DOMAIN msg.headers \union DOMAIN Overridden(o) : Free(k, msg, o)}
       /\ given = {k \in DOMAIN msg.headers : msg.headers[k] # ""}
  BY <1>5, <1>10, <1>14, Zenon
<1>18. /\ \A x \in plain \intersect (mine \ theirs) : req.url[x] = msg.url[x]
       /\ ~Enforced(o) => \A x \in plain \intersect mine : req.url[x] = msg.url[x]
       /\ \A k \in free \intersect (given \ DOMAIN Overridden(o)) :
             req.headers[Canonical[k]] = msg.headers[k]
       /\ \A k \in free \intersect (DOMAIN Overridden(o) \ given) :
             req.headers[Canonical[k]] = Overridden(o)[k]
       /\ Enforced(o) => \A k \in free \intersect DOMAIN Overridden(o) :
                            req.headers[Canonical[k]] = Overridden(o)[k]
       /\ ~Enforced(o) => \A k \in free \intersect given : req.headers[Canonical[k]] = msg.headers[k]
  BY <1>5, <1>10, <1>15, <1>16, Zenon
<1> QED
  BY <1>7, <1>8, <1>12, <1>13, <1>15, <1>17, <1>18, Zenon DEF Honoured

-----------------------------------------------------------------------------
(* The invariant, and one lemma for each kind of step.                       *)

(* A task that was accepted, and whose message is remembered. *)
Stored(t) ==
    Known(t.msg) /\ ValidTask(t.core) /\ \E w \in Versions : t.core = TaskToCore(w, t.msg)

(* The copy an attempt took, and the target the history told of then. *)
Snapshot(a) ==
    /\ a.target \in Targets \union {Nil}
    /\ a.known => a.queue.override = HTTPOverrideToCore(a.target)

(* A task has a queue, which is never deleted here, and an attempt has a task. *)
TasksOK ==
    /\ DOMAIN tasks = TaskIds /\ DOMAIN attempt = TaskIds
    /\ \A i \in TaskIds : tasks[i] # Nil =>
          /\ tasks[i].queue \in QueueNames /\ queues[tasks[i].queue] # Nil
          /\ Stored(tasks[i])
    /\ \A i \in TaskIds : attempt[i] # Nil => tasks[i] # Nil /\ Snapshot(attempt[i])

(* The inductive invariant. *)
DeliveryInv == TypesOK /\ FieldsAsWritten /\ TasksOK /\ OverridePrecedence /\ RequestsSound

(* A step that sends nothing. *)
LEMMA NothingSent ==
    ASSUME sent' = Nil
    PROVE  OverridePrecedence' /\ RequestsSound'
  BY Zenon DEF OverridePrecedence, RequestsSound

(* A step that leaves the queues alone. *)
LEMMA QueuesKept ==
    ASSUME TypesOK, FieldsAsWritten, UNCHANGED <<queues, copy, want, lost>>
    PROVE  TypesOK' /\ FieldsAsWritten'
<1>1. queues' = queues /\ copy' = copy /\ want' = want /\ lost' = lost
  OBVIOUS
<1>2. TypesOK'
  BY <1>1, Zenon DEF TypesOK
<1>3. FieldsAsWritten'
  BY <1>1, Zenon DEF FieldsAsWritten
<1> QED
  BY <1>2, <1>3

(* The queues made at startup have their defaults; nothing else is there. *)
LEMMA InitOK == Init => DeliveryInv
<1> SUFFICES ASSUME Init PROVE DeliveryInv
  OBVIOUS
<1>1. /\ queues = [n \in QueueNames |-> IF n \in InitialQueues THEN EnsuredQueue ELSE Nil]
      /\ copy = [v \in Versions |-> Nil] /\ tasks = [i \in TaskIds |-> Nil]
      /\ attempt = [i \in TaskIds |-> Nil] /\ sent = Nil
      /\ want = [n \in QueueNames |->
                  [rate |-> DefaultRate, retry |-> DefaultAttempts, routing |-> Nil, override |-> Nil]]
      /\ lost = [n \in QueueNames |-> {}]
  BY Zenon DEF Init
<1>2. PICK q : q = [state |-> "RUNNING", rate |-> 0, routing |-> Nil, override |-> Nil,
                    retry |-> [maxAttempts |-> 0, maxRetryDuration |-> 0],
                    pull |-> FALSE, taskTTL |-> 0]
  OBVIOUS
<1>3. q \in CoreQueues
  <2>1. PICK s \in States : s = "RUNNING"
    BY Zenon DEF States
  <2>2. q = [state |-> s, rate |-> 0, routing |-> Nil, override |-> Nil,
             retry |-> [maxAttempts |-> 0, maxRetryDuration |-> 0], pull |-> FALSE, taskTTL |-> 0]
    BY <1>2, <2>1, Zenon
  <2> QED
    BY <2>2 DEF CoreQueues, CoreRetries
<1>4. q.rate = 0 /\ q.retry.maxAttempts = 0 /\ q.routing = Nil /\ q.override = Nil
  BY <1>2
<1>5. EnsuredQueue = ApplyQueueDefaults(q)
  BY <1>2, Zenon DEF EnsuredQueue
<1>6. PICK e \in Configured : /\ e = EnsuredQueue
                              /\ e.rate = DefaultRate /\ e.retry.maxAttempts = DefaultAttempts
                              /\ e.routing = Nil /\ e.override = Nil
  <2>1. PICK e : e = ApplyQueueDefaults(q)
    OBVIOUS
  <2>2. /\ e \in Configured /\ e.rate = (IF q.rate = 0 THEN DefaultRate ELSE q.rate)
        /\ e.retry.maxAttempts = IF q.retry.maxAttempts = 0 THEN DefaultAttempts
                                                            ELSE q.retry.maxAttempts
        /\ e.routing = q.routing /\ e.override = q.override
    BY <1>3, <2>1, DefaultsApplied, Zenon
  <2> QED
    BY <1>4, <1>5, <2>1, <2>2, Zenon
<1>7. PICK w : w = [rate |-> DefaultRate, retry |-> DefaultAttempts, routing |-> Nil, override |-> Nil]
  OBVIOUS
<1>8. /\ w.rate = DefaultRate /\ w.retry = DefaultAttempts /\ w.routing = Nil /\ w.override = Nil
  BY <1>7
<1>9. \A n \in QueueNames : queues[n] \in {e, Nil} /\ want[n] = w /\ lost[n] = {}
  BY <1>1, <1>6, <1>7, Zenon
<1>10. TypesOK
  <2>1. queues \in [QueueNames -> Configured \union {Nil}]
    BY <1>1, <1>6, Zenon
  <2>2. lost \in [QueueNames -> SUBSET Fields]
    BY <1>1, Zenon
  <2>3. DOMAIN copy = Versions /\ (\A v \in Versions : copy[v] = Nil) /\ DOMAIN want = QueueNames
    BY <1>1, Zenon
  <2> QED
    BY <1>8, <1>9, <2>1, <2>2, <2>3, Zenon DEF TypesOK
<1>11. FieldsAsWritten
  <2>1. HTTPOverrideToCore(w.override) = Nil
    BY <1>8, Zenon DEF HTTPOverrideToCore
  <2>2. Meets(e, w, {})
    BY <1>6, <1>8, <2>1, Zenon DEF Meets
  <2>3. \A n \in QueueNames : queues[n] # Nil => Meets(queues[n], want[n], lost[n])
    BY <1>9, <2>2, Zenon
  <2> QED
    BY <2>3, FieldByField, Zenon DEF FieldsAsWritten
<1>12. TasksOK
  <2>1. /\ DOMAIN tasks = TaskIds /\ DOMAIN attempt = TaskIds
        /\ \A i \in TaskIds : tasks[i] = Nil /\ attempt[i] = Nil
    BY <1>1, Zenon
  <2> QED
    BY <2>1, Zenon DEF TasksOK
<1>13. OverridePrecedence /\ RequestsSound
  BY <1>1, Zenon DEF OverridePrecedence, RequestsSound
<1> QED
  BY <1>10, <1>11, <1>12, <1>13, Zenon DEF DeliveryInv

(* A client reads a queue. *)
LEMMA GetQueueOK ==
    ASSUME DeliveryInv, NEW v \in Versions, NEW n \in QueueNames, GetQueue(v, n)
    PROVE  DeliveryInv'
<1>1. /\ queues[n] # Nil /\ sent' = Nil /\ queues' = queues /\ tasks' = tasks /\ attempt' = attempt
      /\ want' = want /\ lost' = lost
      /\ copy' = [copy EXCEPT ![v] = [msg |-> QueueFromCore(v, n, queues[n]), seen |-> queues[n]]]
  BY Zenon DEF GetQueue
<1>2. PICK c : c = [msg |-> QueueFromCore(v, n, queues[n]), seen |-> queues[n]]
  OBVIOUS
<1>3. queues[n] \in Configured /\ DOMAIN copy = Versions
  BY <1>1, Zenon DEF DeliveryInv, TypesOK
<1>4. copy' = [copy EXCEPT ![v] = c]
  BY <1>1, <1>2, Zenon
<1>5. DOMAIN copy' = Versions /\ \A x \in Versions : copy'[x] = IF x = v THEN c ELSE copy[x]
  BY <1>3, <1>4
<1>6. Copied(v, n, queues[n], c)
  BY <1>2, Zenon DEF Copied
<1>7. \A x \in Versions : copy'[x] # Nil => \E k \in QueueNames, q \in Configured : Copied(x, k, q, copy'[x])
  BY <1>3, <1>5, <1>6, Zenon DEF DeliveryInv, TypesOK
<1>8. TypesOK'
  BY <1>1, <1>5, <1>7, Zenon DEF DeliveryInv, TypesOK
<1>9. FieldsAsWritten' /\ TasksOK'
  BY <1>1, Zenon DEF DeliveryInv, FieldsAsWritten, TasksOK
<1> QED
  BY <1>1, <1>8, <1>9, NothingSent, Zenon DEF DeliveryInv

(* A client updates one. *)
LEMMA UpdateOK ==
    ASSUME DeliveryInv, NEW v \in Versions, UpdateQueueGRPC(v) \/ UpdateQueueREST(v)
    PROVE  /\ DeliveryInv'
           /\ \A n \in QueueNames : InScope(n)
           /\ last'.back => queues' = queues
           /\ tasks' = tasks
<1>1. TypesOK /\ FieldsAsWritten /\ TasksOK
  BY Zenon DEF DeliveryInv
<1>2. PICK m, scopes, paths :
         /\ m \in QueueMessages(v)
         /\ UpdateQueue(v, m.name, scopes, m, paths) /\ Scope(v, paths) \in scopes
  BY <1>1, UpdateOf, Zenon
<1>3. /\ TypesOK' /\ FieldsAsWritten'
      /\ \A n \in QueueNames : InScope(n)
      /\ last'.back => queues' = queues
      /\ \A n \in QueueNames : queues[n] # Nil => queues'[n] # Nil
  BY <1>1, <1>2, UpdateStep, Zenon
<1>4. sent' = Nil /\ tasks' = tasks /\ attempt' = attempt
  BY <1>2, Zenon DEF UpdateQueue
<1>5. TasksOK'
  BY <1>1, <1>3, <1>4, Zenon DEF TasksOK
<1> QED
  BY <1>3, <1>4, <1>5, NothingSent, Zenon DEF DeliveryInv

(* A task is created under a free id. *)
LEMMA CreateTaskOK ==
    ASSUME DeliveryInv, NEW v \in Versions, NEW n \in QueueNames, NEW i \in TaskIds, CreateTask(v, n, i)
    PROVE  DeliveryInv' /\ queues' = queues
           /\ \A j \in TaskIds : tasks[j] # Nil => tasks'[j] = tasks[j]
<1>1. PICK m \in TaskMessages[v] :
         /\ ValidTask(TaskToCore(v, m)) /\ queues[n] # Nil /\ tasks[i] = Nil
         /\ tasks' = [tasks EXCEPT ![i] = [queue |-> n, core |-> TaskToCore(v, m), msg |-> m, view |-> "made"]]
         /\ sent' = Nil /\ UNCHANGED <<queues, copy, attempt, want, lost>>
  BY Zenon DEF CreateTask
<1>2. TypesOK /\ FieldsAsWritten /\ TasksOK
  BY Zenon DEF DeliveryInv
<1>3. TypesOK' /\ FieldsAsWritten' /\ queues' = queues /\ attempt' = attempt
  BY <1>1, <1>2, QueuesKept, Zenon
<1>4. PICK c, t : c = TaskToCore(v, m) /\ t = [queue |-> n, core |-> c, msg |-> m, view |-> "made"]
  OBVIOUS
<1>5. t.queue = n /\ t.core = c /\ t.msg = m
  BY <1>4
<1>6. tasks' = [tasks EXCEPT ![i] = t]
  BY <1>1, <1>4, Zenon
<1>7. Stored(t)
  <2>1. Known(m)
    BY DeliveryAssumption, Zenon DEF Known
  <2> QED
    BY <1>1, <1>4, <1>5, <2>1, Zenon DEF Stored
<1>8. /\ DOMAIN tasks' = TaskIds /\ tasks'[i] = t
      /\ \A j \in TaskIds : j # i => tasks'[j] = tasks[j]
  BY <1>2, <1>6 DEF TasksOK
<1>9. attempt[i] = Nil
  BY <1>1, <1>2, Zenon DEF TasksOK
<1>10. TasksOK'
  <2>1. ASSUME NEW j \in TaskIds, tasks'[j] # Nil
        PROVE  tasks'[j].queue \in QueueNames /\ queues'[tasks'[j].queue] # Nil /\ Stored(tasks'[j])
    <3>1. CASE j = i
      BY <1>1, <1>3, <1>5, <1>7, <1>8, <3>1, Zenon
    <3>2. CASE j # i
      BY <1>2, <1>3, <1>8, <2>1, <3>2, Zenon DEF TasksOK
    <3> QED
      BY <3>1, <3>2
  <2>2. \A j \in TaskIds : attempt'[j] # Nil => tasks'[j] # Nil /\ Snapshot(attempt'[j])
    BY <1>2, <1>3, <1>8, <1>9, Zenon DEF TasksOK
  <2> QED
    BY <1>2, <1>3, <1>8, <2>1, <2>2, Zenon DEF TasksOK
<1>11. \A j \in TaskIds : tasks[j] # Nil => tasks'[j] = tasks[j]
  BY <1>1, <1>8, Zenon
<1> QED
  BY <1>1, <1>3, <1>10, <1>11, NothingSent, Zenon DEF DeliveryInv

(* The task new asks for what old does. *)
RoundTrips(old, new) ==
    new.core = IF old.core.target.type = "appengine" /\ new.view = "BASIC"
               THEN [old.core EXCEPT !.target.body = 0] ELSE old.core

(* A task is read and created again. *)
LEMMA RecreateTaskOK ==
    ASSUME DeliveryInv, NEW v \in Versions, NEW i \in TaskIds, RecreateTask(v, i)
    PROVE  DeliveryInv' /\ queues' = queues
           /\ \A j \in TaskIds : tasks'[j] # tasks[j] => RoundTrips(tasks[j], tasks'[j])
<1>1. PICK view \in {"BASIC", "FULL"} :
         /\ ValidTask(TaskToCore(v, TaskFromCore(v, tasks[i].core, view = "FULL")))
         /\ tasks' = [tasks EXCEPT ![i] =
                         [queue |-> tasks[i].queue,
                          core |-> TaskToCore(v, TaskFromCore(v, tasks[i].core, view = "FULL")),
                          msg |-> TaskFromCore(v, tasks[i].core, view = "FULL"), view |-> view]]
  BY Zenon DEF RecreateTask
<1>2. /\ tasks[i] # Nil /\ attempt[i] = Nil /\ sent' = Nil
      /\ UNCHANGED <<queues, copy, attempt, want, lost>>
  BY Zenon DEF RecreateTask
<1>3. TypesOK /\ FieldsAsWritten /\ TasksOK
  BY Zenon DEF DeliveryInv
<1>4. TypesOK' /\ FieldsAsWritten' /\ queues' = queues /\ attempt' = attempt
  BY <1>2, <1>3, QueuesKept, Zenon
<1>5. PICK old, m, c, t : /\ old = tasks[i] /\ m = TaskFromCore(v, old.core, view = "FULL")
                          /\ c = TaskToCore(v, m)
                          /\ t = [queue |-> old.queue, core |-> c, msg |-> m, view |-> view]
  OBVIOUS
<1>6. t.queue = old.queue /\ t.core = c /\ t.msg = m /\ t.view = view
  BY <1>5
<1>7. tasks' = [tasks EXCEPT ![i] = t] /\ ValidTask(TaskToCore(v, m))
  BY <1>1, <1>5, Zenon
<1>8. old.queue \in QueueNames /\ queues[old.queue] # Nil /\ Stored(old)
  BY <1>2, <1>3, <1>5, Zenon DEF TasksOK
<1>9. PICK w \in Versions : old.core = TaskToCore(w, old.msg) /\ Known(old.msg) /\ ValidTask(old.core)
  BY <1>8, Zenon DEF Stored
<1>10. /\ Known(m)
       /\ TaskToCore(v, m) = IF old.core.target.type = "appengine" /\ view = "BASIC"
                             THEN [old.core EXCEPT !.target.body = 0] ELSE old.core
  <2>1. PICK made, core : made = old.msg /\ core = old.core
    OBVIOUS
  <2>2. /\ Known(made) /\ core = TaskToCore(w, made) /\ ValidTask(core)
        /\ m = TaskFromCore(v, core, view = "FULL")
    BY <1>5, <1>9, <2>1, Zenon
  <2>3. /\ Known(m)
        /\ TaskToCore(v, m) = IF core.target.type = "appengine" /\ view = "BASIC"
                              THEN [core EXCEPT !.target.body = 0] ELSE core
    BY <1>7, <2>2, Recreated
  <2> QED
    BY <2>1, <2>3, Zenon
<1>11. Stored(t) /\ RoundTrips(old, t)
  <2>1. Stored(t)
    BY <1>5, <1>6, <1>7, <1>10, Zenon DEF Stored
  <2>2. RoundTrips(old, t)
    BY <1>5, <1>6, <1>10, Zenon DEF RoundTrips
  <2> QED
    BY <2>1, <2>2
<1>12. /\ DOMAIN tasks' = TaskIds /\ tasks'[i] = t
       /\ \A j \in TaskIds : j # i => tasks'[j] = tasks[j]
  BY <1>3, <1>7 DEF TasksOK
<1>13. TasksOK'
  <2>1. ASSUME NEW j \in TaskIds, tasks'[j] # Nil
        PROVE  tasks'[j].queue \in QueueNames /\ queues'[tasks'[j].queue] # Nil /\ Stored(tasks'[j])
    <3>1. CASE j = i
      BY <1>4, <1>6, <1>8, <1>11, <1>12, <3>1, Zenon
    <3>2. CASE j # i
      BY <1>3, <1>4, <1>12, <2>1, <3>2, Zenon DEF TasksOK
    <3> QED
      BY <3>1, <3>2
  <2>2. \A j \in TaskIds : attempt'[j] # Nil => tasks'[j] # Nil /\ Snapshot(attempt'[j])
    BY <1>2, <1>3, <1>4, <1>12, Zenon DEF TasksOK
  <2> QED
    BY <1>3, <1>4, <1>12, <2>1, <2>2, Zenon DEF TasksOK
<1>14. \A j \in TaskIds : tasks'[j] # tasks[j] => RoundTrips(tasks[j], tasks'[j])
  BY <1>5, <1>11, <1>12, Zenon
<1> QED
  BY <1>2, <1>4, <1>13, <1>14, NothingSent, Zenon DEF DeliveryInv

(* An attempt begins: the copy it takes has the override the history tells of. *)
LEMMA SnapshotAttemptOK ==
    ASSUME DeliveryInv, NEW i \in TaskIds, SnapshotAttempt(i)
    PROVE  DeliveryInv' /\ queues' = queues /\ tasks' = tasks
<1>1. /\ tasks[i] # Nil /\ sent' = Nil /\ UNCHANGED <<queues, copy, tasks, want, lost>>
      /\ attempt' = [attempt EXCEPT ![i] =
                        [queue |-> queues[tasks[i].queue], target |-> want[tasks[i].queue].override,
                         known |-> "override" \notin lost[tasks[i].queue]]]
  BY Zenon DEF SnapshotAttempt
<1>2. TypesOK /\ FieldsAsWritten /\ TasksOK
  BY Zenon DEF DeliveryInv
<1>3. TypesOK' /\ FieldsAsWritten' /\ queues' = queues /\ tasks' = tasks
  BY <1>1, <1>2, QueuesKept, Zenon
<1>4. PICK n \in QueueNames : n = tasks[i].queue /\ queues[n] # Nil
  BY <1>1, <1>2, Zenon DEF TasksOK
<1>5. PICK q, o, k, a : /\ q = queues[n] /\ o = want[n].override /\ k = ("override" \notin lost[n])
                        /\ a = [queue |-> q, target |-> o, known |-> k]
  OBVIOUS
<1>6. a.queue = q /\ a.target = o /\ a.known = k
  BY <1>5
<1>7. attempt' = [attempt EXCEPT ![i] = a]
  BY <1>1, <1>4, <1>5, Zenon
<1>8. Snapshot(a)
  <2>1. o \in Targets \union {Nil}
    BY <1>2, <1>5, Zenon DEF TypesOK
  <2>2. Meets(q, want[n], lost[n])
    BY <1>2, <1>4, <1>5, FieldByField, Zenon DEF FieldsAsWritten
  <2>3. k => q.override = HTTPOverrideToCore(o)
    BY <1>5, <2>2, Zenon DEF Meets
  <2> QED
    BY <1>6, <2>1, <2>3, Zenon DEF Snapshot
<1>9. /\ DOMAIN attempt' = TaskIds /\ attempt'[i] = a
      /\ \A j \in TaskIds : j # i => attempt'[j] = attempt[j]
  BY <1>2, <1>7 DEF TasksOK
<1>10. \A j \in TaskIds : attempt'[j] # Nil => tasks'[j] # Nil /\ Snapshot(attempt'[j])
  BY <1>1, <1>2, <1>3, <1>8, <1>9, Zenon DEF TasksOK
<1>11. TasksOK'
  BY <1>2, <1>3, <1>9, <1>10, Zenon DEF TasksOK
<1> QED
  BY <1>1, <1>3, <1>11, NothingSent, Zenon DEF DeliveryInv

(* An attempt ends: its task stays or goes. *)
LEMMA AttemptedOK ==
    ASSUME TypesOK, FieldsAsWritten, TasksOK, NEW i \in TaskIds, Attempted(i)
    PROVE  /\ TypesOK' /\ FieldsAsWritten' /\ TasksOK' /\ queues' = queues
           /\ \A j \in TaskIds : tasks'[j] # Nil => tasks'[j] = tasks[j]
<1>1. /\ attempt' = [attempt EXCEPT ![i] = Nil]
      /\ tasks' = tasks \/ tasks' = [tasks EXCEPT ![i] = Nil]
      /\ UNCHANGED <<queues, copy, want, lost>>
  BY Zenon DEF Attempted
<1>2. TypesOK' /\ FieldsAsWritten' /\ queues' = queues
  BY <1>1, QueuesKept, Zenon
<1>3. /\ DOMAIN attempt' = TaskIds /\ attempt'[i] = Nil
      /\ \A j \in TaskIds : j # i => attempt'[j] = attempt[j]
  BY <1>1 DEF TasksOK
<1>4. /\ DOMAIN tasks' = TaskIds /\ tasks'[i] \in {tasks[i], Nil}
      /\ \A j \in TaskIds : j # i => tasks'[j] = tasks[j]
  <2>1. CASE tasks' = tasks
    BY <2>1, Zenon DEF TasksOK
  <2>2. CASE tasks' = [tasks EXCEPT ![i] = Nil]
    BY <2>2 DEF TasksOK
  <2> QED
    BY <1>1, <2>1, <2>2
<1>5. \A j \in TaskIds : tasks'[j] # Nil => tasks'[j] = tasks[j]
  BY <1>4, Zenon
<1>6. ASSUME NEW j \in TaskIds, tasks'[j] # Nil
      PROVE  tasks'[j].queue \in QueueNames /\ queues'[tasks'[j].queue] # Nil /\ Stored(tasks'[j])
  <2>1. tasks'[j] = tasks[j] /\ tasks[j] # Nil
    BY <1>5, <1>6, Zenon
  <2>2. tasks[j].queue \in QueueNames /\ queues[tasks[j].queue] # Nil /\ Stored(tasks[j])
    BY <2>1, Zenon DEF TasksOK
  <2> QED
    BY <1>2, <2>1, <2>2, Zenon
<1>7. \A j \in TaskIds : attempt'[j] # Nil => tasks'[j] # Nil /\ Snapshot(attempt'[j])
  BY <1>3, <1>4, Zenon DEF TasksOK
<1>8. TasksOK'
  BY <1>3, <1>4, <1>6, <1>7, Zenon DEF TasksOK
<1> QED
  BY <1>2, <1>5, <1>8

(* An attempt sends its request. *)
LEMMA SendOK ==
    ASSUME DeliveryInv, NEW i \in TaskIds, Send(i)
    PROVE  /\ DeliveryInv' /\ queues' = queues
           /\ \A j \in TaskIds : tasks'[j] # Nil => tasks'[j] = tasks[j]
<1>1. TypesOK /\ FieldsAsWritten /\ TasksOK
  BY Zenon DEF DeliveryInv
<1>2. PICK req \in BuildRequest(attempt[i].queue, tasks[i].core) :
         sent' = [req |-> req, task |-> tasks[i].msg, target |-> attempt[i].target,
                  known |-> attempt[i].known]
  BY Zenon DEF Send
<1>3. attempt[i] # Nil /\ Attempted(i)
  BY Zenon DEF Send
<1>4. /\ TypesOK' /\ FieldsAsWritten' /\ TasksOK' /\ queues' = queues
      /\ \A j \in TaskIds : tasks'[j] # Nil => tasks'[j] = tasks[j]
  BY <1>1, <1>3, AttemptedOK, Zenon
<1>5. tasks[i] # Nil /\ Snapshot(attempt[i]) /\ Stored(tasks[i])
  BY <1>1, <1>3, Zenon DEF TasksOK
<1>6. PICK q, c, msg, o, k : /\ q = attempt[i].queue /\ c = tasks[i].core /\ msg = tasks[i].msg
                             /\ o = attempt[i].target /\ k = attempt[i].known
  OBVIOUS
<1>7. o \in Targets \union {Nil} /\ (k => q.override = HTTPOverrideToCore(o))
  BY <1>5, <1>6, Zenon DEF Snapshot
<1>8. PICK v \in Versions : c = TaskToCore(v, msg) /\ Known(msg) /\ ValidTask(c)
  BY <1>5, <1>6, Zenon DEF Stored
<1>9. req \in BuildRequest(q, c) /\ sent' = [req |-> req, task |-> msg, target |-> o, known |-> k]
  BY <1>2, <1>6, Zenon
<1>10. sent'.req = req /\ sent'.task = msg /\ sent'.target = o /\ sent'.known = k
  BY <1>9
<1>11. OverridePrecedence'
  <2>1. k /\ msg.type = "http" => Honoured(req, msg, o)
    BY <1>7, <1>8, <1>9, HonouredRequest
  <2> QED
    BY <1>10, <2>1, Zenon DEF OverridePrecedence
<1>12. RequestsSound'
  <2>1. /\ req.body # 0 =>
              \/ req.method \in {"POST", "PUT", "PATCH"}
              \/ ~k
              \/ Enforced(o) /\ o.method # 0
        /\ req.token # Nil /\ req.token.kind = "oidc" =>
              \/ req.token.for = req.url
              \/ ~k
              \/ \E a \in {msg.auth, IF o = Nil THEN Nil ELSE o.auth} :
                     a # Nil /\ req.token.for = a.for /\ a.for # Nil
    BY <1>7, <1>8, <1>9, SoundRequest
  <2> QED
    BY <1>10, <2>1, Zenon DEF RequestsSound
<1> QED
  BY <1>4, <1>11, <1>12, Zenon DEF DeliveryInv

(* An attempt has no request to send. *)
LEMMA BuildFailsOK ==
    ASSUME DeliveryInv, NEW i \in TaskIds, BuildFails(i)
    PROVE  /\ DeliveryInv' /\ queues' = queues
           /\ \A j \in TaskIds : tasks'[j] # Nil => tasks'[j] = tasks[j]
<1>1. TypesOK /\ FieldsAsWritten /\ TasksOK
  BY Zenon DEF DeliveryInv
<1>2. sent' = Nil /\ Attempted(i)
  BY Zenon DEF BuildFails
<1>3. /\ TypesOK' /\ FieldsAsWritten' /\ TasksOK' /\ queues' = queues
      /\ \A j \in TaskIds : tasks'[j] # Nil => tasks'[j] = tasks[j]
  BY <1>1, <1>2, AttemptedOK, Zenon
<1> QED
  BY <1>2, <1>3, NothingSent, Zenon DEF DeliveryInv

-----------------------------------------------------------------------------
(* The theorems.                                                             *)

(* Every step keeps the invariant and obeys the three action properties. *)
LEMMA StepOK ==
    ASSUME DeliveryInv, [Next]_vars
    PROVE  /\ DeliveryInv'
           /\ \A n \in QueueNames : InScope(n)
           /\ last'.back => queues' = queues
           /\ \A i \in TaskIds : tasks[i] # Nil /\ tasks'[i] # Nil /\ tasks'[i] # tasks[i] =>
                 RoundTrips(tasks[i], tasks'[i])
<1> USE DEF InScope
<1>1. CASE \E v \in Versions, n \in QueueNames : GetQueue(v, n)
  <2>1. queues' = queues /\ tasks' = tasks
    BY <1>1, Zenon DEF GetQueue
  <2> QED
    BY <1>1, <2>1, GetQueueOK, Zenon
<1>2. CASE \E v \in Versions, n \in QueueNames, i \in TaskIds : CreateTask(v, n, i)
  BY <1>2, CreateTaskOK, Zenon
<1>3. CASE \E v \in Versions : UpdateQueueGRPC(v) \/ UpdateQueueREST(v)
  BY <1>3, UpdateOK, Zenon
<1>4. CASE \E v \in Versions, i \in TaskIds : RecreateTask(v, i)
  BY <1>4, RecreateTaskOK, Zenon
<1>5. CASE \E i \in TaskIds : SnapshotAttempt(i)
  BY <1>5, SnapshotAttemptOK, Zenon
<1>6. CASE \E i \in TaskIds : Send(i) \/ BuildFails(i)
  BY <1>6, SendOK, BuildFailsOK, Zenon
<1>7. CASE UNCHANGED vars
  <2>1. /\ queues' = queues /\ copy' = copy /\ tasks' = tasks /\ attempt' = attempt /\ sent' = sent
        /\ want' = want /\ lost' = lost
    BY <1>7, Zenon DEF vars
  <2>2. TypesOK' /\ FieldsAsWritten'
    BY <2>1, QueuesKept, Zenon DEF DeliveryInv
  <2>3. TasksOK'
    BY <2>1, Zenon DEF DeliveryInv, TasksOK
  <2>4. OverridePrecedence' /\ RequestsSound'
    BY <2>1, Zenon DEF DeliveryInv, OverridePrecedence, RequestsSound
  <2> QED
    BY <2>1, <2>2, <2>3, <2>4, Zenon DEF DeliveryInv
<1> QED
  BY <1>1, <1>2, <1>3, <1>4, <1>5, <1>6, <1>7, Zenon DEF Next

(* DeliveryInv is an invariant. *)
THEOREM DeliveryInvariance == Spec => []DeliveryInv
<1>1. DeliveryInv /\ [Next]_vars => DeliveryInv'
  BY StepOK, Zenon
<1> QED
  BY <1>1, InitOK, PTL DEF Spec

(* Whatever the updates and their masks, of either API version, over gRPC or REST, each *)
(* field is what the last client that named it asked for, unless an update without a    *)
(* usable mask came in between (UpdateQueue, v2QueueFields, v2beta3QueueFields).        *)
THEOREM FieldsAsWrittenCorrect == Spec => []FieldsAsWritten
<1>1. DeliveryInv => FieldsAsWritten
  BY Zenon DEF DeliveryInv
<1> QED
  BY <1>1, DeliveryInvariance, PTL

(* Every request honours its task and the target its queue had when the attempt began, *)
(* although the queue may have been updated since (attempt, applyHTTPOverride).        *)
THEOREM OverridePrecedenceCorrect == Spec => []OverridePrecedence
<1>1. DeliveryInv => OverridePrecedence
  BY Zenon DEF DeliveryInv
<1> QED
  BY <1>1, DeliveryInvariance, PTL

(* What was checked when a task was created holds of every request sent for it, and its *)
(* token is for the URL that is called (checkBodyMethod, setAuthHeader).                *)
THEOREM RequestsSoundCorrect == Spec => []RequestsSound
<1>1. DeliveryInv => RequestsSound
  BY Zenon DEF DeliveryInv
<1> QED
  BY <1>1, DeliveryInvariance, PTL

(* A client that writes back what it has read changes nothing, however the queue was *)
(* configured (v2QueueFromCore, v2QueueToCore and those of v2beta3).                 *)
THEOREM QueueRoundTripsCorrect == Spec => QueueRoundTrips
<1>1. DeliveryInv /\ [Next]_vars =>
          [last'.count # last.count /\ last'.back => queues' = queues]_vars
  BY StepOK, Zenon
<1> QED
  BY <1>1, DeliveryInvariance, PTL DEF Spec, QueueRoundTrips

(* A task that is read in one API version and created again asks for the same delivery, *)
(* whatever version made it, but for the body the BASIC view leaves out.                *)
THEOREM TaskRoundTripsCorrect == Spec => TaskRoundTrips
<1>1. DeliveryInv /\ [Next]_vars =>
          [\A i \in TaskIds : tasks[i] # Nil /\ tasks'[i] # Nil /\ tasks'[i] # tasks[i] =>
              tasks'[i].core = IF tasks[i].core.target.type = "appengine" /\ tasks'[i].view = "BASIC"
                               THEN [tasks[i].core EXCEPT !.target.body = 0] ELSE tasks[i].core]_vars
  BY StepOK, Zenon DEF RoundTrips
<1> QED
  BY <1>1, DeliveryInvariance, PTL DEF Spec, TaskRoundTrips

(* An update changes the queue its caller named and no other, over REST the one in the *)
(* path, and of that queue only what a mask it sent is for (route.decode, UpdateQueue, *)
(* v2QueueFields, v2beta3QueueFields).                                                 *)
THEOREM UpdatesStayInScopeCorrect == Spec => UpdatesStayInScope
<1>1. DeliveryInv /\ [Next]_vars =>
          [\A n \in QueueNames : queues'[n] # queues[n] =>
              /\ last'.name = n
              /\ queues[n] # Nil =>
                    \E scope \in last'.scopes :
                        \A f \in DOMAIN queues[n] \ scope : queues'[n][f] = queues[n][f]]_vars
  BY StepOK, Zenon DEF InScope
<1> QED
  BY <1>1, DeliveryInvariance, PTL DEF Spec, UpdatesStayInScope
=============================================================================
