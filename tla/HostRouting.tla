----------------------------- MODULE HostRouting -----------------------------
(***************************************************************************)
(* lib/file/db_host.go and lib/index/host.go: the choice of the host       *)
(* record that serves a request, gives the certificate of a TLS name or    *)
(* lends its certificate to another host.  The index, a tree of domain     *)
(* labels, hands the candidates over in no particular order; one step of   *)
(* the model is one turn of the loop over them.                            *)
(* A domain is the sequence of its labels from the top, a pattern a domain *)
(* with the way it is written: "exact" x, "dot" *.x, "bare" *x.  A path or *)
(* a location is the sequence of the characters after its first slash.     *)
(***************************************************************************)
EXTENDS Integers, Sequences, SequencesExt

CONSTANTS HostSets,     \* the contents the map of hosts may have
          Domains, Paths,
          LabelLength,  \* [label -> its length]
          EndsIn        \* pairs of labels, the first ends in the second

VARIABLES use,     \* "serve", "cert" or "lend"
          hosts,   \* the records in the map, all indexed
          domain, path, scheme, exclude,
          left,    \* candidates the loop has not seen
          best, over

vars == <<use, hosts, domain, path, scheme, exclude, left, best, over>>

None == [id |-> 0]

Length(d) == Len(d) - 1 + FoldFunction(+, 0, [i \in 1..Len(d) |-> LabelLength[d[i]]])
(* strings.TrimPrefix(pattern, "*") keeps the dot of "*.x". *)
DomainLength(h) == Length(h.labels) + IF h.wild = "dot" THEN 1 ELSE 0

Exact(h, d) == h.wild = "exact" /\ h.labels = d
Matches(h, d) ==
  \/ Exact(h, d)
  \/ h.wild = "dot" /\ Len(d) > Len(h.labels) /\ IsPrefix(h.labels, d)
  \/ /\ h.wild = "bare" /\ Len(d) >= Len(h.labels)
     /\ IsPrefix(Front(h.labels), d) /\ <<d[Len(h.labels)], Last(h.labels)>> \in EndsIn

(* The records on the way from the root of the tree to the domain. *)
Lookup(d) == {h \in hosts : IsPrefix(h.labels, d)}

SchemeFits(h) == h.scheme \in {"all", scheme}

(* GetInfoByHost: the longest location, then the longest domain, then an exact name. *)
Serves(h) == ~ h.closed /\ SchemeFits(h) /\ Matches(h, domain) /\ IsPrefix(h.location, path)
ServesDomainFirst(h) ==
  \/ best = None
  \/ DomainLength(h) > DomainLength(best)
  \/ DomainLength(h) = DomainLength(best) /\ Len(h.location) > Len(best.location)
ServesBetter(h) ==
  \/ best = None
  \/ Len(h.location) > Len(best.location)
  \/ Len(h.location) = Len(best.location) /\ (DomainLength(h) > DomainLength(best) \/ Exact(h, domain))

(* FindCertByHost: an exact name at the root ends the search. *)
Certifies(h) == ~ h.closed /\ h.scheme # "http" /\ Matches(h, domain)
CertifiesAtOnce(h) == Exact(h, domain) /\ h.location = <<>>
CertifiesBetter(h) ==
  \/ best = None
  \/ DomainLength(h) > DomainLength(best)
  \/ /\ DomainLength(h) = DomainLength(best)
     /\ \/ Exact(h, domain) /\ (Len(h.location) <= Len(best.location) \/ best.wild # "exact")
        \/ Len(h.location) <= Len(best.location) /\ best.wild # "exact"

(* SelectReusableCertHost: a record with a certificate of its own, closed or not. *)
Lends(h) == h.id # exclude /\ h.scheme # "http" /\ h.cert /\ Matches(h, domain)
LendsBetter(h) ==
  \/ best = None
  \/ DomainLength(h) > DomainLength(best)
  \/ /\ DomainLength(h) = DomainLength(best)
     /\ \/ Len(h.location) < Len(best.location)
        \/ Len(h.location) = Len(best.location) /\ ((best.closed /\ ~ h.closed) \/ h.id < best.id)

Init ==
  /\ use \in {"serve", "cert", "lend"}
  /\ hosts \in HostSets
  /\ domain \in Domains /\ path \in Paths /\ scheme \in {"http", "https"}
  /\ exclude \in {0, 1} /\ (use # "lend" => exclude = 0) /\ (use # "serve" => path = <<>> /\ scheme = "https")
  /\ left = Lookup(domain) /\ best = None /\ over = FALSE

Take(h, better) == IF better THEN best' = h ELSE UNCHANGED best

GetInfoByHost(h) == use = "serve" /\ Take(h, Serves(h) /\ ServesBetter(h)) /\ over' = FALSE
FindCertByHost(h) ==
  /\ use = "cert"
  /\ Take(h, Certifies(h) /\ (CertifiesAtOnce(h) \/ CertifiesBetter(h)))
  /\ over' = (Certifies(h) /\ CertifiesAtOnce(h))
FindReusableCertHost(h) == use = "lend" /\ Take(h, Lends(h) /\ LendsBetter(h)) /\ over' = FALSE

Turn ==
  /\ ~ over
  /\ \E h \in left :
       /\ left' = left \ {h}
       /\ GetInfoByHost(h) \/ FindCertByHost(h) \/ FindReusableCertHost(h)
  /\ UNCHANGED <<use, hosts, domain, path, scheme, exclude>>

Return == (left = {} \/ over) /\ UNCHANGED vars

Next == Turn \/ Return
Spec == Init /\ [][Next]_vars

-----------------------------------------------------------------------------
(* The reference: all records that fit, ranked. *)
Fits(h) == CASE use = "serve" -> Serves(h) [] use = "cert" -> Certifies(h) [] use = "lend" -> Lends(h)
Beats(g, h) ==
  LET longer == DomainLength(g) > DomainLength(h)
      same == DomainLength(g) = DomainLength(h)
      sharper == Exact(g, domain) /\ ~ Exact(h, domain)
  IN IF use = "serve"
     THEN \/ Len(g.location) > Len(h.location)
          \/ Len(g.location) = Len(h.location) /\ (longer \/ (same /\ sharper))
     ELSE \/ longer
          \/ same /\ use = "cert" /\ sharper
          \/ same /\ (use = "cert" => Exact(g, domain) = Exact(h, domain)) /\ Len(g.location) < Len(h.location)

(* A pattern *x that ends inside a label of the domain is not on the way to it in the tree. *)
Reachable(h) == h.wild = "bare" => IsPrefix(h.labels, domain)

(* Whatever the order of the candidates, the record chosen fits and no fitting record of the whole
   map beats it; none is chosen only if none fits.  (Patterns that end inside a label are not found.) *)
SelectionIsBest ==
  left = {} \/ over =>
    LET fitting == {h \in hosts : Fits(h) /\ Reachable(h)}
    IN IF best = None THEN fitting = {}
       ELSE best \in fitting /\ \A h \in fitting : ~ Beats(h, best)
=============================================================================
