---------------------------- MODULE MCHTTPServer ----------------------------
(* Values for model-checking HTTPServer: one metric name that everybody uses and  *)
(* two more for a long report, counters of two bits, and RSA keys of every        *)
(* interesting size.                                                              *)
EXTENDS HTTPServer

MCIDs == {"m", "n", "o"}
MCGauges == {"one", "near", "NaN"}
MCNonFinite == {"NaN"}
\* Two gauges with the same six decimals have the same hash.
MCDigits == [v \in MCGauges |-> IF v = "near" THEN "one" ELSE v]

\* The key RSADecrypt is written for, a shorter one, a longer one, and one that is
\* too short to hold anything besides its padding.
MCRSAKeys == {"fit", "short", "long", "tiny"}
MCKeySize == [k \in MCRSAKeys |->
  CASE k = "fit" -> 5 [] k = "short" -> 4 [] k = "long" -> 6 [] k = "tiny" -> 2]

MCMember == {<<"inside", "net">>}

Deployment(ak, ar, sk, sr, subnet) ==
  [agentKey |-> ak, agentRSA |-> ar, serverKey |-> sk, serverRSA |-> sr, subnet |-> subnet]

\* Every pair of hash keys with and without RSA, every pair of RSA keys, and the
\* subnets with the plain deployment and with the best protected one.
MCDeployments ==
  {Deployment(ak, ar, sk, ar, Nil) :
     ak \in {Nil, "k1"}, sk \in {Nil, "k1", "k2"}, ar \in {Nil, "fit"}}
    \cup {Deployment("k1", ar, "k1", sr, Nil) :
            ar \in MCRSAKeys \cup {Nil}, sr \in MCRSAKeys \cup {Nil}}
    \cup {Deployment(k, ar, k, ar, subnet) :
            <<k, ar>> \in {<<Nil, Nil>>, <<"k1", "fit">>}, subnet \in {"net", "inside"}}

Gauge(v) == [id |-> "m", mtype |-> "gauge", val |-> v]
Count(d) == [id |-> "m", mtype |-> "counter", val |-> d]
Other == [id |-> "m", mtype |-> "other", val |-> Nil]

\* Reports of two and of four cells, and one that cannot be sent.
MCSamples ==
  {<<Count(1)>>, <<Count(1), [Gauge("one") EXCEPT !.id = "n"], [Gauge("one") EXCEPT !.id = "o"]>>,
   <<Gauge("NaN")>>}

Signed(m, key) == [m |-> m, hash |-> IF key = Nil THEN Nil ELSE HashOf(m, key)]

\* Lists that are good, that turn bad after a good metric in every way the checks
\* know, and that start bad.
Lists ==
  {<<Signed(Gauge("one"), "k1"), Signed(Count(1), "k1")>>,
   <<Signed(Count(1), "k1"), Signed(Gauge("one"), "k2")>>,
   <<Signed(Count(1), "k1"), Signed(Gauge("one"), Nil)>>,
   <<Signed(Count(1), "k1"), Signed(Gauge(Nil), Nil)>>,
   <<Signed(Count(1), Nil), Signed(Other, Nil)>>}

Objects ==
  {Signed(Gauge("near"), "k1"), Signed(Count(-1), Nil), Signed(Count(Nil), Nil),
   Signed(Gauge(Nil), Nil), Signed(Other, Nil)}

\* The same text plain, compressed, encrypted, and both.
Bodies(text) ==
  {[gz |-> FALSE, body |-> text], [gz |-> TRUE, body |-> Gzip(text)],
   [gz |-> FALSE, body |-> RSAEncrypt(text, "fit")],
   [gz |-> TRUE, body |-> RSAEncrypt(Gzip(text), "fit")]}

Empty == [gz |-> FALSE, body |-> <<>>]

Ask(route, b, url, ip) ==
  [from |-> "other", sample |-> <<>>, route |-> route, ip |-> ip, gz |-> b.gz,
   body |-> b.body, url |-> url]

MCForeign ==
  {Ask("updates", b, Nil, Nil) : b \in UNION {Bodies(ArrayText(l)) : l \in Lists}}
    \cup {Ask(route, b, Nil, Nil) :
            route \in {"update", "value"}, b \in UNION {Bodies(ObjectText(o)) : o \in Objects}}
    \cup {Ask("updates", Empty, Nil, ip) : ip \in {Nil, "inside", "outside"}}
    \cup {Ask(route, Empty, m, ip) :
            route \in {"urlUpdate", "urlValue"},
            m \in {Gauge("one"), Gauge("NaN"), Gauge(Nil), Count(1), Other},
            ip \in {Nil, "inside"}}
    \cup {Ask(route, Empty, Nil, Nil) : route \in {"all", "updateOther", "missedName"}}
=============================================================================
