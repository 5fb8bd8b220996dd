-------------------------------- MODULE MCIOBuf --------------------------------
EXTENDS IOBuf, TLC

MCData == {<<2>>, <<1, 2>>}
MCDelims == {<<2>>, <<1, 1>>}

\* Bytes that no buffer refers to are never read.
Live(b, i) ==
  \E u \in Bufs : \E j \in DOMAIN buf[u].refs :
    LET r == buf[u].refs[j] IN r.block = b /\ i \in r.offset..RefEnd(r)-1
LiveView ==
  <<[b \in Blocks |-> [block[b] EXCEPT !.data =
                          [i \in 0..Cap-1 |-> IF Live(b, i) THEN @[i] ELSE Fill]]],
    tls, buf, portal, stream, text>>

Sym == Permutations(Threads) \cup Permutations(Bufs)

================================================================================
