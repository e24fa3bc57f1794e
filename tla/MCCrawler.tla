----------------------------- MODULE MCCrawler -----------------------------
EXTENDS Crawler
\* a links to b and c, c is empty or redirects to b.
MCLinks == [u \in Urls |-> IF u = "a" THEN <<"b", "c">> ELSE IF u = "b" THEN <<"c">> ELSE <<>>]
MCRedirects == [u \in Urls |-> IF u = "c" THEN {"b"} ELSE {}]
=============================================================================
