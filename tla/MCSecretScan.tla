----------------------------- MODULE MCSecretScan -----------------------------
(* Disks for SecretScan: some without a history, with files of every kind and *)
(* an editor; some with one plain file and a history that meets every limit.  *)
EXTENDS SecretScan

File(d, k, s, secret) == [dir |-> d, kind |-> k, size |-> s, secret |-> secret]
Blb(k, s, n)  == [kind |-> k, size |-> s, hits |-> n]
E(what, b)    == [what |-> what, blob |-> b]
F(b)          == E("file", b)

NoRepo == [hash |-> "none", within |-> TRUE, commits |-> <<>>, blobs |-> [b \in {} |-> 0]]
Blobs  == [p |-> Blb("text", 1, 0), s |-> Blb("text", 2, 1), t |-> Blb("text", 1, 2),
           l |-> Blb("text", 3, 1), b |-> Blb("binary", 1, 0)]
Sha1(commits)   == [hash |-> "sha1", within |-> TRUE, commits |-> commits, blobs |-> Blobs]
Sha256(commits) == [Sha1(commits) EXCEPT !.hash = "sha256"]
Elsewhere       == [Sha1(<< <<F("s")>> >>) EXCEPT !.within = FALSE]

Plain   == File("top", "text", 1, 0)
Tail3   == File("top", "text", 3, 3)     \* larger than MaxBytes
Grown   == File("top", "text", 4, 4)     \* cut by the read as well
Secret  == File("top", "text", 2, 2)
Kinds   == {File("sub", k, 1, 0) : k \in {"binary", "encoding", "locked", "link",
                                           "absent", "policy"}}

OfFiles(fs, hidden) ==
  [files |-> fs, hidden |-> hidden, history |-> FALSE, repo |-> NoRepo,
   edits |-> {Plain, Tail3, Grown, Secret, File("sub", "absent", 0, 0)}]
OfHistory(repo) ==
  [files |-> [f1 |-> Plain], hidden |-> {}, history |-> TRUE, repo |-> repo, edits |-> {}]

FileScenes ==
  {OfFiles([f1 |-> a, f2 |-> b, f3 |-> k], h) :
     a \in {Plain, Tail3}, b \in {Secret}, k \in Kinds, h \in {{}, {"sub"}}}

HistoryScenes ==
  {OfHistory(r) : r \in
     {NoRepo, Sha1(<<>>), Elsewhere,
      Sha1(<< <<F("s"), E("bad", "p"), F("p")>> >>),       \* a blob is missing
      Sha1(<< <<F("s")>>, <<F("s"), F("p")>> >>),          \* cached, found twice
      Sha1(<< <<E("link", "p"), F("p")>>, <<F("l")>> >>),  \* too large
      Sha1(<< <<F("s"), F("t")>>, <<F("t")>> >>),          \* total and finding caps
      Sha1(<< <<F("t")>>, <<F("t")>> >>),                  \* finding cap
      Sha1(<< <<F("p"), F("b")>> >>),                      \* binary
      Sha1(<< <<F("p"), F("p"), F("p")>>, <<F("s")>> >>),  \* file cap
      Sha1(<< <<F("p")>>, <<F("p")>>, <<F("t")>> >>),      \* commit cap
      Sha1(<< <<F("p"), F("p"), F("p"), F("p"), F("s")>> >>),  \* tree cap
      Sha256(<< <<F("s")>>, <<F("p")>> >>),
      Sha256(<< <<F("p")>>, <<F("p")>>, <<F("t")>> >>)}}

MCScenes == FileScenes \cup HistoryScenes
==============================================================================
