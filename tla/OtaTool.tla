-------------------------------- MODULE OtaTool --------------------------------
(***************************************************************************)
(* The update-manifest tool (tools/ota_tool.cc over ota/src/               *)
(* ota_manifest.cc): genkey, sign and verify as processes over three       *)
(* files, whose writes truncate first and are neither atomic nor checked.  *)
(* A signed manifest may be edited on its way to the verifier.             *)
(*                                                                         *)
(* Ed25519 is external and ideal: a signature is the bytes and the key     *)
(* that made it.  The checksum and the URL are strings of one line, here   *)
(* sequences of pieces; the tool looks at neither.                         *)
(***************************************************************************)
EXTENDS Integers, Sequences

CONSTANTS MaxProcs,  \* bound: commands run
          Versions,
          Texts,      \* the checksums and URLs that occur
          MaxMishaps  \* bound: crashes, short writes and edits

VARIABLES
  disk,    \* "private", "public", "manifest": what the file holds
  proc,    \* proc[p]: a command, what it has read and still has to write
  stamp,   \* keys generated and times read
  mishaps,
  signed   \* history: [m, key] of every sign command that signed

vars == <<disk, proc, stamp, mishaps, signed>>

Procs == 1 .. MaxProcs

Missing == [is |-> "missing"]
Cut == [is |-> "cut"] \* empty or truncated: no PEM, and no signature line

New == [pc |-> "new", todo |-> <<>>, verdict |-> "none",
        key |-> 0, m |-> [version |-> 0, sha |-> <<>>, url |-> <<>>, issued |-> 0]]

Init ==
  /\ disk = [f \in {"private", "public", "manifest"} |-> Missing]
  /\ proc = [p \in Procs |-> New]
  /\ stamp = 0 /\ mishaps = 0 /\ signed = <<>>

Running == {p \in Procs : proc[p].pc \notin {"new", "exited", "threw", "killed"}}

\* The next command to be started; they are numbered as they start.
Starts(p) == proc[p].pc = "new" /\ \A q \in 1 .. p - 1 : proc[q].pc # "new"

Step(p, r) == proc' = [proc EXCEPT ![p] = r]

\* PEM of key k.
Pem(k) == [is |-> "key", key |-> k]

\* What is signed: "|url=" is put between two strings that may contain it, and what is
\* put between a number and a string marks where the digits end.
CanonicalBytes(m) == <<m.version, m.sha \o <<"|url=">> \o m.url, m.issued>>

SignManifest(m, k) == [bytes |-> CanonicalBytes(m), key |-> k, whole |-> TRUE]

\* SerializeSignedManifest: the fields, the signature last.
Signed(m, sig) == [is |-> "manifest", m |-> m, sig |-> sig]

-------------------------------------------------------------------------------
\* genkey: the private key is written first.
GenKey(p) ==
  /\ Starts(p)
  /\ stamp' = stamp + 1
  /\ Step(p, [New EXCEPT !.pc = "open",
                !.todo = <<<<"private", Pem(stamp + 1)>>, <<"public", Pem(stamp + 1)>>>>])
  /\ UNCHANGED <<disk, mishaps, signed>>

\* sign: reads the time and the private key.
Sign(p, v, sha, url) ==
  /\ Starts(p)
  /\ stamp' = stamp + 1
  /\ LET m == [version |-> v, sha |-> sha, url |-> url, issued |-> stamp + 1]
         key == disk["private"]
     IN IF key.is = "key"
        THEN /\ Step(p, [New EXCEPT !.pc = "open",
                           !.todo = <<<<"manifest", Signed(m, SignManifest(m, key.key))>>>>])
             /\ signed' = Append(signed, [m |-> m, key |-> key.key])
        ELSE /\ Step(p, [New EXCEPT !.pc = "threw"])
             /\ UNCHANGED signed
  /\ UNCHANGED <<disk, mishaps>>

\* WriteFileOrDie: the stream opens, and truncates.
OpenFile(p) ==
  /\ proc[p].pc = "open"
  /\ disk' = [disk EXCEPT ![Head(proc[p].todo)[1]] = Cut]
  /\ Step(p, [proc[p] EXCEPT !.pc = "write"])
  /\ UNCHANGED <<stamp, mishaps, signed>>

Written(p) ==
  LET rest == Tail(proc[p].todo)
  IN Step(p, [proc[p] EXCEPT !.todo = rest, !.pc = IF rest = <<>> THEN "exited" ELSE "open"])

\* The contents land.  Over what another process wrote since the truncation, a shorter
\* manifest keeps the other's tail, a line that does not parse.
WriteFile(p) ==
  /\ proc[p].pc = "write"
  /\ LET file == Head(proc[p].todo)[1] IN
       \/ disk' = [disk EXCEPT ![file] = Head(proc[p].todo)[2]]
       \/ disk[file].is = "manifest" /\ disk' = [disk EXCEPT ![file] = Cut]
  /\ Written(p)
  /\ UNCHANGED <<stamp, mishaps, signed>>

\* They land in part, as on a full disk: the tool does not look.
ShortWrite(p) ==
  /\ proc[p].pc = "write" /\ mishaps < MaxMishaps
  /\ mishaps' = mishaps + 1
  /\ LET file == Head(proc[p].todo)[1]
         data == Head(proc[p].todo)[2]
     IN \/ disk' = [disk EXCEPT ![file] = Cut]
        \/ /\ file = "manifest"
           /\ disk' = [disk EXCEPT ![file] = [data EXCEPT !.sig.whole = FALSE]]
  /\ Written(p)
  /\ UNCHANGED <<stamp, signed>>

Crash(p) ==
  /\ p \in Running /\ mishaps < MaxMishaps
  /\ mishaps' = mishaps + 1
  /\ Step(p, [proc[p] EXCEPT !.pc = "killed"])
  /\ UNCHANGED <<disk, stamp, signed>>

\* The fields of the file are edited and its signature is left, as ota_test.sh does.
Edit ==
  /\ disk["manifest"].is = "manifest" /\ mishaps < MaxMishaps
  /\ mishaps' = mishaps + 1
  /\ \E v \in Versions \cup {0}, sha, url \in Texts, issued \in {0, disk["manifest"].m.issued} :
       disk' = [disk EXCEPT !["manifest"].m = [version |-> v, sha |-> sha, url |-> url,
                                               issued |-> issued]]
  /\ UNCHANGED <<proc, stamp, signed>>

-------------------------------------------------------------------------------
\* Every line is a field's, and there is a signature.
ParseSignedManifest(text) == text.is = "manifest"

\* verify: reads and parses the manifest; without the file or a signature it fails.
ReadManifest(p) ==
  /\ Starts(p)
  /\ IF ParseSignedManifest(disk["manifest"])
     THEN Step(p, [New EXCEPT !.pc = "check", !.todo = <<disk["manifest"]>>,
                              !.m = disk["manifest"].m])
     ELSE Step(p, [New EXCEPT !.pc = "exited", !.verdict = "FAIL"])
  /\ UNCHANGED <<disk, stamp, mishaps, signed>>

\* EVP_DigestVerify: 1 valid, 0 invalid, below 0 an error.
DigestVerify(m, sig, k) ==
  CASE ~sig.whole -> {0, -1}
    [] sig.whole /\ sig = SignManifest(m, k) -> {1}
    [] OTHER -> {0}

\* Mutant: an error counts as valid.
FailOpen(m, sig, k) == {r # 0 : r \in DigestVerify(m, sig, k)}

VerifyManifestSignature(m, sig, k) == {r = 1 : r \in DigestVerify(m, sig, k)}

\* It reads the public key and answers; a key that does not parse throws.
Verify(p) ==
  /\ proc[p].pc = "check"
  /\ LET key == disk["public"]
         file == Head(proc[p].todo)
     IN IF key.is = "key"
        THEN \E ok \in VerifyManifestSignature(file.m, file.sig, key.key) :
               Step(p, [proc[p] EXCEPT !.pc = "exited", !.todo = <<>>, !.key = key.key,
                                       !.verdict = IF ok THEN "OK" ELSE "FAIL"])
        ELSE Step(p, [proc[p] EXCEPT !.pc = "threw", !.todo = <<>>])
  /\ UNCHANGED <<disk, stamp, mishaps, signed>>

Next ==
  \/ Edit
  \/ \E p \in Procs :
       \/ GenKey(p) \/ (\E v \in Versions, sha, url \in Texts : Sign(p, v, sha, url))
       \/ ReadManifest(p) \/ OpenFile(p) \/ WriteFile(p) \/ ShortWrite(p) \/ Crash(p)
       \/ Verify(p)

Spec == Init /\ [][Next]_vars

-------------------------------------------------------------------------------
OneFieldDiffers(a, b) ==
  \E f \in DOMAIN a : a[f] # b[f] /\ \A g \in DOMAIN a \ {f} : a[g] = b[g]

\* Whatever was interrupted, cut short, edited or run at once: the canonical bytes of
\* the manifest a verify calls OK were signed by a sign command, with the private half
\* of the public key they were checked against, and "tampering with any single field"
\* (ota_manifest.h:42) has not happened to it.  (Manifests of the same bytes can differ
\* in two fields, where the end of the checksum and the start of the URL are moved.)
VerifiedIsSigned ==
  \A p \in Procs :
    proc[p].verdict = "OK" =>
      \E i \in DOMAIN signed :
        /\ signed[i].key = proc[p].key
        /\ CanonicalBytes(signed[i].m) = CanonicalBytes(proc[p].m)
        /\ ~OneFieldDiffers(signed[i].m, proc[p].m)
================================================================================
