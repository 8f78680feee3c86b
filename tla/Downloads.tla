----------------------------- MODULE Downloads -----------------------------
(***************************************************************************)
(* One file that is downloaded to one place, time and again                 *)
(* (src/fromager/downloads.py), with the retries of the HTTP adapter inside  *)
(* those of the download (src/fromager/http_retry.py).  Retries of urllib3,  *)
(* inside those of the adapter, are part of what the server answers.         *)
(***************************************************************************)
EXTENDS Integers

CONSTANTS
  Tries,     \* max_attempts of _download_with_retry
  Attempts,  \* requests that RetryHTTPAdapter.send makes for one of them
  MaxTemps   \* how many temporary files may be left behind, a bound for TLC

ASSUME DownloadsAssumption ==
  Tries \in Nat \ {0} /\ Attempts \in Nat \ {0} /\ MaxTemps \in Nat

VARIABLES
  file,     \* the destination: "none", "good", an archive that is "empty"
  temps,    \* temporary files that nobody will remove
  fetch,    \* "idle", "sending", "reading", "got" or "failed"
  try,      \* attempt of retry_on_exception
  attempt,  \* attempt of RetryHTTPAdapter.send
  heard     \* what went wrong in this fetch: tries, requests of this try, for good

downloadVars == <<file, temps, fetch, try, attempt, heard>>

Fetching == fetch \in {"sending", "reading"}

DownloadsTypeOK ==
  /\ file \in {"none", "good", "empty"} /\ temps \in 0..MaxTemps
  /\ fetch \in {"idle", "sending", "reading", "got", "failed"}
  /\ try \in 1..Tries /\ attempt \in 1..Attempts
  /\ heard \in [tries : 0..Tries, requests : 0..Attempts, final : BOOLEAN]

Silence == [tries |-> 0, requests |-> 0, final |-> FALSE]

DownloadsInit ==
  /\ file \in {"none", "good"} /\ temps = 0 /\ fetch = "idle"
  /\ try = 1 /\ attempt = 1 /\ heard = Silence

(* An archive without content fails the check that follows every download,   *)
(* also of a file that was there.                                            *)
Verified(f) == IF f = "empty" THEN "failed" ELSE "got"

(* download_url: a file that exists is taken as it is.                       *)
StartFetch ==
  /\ fetch = "idle"
  /\ fetch' = IF file = "none" THEN "sending" ELSE Verified(file)
  /\ heard' = [Silence EXCEPT !.final = (file = "empty")]
  /\ UNCHANGED <<file, temps, try, attempt>>

RequestFailed == heard' = [heard EXCEPT !.requests = @ + 1]
TryFailed     == heard' = [heard EXCEPT !.tries = @ + 1, !.requests = 0]

(* Mutant: a try goes on with the requests that the last one has left. *)
KeepAttempts ==
  /\ TryFailed
  /\ \/ /\ try < Tries /\ try' = try + 1 /\ fetch' = "sending" /\ UNCHANGED attempt
     \/ /\ try = Tries /\ fetch' = "failed" /\ UNCHANGED <<try, attempt>>

(* retry_on_exception: the temporary file goes, and there is another try      *)
(* unless this was the last.                                                 *)
TryAgain ==
  /\ TryFailed
  /\ \/ /\ try < Tries /\ try' = try + 1 /\ attempt' = 1 /\ fetch' = "sending"
     \/ /\ try = Tries /\ fetch' = "failed" /\ UNCHANGED <<try, attempt>>

(* send: a server error, or an API's rate limit that ends soon, is answered by *)
(* another request; the last answer is returned and refused by                *)
(* raise_for_status, whose exception is not retried.                         *)
ServerError ==
  /\ fetch = "sending" /\ RequestFailed
  /\ \/ attempt < Attempts /\ attempt' = attempt + 1 /\ UNCHANGED <<fetch, try>>
     \/ attempt = Attempts /\ fetch' = "failed" /\ UNCHANGED <<try, attempt>>
  /\ UNCHANGED <<file, temps>>

(* A lost connection is retried likewise; after the last request the download *)
(* tries again.                                                              *)
Drop ==
  /\ fetch = "sending"
  /\ \/ /\ attempt < Attempts /\ attempt' = attempt + 1
        /\ RequestFailed /\ UNCHANGED <<fetch, try>>
     \/ attempt = Attempts /\ TryAgain
  /\ UNCHANGED <<file, temps>>

(* Any other error, and a rate limit that ends late, is final.               *)
Refuse ==
  /\ fetch = "sending" /\ fetch' = "failed"
  /\ heard' = [heard EXCEPT !.final = TRUE]
  /\ UNCHANGED <<file, temps, try, attempt>>

Respond ==
  /\ fetch = "sending" /\ fetch' = "reading"
  /\ UNCHANGED <<file, temps, try, attempt, heard>>

(* The connection breaks while the body is read.                             *)
Cut ==
  /\ fetch = "reading" /\ TryAgain
  /\ UNCHANGED <<file, temps>>

(* A body that cannot be decoded, or written, is not tried again.             *)
Spoil ==
  /\ fetch = "reading" /\ fetch' = "failed"
  /\ heard' = [heard EXCEPT !.final = TRUE]
  /\ UNCHANGED <<file, temps, try, attempt>>

(* The body is complete and renamed; then it is verified, and stays.         *)
Save ==
  /\ fetch = "reading"
  /\ \E f \in {"good", "empty"} :
       file' = f /\ fetch' = Verified(f) /\ heard' = [heard EXCEPT !.final = (f = "empty")]
  /\ UNCHANGED <<temps, try, attempt>>

Forget == fetch' = "idle" /\ try' = 1 /\ attempt' = 1 /\ heard' = Silence

(* The process is killed; nobody removes the temporary file.                 *)
CrashFetch ==
  /\ Fetching /\ temps < MaxTemps
  /\ temps' = temps + 1 /\ Forget
  /\ UNCHANGED file

(* The caller takes the outcome.                                             *)
EndFetch ==
  /\ fetch \in {"got", "failed"} /\ Forget
  /\ UNCHANGED <<file, temps>>

Fetch == StartFetch \/ ServerError \/ Drop \/ Refuse \/ Respond \/ Cut \/ Spoil \/ Save

DownloadsNext == Fetch \/ CrashFetch \/ EndFetch

DownloadsSpec == DownloadsInit /\ [][DownloadsNext]_downloadVars

-----------------------------------------------------------------------------
(* A download fails only on what is final, after all its tries failed, or after *)
(* as many requests of the current try as the adapter may send: the requests of *)
(* an earlier try, or of an earlier download, use up none of them.  And what is *)
(* final is the end of it: no request follows (retry_on_exception, send).      *)
FailureJustified ==
  /\ fetch = "failed" => heard.final \/ heard.tries = Tries \/ heard.requests = Attempts
  /\ heard.final => fetch = "failed"
=============================================================================
