------------------------------ MODULE BlobUrl ------------------------------
(***************************************************************************)
(* URLs of blobs and of containers (onefuzz/src/blob/url.rs).  A URL is    *)
(* its scheme, its host and the segments of its path; its query is kept by *)
(* every operation.  A blob's name is the sequence of its parts between    *)
(* slashes; encoding a segment and decoding it again gives it back.        *)
(***************************************************************************)
EXTENDS Naturals, Sequences

Schemes == {"https", "http", "file"}

\* Of a host it only matters what kind it is: a domain name of several labels, the
\* first of which is the account, one label, or an address.  A file URL may have none,
\* or one that to_file_path takes for a share (on Windows; on Linux there is no such host).
Hosts == {"account", "label", "address", "none", "share"}

\* A segment may be empty; no other is written like this.
EmptySegment == "<empty>"

Url(scheme, host, path) == [scheme |-> scheme, host |-> host, path |-> path]

\* Only a file has a URL without a host.
Wellformed(url) == url.host \in {"none", "share"} => url.scheme = "file"

\* "Weak check of necessary conditions for a storage blob or container URL."
possible_blob_storage_url(url, container) ==
    \/ url.scheme = "file"
    \/ /\ url.scheme = "https" /\ url.host = "account"
       /\ IF container THEN Len(url.path) = 1 ELSE Len(url.path) > 1
       /\ url.path[1] # EmptySegment

IsContainerUrl(url) == possible_blob_storage_url(url, TRUE)
IsBlobUrl(url) == possible_blob_storage_url(url, FALSE)

\* BlobUrl::new and BlobContainerUrl::new: a URL that to_file_path refuses is kept as one of
\* the storage, a file URL with a host included.
Local(url) == url.scheme = "file" /\ url.host \in {"none", "share"}

\* account and container: a local file has none.  The account is the first label of the
\* domain; an address has no domain, and the unwrap panics.
account(url) ==
    IF Local(url) THEN "None" ELSE IF url.host = "address" THEN "panic" ELSE url.host
container(url) == IF Local(url) THEN "None" ELSE url.path[1]

\* Path::file_name: the last segment that is not empty.
FileName(path) ==
    path[CHOOSE i \in DOMAIN path : /\ path[i] # EmptySegment
                                    /\ \A j \in DOMAIN path : i < j => path[j] = EmptySegment]

\* BlobUrl::name: what follows the container, or the file's name.
name(url) == IF Local(url) THEN <<FileName(url.path)>> ELSE Tail(url.path)

\* Mutant of blob: only the last part of the name.
blob_LastPart(url, nm) == [url EXCEPT !.path = Append(@, nm[Len(nm)])]

\* BlobContainerUrl::blob: each part of the name is one more segment, after the slash of an
\* empty path.
blob(url, nm) == [url EXCEPT !.path = IF @ = <<EmptySegment>> THEN nm ELSE @ \o nm]

\* Url::join with a relative reference of one segment replaces the last segment.
Join(url, seg) == [url EXCEPT !.path = Append(SubSeq(@, 1, Len(@) - 1), seg)]
=============================================================================
