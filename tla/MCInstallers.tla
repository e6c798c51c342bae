---------------------------- MODULE MCInstallers ----------------------------
(* Instances of Installers for TLC: a host whose architecture is arm.        *)
EXTENDS Installers, TLC
CONSTANTS arm64tar, armtar, armexe, winzip, deb, checksums, c1, c2, h1, h2, v1, main

Listed(n, c, a) == [fields |-> 2, digest |-> [algorithm |-> a, of |-> c], name |-> n]
MCPage == {<<deb, winzip, checksums>>, <<armtar>>, <<checksums, arm64tar, armtar>>,
           <<armexe, armtar, checksums>>}
\* right, of another algorithm, with a line that is no pair, twice listed, and of others
MCManifest ==
    {<<Listed(armexe, c1, "sha256"), Listed(armtar, c1, "sha256")>>,
     <<Listed(armtar, c1, "sha512")>>,
     <<[fields |-> 0], Listed(armtar, c1, "sha256")>>,
     <<Listed(armtar, c1, "sha256"), [fields |-> 1], Listed(armtar, c2, "sha256")>>,
     <<Listed(deb, c1, "sha256")>>}
F(base, binary) == [base |-> base, binary |-> binary]
MCTree == {<<F("tool", FALSE), F("LICENSE", FALSE)>>, <<F("other", TRUE)>>,
           <<F("tool", TRUE), F("other", TRUE)>>, <<F("checksums.txt", FALSE)>>,
           <<F("tool", FALSE), F("other", TRUE)>>, <<F("tool", TRUE), F("tool", FALSE)>>}
\* none, and one that does not follow the order of the assets
MCPatterns == {<<>>, <<{armtar}, {armexe, arm64tar}>>}

Remote(kind, source) ==
    [kind |-> kind, local |-> FALSE, github |-> TRUE, repoURL |-> FALSE, source |-> source,
     module |-> <<"owner", "tool", "v2">>, entrypoint |-> <<>>, templates |-> TRUE]
Local(kind) ==
    [Remote(kind, "git") EXCEPT !.local = TRUE, !.module = <<".">>,
                                !.entrypoint = <<"cmd", "tool">>]
\* every source; one without a URL; templates that do not render; names that go chooses
MCTool ==
    {Remote(k, s) : k \in {"go-build"}, s \in {"git", "go-proxy", "goproxy", "svn"}}
    \cup {Remote(k, "git") : k \in {"go-install", "hosted-shell"}}
    \cup {Local(k) : k \in {"go-build", "go-install"}}
    \cup {[Remote("go-build", "git") EXCEPT !.github = FALSE],
          [Remote("go-build", "git") EXCEPT !.github = FALSE, !.repoURL = TRUE],
          [Remote("go-install", "git") EXCEPT !.entrypoint = <<"cmd", "tool">>],
          [Local("go-build") EXCEPT !.entrypoint = <<>>]}
    \cup {[Remote(k, "git") EXCEPT !.templates = FALSE] :
            k \in {"go-install", "go-build", "hosted-shell"}}
\* the proxy still has the commit that the tag named first, and no branch
MCProxied == [v \in Version |-> IF v \in {v1, h1} THEN {h1} ELSE {}]
MCStray == {{}, {"install.sh"}, {"tool"}, {"install.sh", "tool"},
            {"INSTALL.SH", "tool", "notes"}}
MCSegment == {"owner", "tool", "v2", ".", "cmd"}
=============================================================================
