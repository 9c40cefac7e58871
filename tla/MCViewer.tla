------------------------------- MODULE MCViewer -------------------------------
EXTENDS Viewer
\* A session file begins with the record that names the session.
HeaderOnly == {<<"meta">>}
=============================================================================
