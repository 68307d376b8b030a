--------------------------- MODULE MCMetadataFile ---------------------------
\* An instance of MetadataFile: an empty file, one with a fresh root, one with files.
EXTENDS MetadataFile

MCContent == {<<>>, <<"root">>, <<"tree", "data">>}
=============================================================================
