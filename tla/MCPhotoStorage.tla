-------------------------- MODULE MCPhotoStorage --------------------------
EXTENDS PhotoStorage
=============================================================================
